---------------------------- MODULE Threads_proofs ----------------------------
(***************************************************************************)
(* Proofs about the five groups of threads of MCThreads, alone and in one  *)
(* run: the two present loops, a session's threads and children, the audio *)
(* pump and the pictures, and the calls of the player with its workers.    *)
(*                                                                         *)
(* That no picture is lost, swapped or mixed is a fact about numbers: the  *)
(* invariants say which frame of the stream every slot, bank and counter   *)
(* stands for.  That a session leaves nothing is one about places: who     *)
(* holds each pipe and names each child, at each place of each session.    *)
(* And that the sessions stay apart is one about what is left of a call,   *)
(* whatever the other calls do meanwhile.                                  *)
(***************************************************************************)
EXTENDS MCThreads, TLAPS

-----------------------------------------------------------------------------
(* The present pipeline.                                                   *)

\* Frames put into the ring, frames taken out of it, and frames settled: the
\* frame in hand is settled once it was presented, refused or dropped.
Published == IF reader = "read" THEN frameIndex - 1 ELSE frameIndex
Released == Published - ring.full
Settled == IF presenter.pc \in {"swap", "release"} THEN Released + 1 ELSE Released

\* The ring holds the frames that follow the released ones, in order, and the
\* slot being filled is none of theirs.
RingHolds ==
    /\ ring.read = IF ring.full = 1 THEN 1 - ring.present ELSE ring.present
    /\ reader \in {"reading", "read"} => ring.full < 2
    /\ reader = "read" => frameIndex > 0 /\ slots[ring.read] = frameIndex
    /\ ring.full >= 1 => slots[ring.present] = Released + 1
    /\ ring.full = 2 => slots[1 - ring.present] = Released + 2
    /\ Released >= 0

\* The present thread works on the oldest frame of the ring, and sleeps beside an
\* empty one.
InHand ==
    /\ presenter.pc \in {"pace", "present", "swap", "release"}
         => ring.full >= 1 /\ presenter.frame = slots[ring.present]
    /\ presenter.pc \in {"parking", "waiting"} => ring.full = 0
    /\ presenter.pc = "pace" => mode = "strict"

\* Only a stop or a failure leaves a frame unhandled.
HandledCount ==
    /\ handled <= Settled
    /\ ~flags.stop /\ ~flags.fatal => handled = Settled

\* How the two threads end.
PipeEnds ==
    /\ flags.eof <=> reader \in {"notify", "join", "done"}
    /\ presenter.pc = "done" => flags.stop \/ flags.fatal \/ (ring.full = 0 /\ flags.eof)
    /\ reader = "done" => presenter.pc = "done"
    /\ result # "none" => reader = "done"
    /\ result = "ended" => ~flags.stop /\ ~flags.fatal
    /\ presenter.pc \in {"parking", "waiting"} /\ reader \in {"join", "done"} => missed

\* What was last presented is settled.
ShownSettled == shown.of >= 0 /\ shown.of <= Settled /\ PresentsItsFrame

\* A prefetched bank holds the next frame until a pause repaint, which turns the
\* preferred bank away from it.
PrefetchHolds ==
    prefetched.ready =>
      /\ mode = "live" /\ prefetched.bank \in {0, 1}
      /\ prefetched.repaints = 0 => localBank = prefetched.bank /\ core.bank[localBank] = Settled + 1
      /\ prefetched.repaints = 1 => localBank # prefetched.bank

PipeInv ==
    /\ PipeTypeOK /\ RingHolds /\ InHand /\ HandledCount /\ PipeEnds /\ ShownSettled
    /\ PrefetchHolds

(* The numbers behind the invariant. *)
LEMMA PipeNumbers ==
    ASSUME PipeTypeOK
    PROVE  /\ frameIndex \in Nat /\ frameIndex <= MaxFrames /\ MaxFrames \in Nat
           /\ ring.full \in {0, 1, 2} /\ ring.read \in {0, 1} /\ ring.present \in {0, 1}
           /\ handled \in Nat /\ shown.of \in Int /\ Published \in Int /\ Released \in Int
           /\ Settled \in Int
<1>1. frameIndex \in Nat /\ frameIndex <= MaxFrames /\ MaxFrames \in Nat
  BY PipelineAssumption DEF PipeTypeOK, ReaderType
<1>2. ring.full \in {0, 1, 2} /\ ring.read \in {0, 1} /\ ring.present \in {0, 1}
  BY DEF PipeTypeOK, RingType
<1>3. handled \in Nat /\ shown.of \in Int
  BY DEF PipeTypeOK, CountsType
<1> QED
  BY <1>1, <1>2, <1>3 DEF Published, Released, Settled

(* A step that moves neither the ring nor the threads keeps what they hold. *)
LEMMA RingFrame ==
    ASSUME RingHolds, UNCHANGED <<ring, slots, frameIndex>>,
           reader' = reader \/ (reader # "read" /\ reader' \notin {"read", "reading"})
    PROVE  RingHolds' /\ Published' = Published /\ Released' = Released
BY DEF RingHolds, Published, Released

(* A presenter that is idle at one of its steps. *)
LEMMA IdleType ==
    ASSUME NEW pc \in {"check", "parking", "waiting", "done"}, presenter' = Idle(pc)
    PROVE  PresenterType' /\ presenter'.pc = pc
<1>1. 0 \in -1..MaxFrames
  BY PipelineAssumption
<1>2. Idle(pc) = [pc |-> pc, frame |-> 0, drawn |-> FALSE]
  BY DEF Idle
<1> QED
  BY <1>1, <1>2 DEF PresenterType

(* The reader fills a slot that is not presented. *)
LEMMA ReadBeginsStep ==
    ASSUME PipeInv, ReadBegins
    PROVE  PipeInv'
<1>1. /\ PipeTypeOK /\ RingHolds /\ InHand /\ HandledCount /\ PipeEnds /\ ShownSettled
      /\ PrefetchHolds
  BY DEF PipeInv
<1>2. /\ reader = "top" /\ reader' = "reading" /\ ring.full < 2
      /\ slots' = [slots EXCEPT ![ring.read] = -1]
      /\ UNCHANGED <<mode, ring, frameIndex, presenter, flags, overlay, core, localBank, prefetched,
                     last, dropRun, pauses, result, shown, handled, missed>>
  BY DEF ReadBegins
<1>3. -1 \in -1..MaxFrames
  BY PipelineAssumption
<1>4. PipeTypeOK'
  BY <1>1, <1>2, <1>3 DEF PipeTypeOK, ReaderType, RingType, PresenterType, BanksType, CountsType
<1>5. Published' = Published /\ Released' = Released /\ Settled' = Settled
  BY <1>2 DEF Published, Released, Settled
<1>6. ring.full >= 1 => slots'[ring.present] = slots[ring.present]
  BY <1>1, <1>2, PipeNumbers DEF RingHolds, PipeTypeOK, RingType
<1>7. RingHolds'
  BY <1>1, <1>2, <1>5, <1>6, PipeNumbers DEF RingHolds
<1>8. InHand' /\ PipeEnds'
  BY <1>1, <1>2, <1>6 DEF InHand, PipeEnds
<1>9. HandledCount' /\ ShownSettled' /\ PrefetchHolds'
  BY <1>1, <1>2, <1>5 DEF HandledCount, ShownSettled, PrefetchHolds, PresentsItsFrame
<1> QED
  BY <1>4, <1>7, <1>8, <1>9 DEF PipeInv

(* The slot holds the next frame of the stream. *)
LEMMA ReadEndsStep ==
    ASSUME PipeInv, ReadEnds
    PROVE  PipeInv'
<1>1. /\ PipeTypeOK /\ RingHolds /\ InHand /\ HandledCount /\ PipeEnds /\ ShownSettled
      /\ PrefetchHolds
  BY DEF PipeInv
<1>2. /\ reader = "reading" /\ reader' = "read" /\ frameIndex < MaxFrames
      /\ frameIndex' = frameIndex + 1
      /\ slots' = [slots EXCEPT ![ring.read] = frameIndex + 1]
      /\ UNCHANGED <<mode, ring, presenter, flags, overlay, core, localBank, prefetched, last,
                     dropRun, pauses, result, shown, handled, missed>>
  BY DEF ReadEnds
<1>3. frameIndex + 1 \in 0..MaxFrames /\ frameIndex + 1 \in -1..MaxFrames /\ frameIndex + 1 > 0
  BY <1>1, <1>2, PipeNumbers
<1>4. PipeTypeOK'
  BY <1>1, <1>2, <1>3 DEF PipeTypeOK, ReaderType, RingType, PresenterType, BanksType, CountsType
<1>5. Published' = Published /\ Released' = Released /\ Settled' = Settled
  BY <1>1, <1>2, PipeNumbers DEF Published, Released, Settled
<1>6. /\ ring.full < 2
      /\ ring.full >= 1 => slots'[ring.present] = slots[ring.present]
      /\ slots'[ring.read] = frameIndex + 1
  BY <1>1, <1>2, PipeNumbers DEF RingHolds, PipeTypeOK, RingType
<1>7. RingHolds'
  BY <1>1, <1>2, <1>3, <1>5, <1>6, PipeNumbers DEF RingHolds
<1>8. InHand' /\ PipeEnds'
  BY <1>1, <1>2, <1>6 DEF InHand, PipeEnds
<1>9. HandledCount' /\ ShownSettled' /\ PrefetchHolds'
  BY <1>1, <1>2, <1>5 DEF HandledCount, ShownSettled, PrefetchHolds, PresentsItsFrame
<1> QED
  BY <1>4, <1>7, <1>8, <1>9 DEF PipeInv

(* A frame goes into the ring, and a present thread that waits is woken. *)
LEMMA PublishStep ==
    ASSUME PipeInv, Publish
    PROVE  PipeInv'
<1>1. /\ PipeTypeOK /\ RingHolds /\ InHand /\ HandledCount /\ PipeEnds /\ ShownSettled
      /\ PrefetchHolds
  BY DEF PipeInv
<1>2. /\ reader = "read" /\ reader' = "top" /\ presenter.pc # "parking"
      /\ ring' = [ring EXCEPT !.full = @ + 1, !.read = 1 - @]
      /\ presenter' = IF presenter.pc = "waiting" THEN Idle("check") ELSE presenter
      /\ UNCHANGED <<mode, slots, frameIndex, flags, overlay, core, localBank, prefetched, last,
                     dropRun, pauses, result, shown, handled, missed>>
  BY DEF Publish, RingMuFree, Notified
<1>3. ring'.full = ring.full + 1 /\ ring'.read = 1 - ring.read /\ ring'.present = ring.present
  BY <1>1, <1>2 DEF PipeTypeOK, RingType
<1>4. ring.full \in {0, 1} /\ frameIndex > 0 /\ slots[ring.read] = frameIndex
  BY <1>1, <1>2, PipeNumbers DEF RingHolds
<1>5. ring' \in [full : 0..2, read : {0, 1}, present : {0, 1}]
  <2>1. ring.full + 1 \in 0..2 /\ 1 - ring.read \in {0, 1}
    BY <1>1, <1>4, PipeNumbers
  <2> QED
    BY <1>1, <1>2, <2>1 DEF PipeTypeOK, RingType
<1>6. PresenterType' /\ presenter'.pc # "waiting"
      /\ (presenter'.pc = presenter.pc \/ presenter'.pc = "check")
      /\ (presenter.pc \notin {"check", "waiting"} => presenter' = presenter)
  <2>1. 0 \in -1..MaxFrames
    BY PipelineAssumption
  <2> QED
    BY <1>1, <1>2, <2>1 DEF PipeTypeOK, PresenterType, Idle
<1>7. PipeTypeOK'
  BY <1>1, <1>2, <1>5, <1>6 DEF PipeTypeOK, ReaderType, RingType, BanksType, CountsType
<1>8. Published' = Published + 1 /\ Released' = Released
  BY <1>1, <1>2, <1>3, PipeNumbers DEF Published, Released
<1>9. Settled' = Settled
  BY <1>2, <1>6, <1>8 DEF Settled
<1>10. RingHolds'
  <2>1. Released = frameIndex - 1 - ring.full
    BY <1>2 DEF Published, Released
  <2>2. CASE ring.full = 0
    BY <1>1, <1>2, <1>3, <1>4, <1>8, <2>1, <2>2, PipeNumbers DEF RingHolds
  <2>3. CASE ring.full = 1
    BY <1>1, <1>2, <1>3, <1>4, <1>8, <2>1, <2>3, PipeNumbers DEF RingHolds
  <2> QED
    BY <1>4, <2>2, <2>3
<1>11. InHand'
  BY <1>1, <1>2, <1>3, <1>4, <1>6 DEF InHand
<1>12. PipeEnds'
  BY <1>1, <1>2, <1>3, <1>6 DEF PipeEnds
<1>13. HandledCount' /\ ShownSettled' /\ PrefetchHolds'
  BY <1>1, <1>2, <1>9 DEF HandledCount, ShownSettled, PrefetchHolds, PresentsItsFrame
<1> QED
  BY <1>7, <1>10, <1>11, <1>12, <1>13 DEF PipeInv

(* The reader leaves, says so, and wakes the present thread. *)
LEMMA ReaderLeavesStep ==
    ASSUME PipeInv, ReaderLeaves \/ ReaderEof \/ ReaderNotifies
    PROVE  PipeInv'
<1>1. /\ PipeTypeOK /\ RingHolds /\ InHand /\ HandledCount /\ PipeEnds /\ ShownSettled
      /\ PrefetchHolds
  BY DEF PipeInv
<1>2. /\ reader # "read" /\ reader' \in {"leaving", "notify", "join"} /\ reader # "done"
      /\ UNCHANGED <<mode, slots, ring, frameIndex, overlay, core, localBank, prefetched, last,
                     dropRun, pauses, result, shown, handled>>
  BY DEF ReaderLeaves, ReaderEof, ReaderNotifies
<1>3. /\ flags' \in [stop : BOOLEAN, fatal : BOOLEAN, eof : BOOLEAN, paused : BOOLEAN]
      /\ flags'.stop = flags.stop /\ flags'.fatal = flags.fatal
  BY <1>1 DEF ReaderLeaves, ReaderEof, ReaderNotifies, PipeTypeOK, ReaderType
<1>4. flags'.eof <=> reader' \in {"notify", "join", "done"}
  BY <1>1 DEF ReaderLeaves, ReaderEof, ReaderNotifies, PipeEnds, PipeTypeOK, ReaderType
<1>5. PresenterType' /\ (presenter'.pc = presenter.pc \/ presenter'.pc = "check")
      /\ (presenter.pc \notin {"check", "waiting"} => presenter' = presenter)
  <2>2. presenter' = presenter \/ (presenter.pc = "waiting" /\ presenter' = Idle("check"))
    BY DEF ReaderLeaves, ReaderEof, ReaderNotifies, Notified
  <2>3. CASE presenter' = presenter
    BY <1>1, <2>3 DEF PipeTypeOK, PresenterType
  <2>4. CASE presenter.pc = "waiting" /\ presenter' = Idle("check")
    <3>1. PresenterType' /\ presenter'.pc = "check"
      BY <2>4, IdleType
    <3> QED
      BY <2>4, <3>1
  <2> QED
    BY <2>2, <2>3, <2>4
<1>6. missed' \in BOOLEAN /\ (reader' = "join" /\ presenter'.pc \in {"parking", "waiting"} => missed')
  <2>1. CASE ReaderLeaves \/ ReaderEof
    BY <1>1, <2>1 DEF ReaderLeaves, ReaderEof, PipeTypeOK, CountsType
  <2>2. CASE ReaderNotifies
    BY <2>2 DEF ReaderNotifies, Notified, Idle
  <2> QED
    BY <2>1, <2>2
<1>7. PipeTypeOK'
  BY <1>1, <1>2, <1>3, <1>5, <1>6 DEF PipeTypeOK, ReaderType, RingType, BanksType, CountsType
<1>8. RingHolds' /\ Released' = Released
  BY <1>1, <1>2, RingFrame
<1>9. Settled' = Settled
  BY <1>5, <1>8 DEF Settled
<1>10. InHand'
  BY <1>1, <1>2, <1>5 DEF InHand
<1>11. PipeEnds'
  <2>1. flags.eof => flags'.eof
    BY <1>1, <1>3 DEF ReaderLeaves, ReaderEof, ReaderNotifies, PipeTypeOK, ReaderType
  <2> QED
    BY <1>1, <1>2, <1>3, <1>4, <1>5, <1>6, <2>1 DEF PipeEnds
<1>12. HandledCount' /\ ShownSettled' /\ PrefetchHolds'
  BY <1>1, <1>2, <1>3, <1>9 DEF HandledCount, ShownSettled, PrefetchHolds, PresentsItsFrame
<1> QED
  BY <1>7, <1>8, <1>10, <1>11, <1>12 DEF PipeInv

(* The session ends once the present thread has been joined. *)
LEMMA SessionEndsStep ==
    ASSUME PipeInv, SessionEnds
    PROVE  PipeInv'
<1>1. /\ PipeTypeOK /\ RingHolds /\ InHand /\ HandledCount /\ PipeEnds /\ ShownSettled
      /\ PrefetchHolds
  BY DEF PipeInv
<1>2. /\ reader = "join" /\ reader' = "done" /\ presenter.pc = "done" /\ result' = Terminal
      /\ UNCHANGED <<mode, slots, ring, frameIndex, presenter, flags, overlay, core, localBank,
                     prefetched, last, dropRun, pauses, shown, handled, missed>>
  BY DEF SessionEnds
<1>3. /\ result' \in {"none", "stopped", "ended"}
      /\ result' = "ended" => ~flags.stop /\ ~flags.fatal
  BY <1>2 DEF Terminal
<1>4. PipeTypeOK'
  BY <1>1, <1>2, <1>3 DEF PipeTypeOK, ReaderType, RingType, PresenterType, BanksType, CountsType
<1>5. RingHolds' /\ Released' = Released
  BY <1>1, <1>2, RingFrame
<1>6. Settled' = Settled
  BY <1>2, <1>5 DEF Settled
<1>7. InHand' /\ PipeEnds'
  BY <1>1, <1>2, <1>3 DEF InHand, PipeEnds
<1>8. HandledCount' /\ ShownSettled' /\ PrefetchHolds'
  BY <1>1, <1>2, <1>6 DEF HandledCount, ShownSettled, PrefetchHolds, PresentsItsFrame
<1> QED
  BY <1>4, <1>5, <1>7, <1>8 DEF PipeInv

(* A repaint turns the preferred bank away from a prefetched one. *)
LEMMA ServicePauseStep ==
    ASSUME PipeInv, ServicePause
    PROVE  PipeInv'
<1>1. /\ PipeTypeOK /\ RingHolds /\ InHand /\ HandledCount /\ PipeEnds /\ ShownSettled
      /\ PrefetchHolds
  BY DEF PipeInv
<1>2. /\ reader \in {"top", "reading"} /\ ~flags.stop /\ ~flags.fatal
      /\ UNCHANGED <<mode, slots, ring, reader, frameIndex, presenter, overlay, dropRun, pauses,
                     result, shown, handled, missed>>
  BY DEF ServicePause
<1>3. RingHolds' /\ Released' = Released
  BY <1>1, <1>2, RingFrame
<1>4. Settled' = Settled
  BY <1>2, <1>3 DEF Settled
<1>5. InHand' /\ ShownSettled'
  BY <1>1, <1>2, <1>4 DEF InHand, ShownSettled, PresentsItsFrame
<1>6. CASE /\ core' = Sent(core, last.frame)
           /\ localBank' = nextBank(localBank)
           /\ last' = [last EXCEPT !.hadOverlay = overlay]
           /\ prefetched' = [prefetched EXCEPT !.repaints = IF @ < 2 THEN @ + 1 ELSE @]
           /\ UNCHANGED flags
  <2>1. localBank \in {0, 1} /\ localBank' = 1 - localBank /\ localBank' \in {0, 1}
    BY <1>1, <1>6 DEF PipeTypeOK, BanksType, nextBank
  <2>2. core' \in [bank : [{0, 1} -> -1..MaxFrames], disp : {0, 1}, pend : {-1, 0, 1}]
    <3>1. 1 - core.disp \in {0, 1} /\ last.frame \in -1..MaxFrames
      BY <1>1 DEF PipeTypeOK, BanksType
    <3> QED
      BY <1>1, <1>6, <3>1 DEF PipeTypeOK, BanksType, Sent
  <2>3. /\ prefetched'.ready = prefetched.ready /\ prefetched'.bank = prefetched.bank
        /\ prefetched'.repaints = IF prefetched.repaints < 2 THEN prefetched.repaints + 1
                                  ELSE prefetched.repaints
        /\ prefetched.repaints \in 0..2
    BY <1>1, <1>6 DEF PipeTypeOK, BanksType
  <2>4. prefetched'.repaints \in 0..2 /\ prefetched'.repaints # 0
        /\ (prefetched'.repaints = 1 => prefetched.repaints = 0)
    BY <2>3
  <2>5. prefetched' \in [ready : BOOLEAN, bank : {-1, 0, 1}, repaints : 0..2]
    BY <1>1, <1>6, <2>3, <2>4 DEF PipeTypeOK, BanksType
  <2>6. last' \in [valid : BOOLEAN, hadOverlay : BOOLEAN, frame : -1..MaxFrames]
    BY <1>1, <1>6 DEF PipeTypeOK, BanksType
  <2>7. BanksType'
    BY <1>1, <1>2, <2>1, <2>2, <2>5, <2>6 DEF PipeTypeOK, BanksType
  <2>8. PipeTypeOK'
    BY <1>1, <1>2, <1>6, <2>7 DEF PipeTypeOK, ReaderType, RingType, PresenterType, CountsType
  <2>9. HandledCount' /\ PipeEnds'
    BY <1>1, <1>2, <1>4, <1>6 DEF HandledCount, PipeEnds
  <2>10. PrefetchHolds'
    BY <1>1, <1>2, <2>1, <2>3, <2>4 DEF PrefetchHolds
  <2> QED
    BY <1>3, <1>5, <2>8, <2>9, <2>10 DEF PipeInv
<1>7. CASE /\ flags' = [flags EXCEPT !.fatal = mode = "strict"]
           /\ UNCHANGED <<core, localBank, last, prefetched>>
  <2>1. /\ flags' \in [stop : BOOLEAN, fatal : BOOLEAN, eof : BOOLEAN, paused : BOOLEAN]
        /\ flags'.stop = flags.stop /\ flags'.eof = flags.eof
    BY <1>1, <1>7 DEF PipeTypeOK, ReaderType
  <2>2. PipeTypeOK'
    BY <1>1, <1>2, <1>7, <2>1 DEF PipeTypeOK, ReaderType, RingType, PresenterType, BanksType, CountsType
  <2>3. HandledCount' /\ PipeEnds'
    BY <1>1, <1>2, <1>4, <2>1 DEF HandledCount, PipeEnds
  <2>4. PrefetchHolds'
    BY <1>1, <1>2, <1>4, <1>7 DEF PrefetchHolds
  <2> QED
    BY <1>3, <1>5, <2>2, <2>3, <2>4 DEF PipeInv
<1> QED
  BY <1>6, <1>7 DEF ServicePause

(* The present thread takes the oldest frame, goes to sleep beside an empty *)
(* ring, or leaves.                                                         *)
LEMMA PresenterChecksStep ==
    ASSUME PipeInv, PresenterChecks \/ PresenterParks
    PROVE  PipeInv'
<1>1. /\ PipeTypeOK /\ RingHolds /\ InHand /\ HandledCount /\ PipeEnds /\ ShownSettled
      /\ PrefetchHolds
  BY DEF PipeInv
<1>2. UNCHANGED <<mode, slots, ring, reader, frameIndex, flags, overlay, core, localBank,
                  prefetched, last, dropRun, pauses, result, shown, handled, missed>>
  BY DEF PresenterChecks, PresenterParks
<1>3. RingHolds' /\ Released' = Released
  BY <1>1, <1>2, RingFrame
<1>4. ASSUME PresenterType', presenter.pc \in {"check", "parking"},
             presenter'.pc \in {"pace", "present", "parking", "waiting", "done"}, InHand', PipeEnds'
      PROVE  PipeInv'
  <2>1. PipeTypeOK'
    BY <1>1, <1>2, <1>4 DEF PipeTypeOK, ReaderType, RingType, BanksType, CountsType
  <2>2. Settled' = Settled
    BY <1>3, <1>4 DEF Settled
  <2>3. HandledCount' /\ ShownSettled' /\ PrefetchHolds'
    BY <1>1, <1>2, <2>2 DEF HandledCount, ShownSettled, PrefetchHolds, PresentsItsFrame
  <2> QED
    BY <1>3, <1>4, <2>1, <2>3 DEF PipeInv
<1>5. CASE PresenterChecks /\ ring.full > 0
  <2>1. presenter' = [pc |-> IF mode = "strict" THEN "pace" ELSE "present",
                      frame |-> slots[ring.present], drawn |-> FALSE]
    BY <1>5 DEF PresenterChecks
  <2>2. slots[ring.present] \in -1..MaxFrames
    BY <1>1 DEF PipeTypeOK, RingType
  <2>3. PresenterType'
    BY <2>1, <2>2 DEF PresenterType
  <2>4. InHand' /\ PipeEnds'
    BY <1>1, <1>2, <1>5, <2>1, PipeNumbers DEF InHand, PipeEnds, PresenterChecks
  <2> QED
    BY <1>4, <1>5, <2>1, <2>3, <2>4 DEF PresenterChecks
<1>6. CASE PresenterChecks /\ ~(ring.full > 0)
  <2>1. ring.full = 0
    BY <1>1, <1>6, PipeNumbers
  <2>2. presenter' = Idle(IF Leaving THEN "done" ELSE "parking")
    BY <1>6 DEF PresenterChecks
  <2>3. PresenterType' /\ presenter'.pc = IF Leaving THEN "done" ELSE "parking"
    BY <2>2, IdleType
  <2>4. InHand' /\ PipeEnds'
    BY <1>1, <1>2, <1>6, <2>1, <2>3 DEF InHand, PipeEnds, PresenterChecks, Leaving
  <2> QED
    BY <1>4, <1>6, <2>3, <2>4 DEF PresenterChecks
<1>7. CASE PresenterParks
  <2>1. presenter.pc = "parking" /\ PresenterType' /\ presenter'.pc = "waiting"
    BY <1>7, IdleType DEF PresenterParks
  <2>2. InHand' /\ PipeEnds'
    BY <1>1, <1>2, <2>1 DEF InHand, PipeEnds
  <2> QED
    BY <1>4, <2>1, <2>2
<1> QED
  BY <1>5, <1>6, <1>7

(* A frame is due, is dropped as late, or is let go because the session ends. *)
LEMMA PaceStep ==
    ASSUME PipeInv, Pace
    PROVE  PipeInv'
<1>1. /\ PipeTypeOK /\ RingHolds /\ InHand /\ HandledCount /\ PipeEnds /\ ShownSettled
      /\ PrefetchHolds
  BY DEF PipeInv
<1>2. /\ presenter.pc = "pace" /\ mode = "strict"
      /\ UNCHANGED <<mode, slots, ring, reader, frameIndex, flags, overlay, core, localBank,
                     prefetched, last, pauses, result, shown, missed>>
  BY <1>1 DEF Pace, InHand
<1>3. RingHolds' /\ Released' = Released
  BY <1>1, <1>2, RingFrame
<1>4. ring.full \in {1, 2} /\ Settled = Released /\ Released + 1 <= MaxFrames /\ handled <= Released
  BY <1>1, <1>2, PipeNumbers DEF InHand, Settled, Released, Published, HandledCount
<1>5. ~prefetched.ready
  BY <1>1, <1>2 DEF PrefetchHolds
<1>6. ASSUME NEW pc \in {"present", "release"}, presenter' = [presenter EXCEPT !.pc = pc],
             dropRun' \in 0..MaxDropRun, handled' \in {handled, handled + 1},
             pc = "present" => handled' = handled,
             pc = "release" => flags.stop \/ flags.fatal \/ handled' = handled + 1
      PROVE  PipeInv'
  <2>1. PresenterType' /\ presenter'.pc = pc /\ presenter'.frame = presenter.frame
    BY <1>1, <1>6 DEF PipeTypeOK, PresenterType
  <2>2. handled' \in 0..MaxFrames
    BY <1>1, <1>4, <1>6, PipeNumbers
  <2>3. PipeTypeOK'
    BY <1>1, <1>2, <1>6, <2>1, <2>2 DEF PipeTypeOK, ReaderType, RingType, BanksType, CountsType
  <2>4. InHand' /\ PipeEnds'
    BY <1>1, <1>2, <1>6, <2>1 DEF InHand, PipeEnds
  <2>5. Settled' = IF pc = "release" THEN Released + 1 ELSE Released
    BY <1>3, <1>6, <2>1 DEF Settled
  <2>6. HandledCount'
    BY <1>1, <1>2, <1>4, <1>6, <2>5, PipeNumbers DEF HandledCount
  <2>7. ShownSettled' /\ PrefetchHolds'
    BY <1>1, <1>2, <1>4, <1>5, <2>5, PipeNumbers DEF ShownSettled, PrefetchHolds, PresentsItsFrame
  <2> QED
    BY <1>3, <2>3, <2>4, <2>6, <2>7 DEF PipeInv
<1>7. dropRun \in 0..MaxDropRun /\ 0 \in 0..MaxDropRun
      /\ (dropRun < MaxDropRun => dropRun + 1 \in 0..MaxDropRun)
  BY <1>1, PipelineAssumption DEF PipeTypeOK, CountsType
<1> QED
  BY <1>6, <1>7 DEF Pace

(* What is handed to the core is the frame in hand: the slot still holds it, *)
(* and so does a prefetched bank unless two repaints went over it.           *)
LEMMA PresentStep ==
    ASSUME PipeInv, Present
    PROVE  PipeInv'
<1>1. /\ PipeTypeOK /\ RingHolds /\ InHand /\ HandledCount /\ PipeEnds /\ ShownSettled
      /\ PrefetchHolds
  BY DEF PipeInv
<1>2. /\ presenter.pc = "present" /\ handled' = handled + 1
      /\ prefetched' = [ready |-> FALSE, bank |-> -1, repaints |-> 0]
      /\ UNCHANGED <<mode, slots, ring, reader, frameIndex, overlay, last, dropRun, pauses, result,
                     missed>>
  BY DEF Present
<1>3. RingHolds' /\ Released' = Released
  BY <1>1, <1>2, RingFrame
<1>4. ring.full \in {1, 2} /\ Settled = Released /\ Released + 1 <= MaxFrames /\ handled <= Released
  BY <1>1, <1>2, PipeNumbers DEF InHand, Settled, Released, Published, HandledCount
<1>5. presenter.frame = slots[ring.present] /\ presenter.frame = Released + 1
  BY <1>1, <1>2, <1>4 DEF InHand, RingHolds
<1>6. handled' \in 0..MaxFrames
  BY <1>1, <1>2, <1>4, PipeNumbers
<1>7. /\ ~prefetched'.ready
      /\ prefetched' \in [ready : BOOLEAN, bank : {-1, 0, 1}, repaints : 0..2]
  <2>1. 0 \in 0..2
    OBVIOUS
  <2> QED
    BY <1>2, <2>1
<1>8. PrefetchHolds'
  BY <1>7 DEF PrefetchHolds
<1>9. ASSUME NEW pc \in {"swap", "release"}, PresenterType', presenter'.pc = pc,
             presenter'.frame = presenter.frame,
             core' \in [bank : [{0, 1} -> -1..MaxFrames], disp : {0, 1}, pend : {-1, 0, 1}],
             localBank' \in {0, 1},
             shown' \in [of : -1..MaxFrames, frame : -1..MaxFrames, before : -1..MaxFrames,
                         repaints : 0..2],
             shown' = shown \/ (shown'.of = presenter.frame /\ PresentsItsFrame'),
             flags' \in [stop : BOOLEAN, fatal : BOOLEAN, eof : BOOLEAN, paused : BOOLEAN],
             flags'.stop = flags.stop, flags'.eof = flags.eof, flags.fatal => flags'.fatal
      PROVE  PipeInv'
  <2>1. PipeTypeOK'
    BY <1>1, <1>2, <1>6, <1>7, <1>9 DEF PipeTypeOK, ReaderType, RingType, BanksType, CountsType
  <2>2. InHand'
    BY <1>1, <1>2, <1>9 DEF InHand
  <2>3. PipeEnds'
    <3>1. result = "ended" => FALSE
      BY <1>1, <1>2 DEF PipeEnds
    <3> QED
      BY <1>1, <1>2, <1>9, <3>1 DEF PipeEnds
  <2>4. Settled' = Released + 1
    BY <1>3, <1>9 DEF Settled
  <2>5. HandledCount'
    BY <1>1, <1>2, <1>4, <1>9, <2>4, PipeNumbers DEF HandledCount
  <2>6. ShownSettled'
    <3>1. CASE shown' = shown
      BY <1>1, <1>4, <2>4, <3>1, PipeNumbers DEF ShownSettled, PresentsItsFrame
    <3>2. CASE shown'.of = presenter.frame /\ PresentsItsFrame'
      BY <1>1, <1>5, <2>4, <3>2, PipeNumbers DEF ShownSettled, RingHolds
    <3> QED
      BY <1>9, <3>1, <3>2
  <2> QED
    BY <1>3, <1>8, <2>1, <2>2, <2>3, <2>5, <2>6 DEF PipeInv
<1>10. CASE /\ presenter' = [presenter EXCEPT !.pc = "release"]
            /\ flags' = [flags EXCEPT !.fatal = @ \/ mode = "strict"]
            /\ UNCHANGED <<core, shown, localBank>>
  <2>1. PresenterType' /\ presenter'.pc = "release" /\ presenter'.frame = presenter.frame
    BY <1>1, <1>10 DEF PipeTypeOK, PresenterType
  <2>2. /\ flags' \in [stop : BOOLEAN, fatal : BOOLEAN, eof : BOOLEAN, paused : BOOLEAN]
        /\ flags'.stop = flags.stop /\ flags'.eof = flags.eof /\ (flags.fatal => flags'.fatal)
    BY <1>1, <1>10 DEF PipeTypeOK, ReaderType
  <2> QED
    BY <1>1, <1>9, <1>10, <2>1, <2>2 DEF PipeTypeOK, BanksType, CountsType
<1>11. ASSUME NEW c, UsesPrefetch \/ CanSend,
              c = IF UsesPrefetch THEN Committed(core, localBank) ELSE Sent(core, slots[ring.present]),
              core' = c,
              shown' = [of |-> presenter.frame, frame |-> c.bank[c.pend], before |-> shown.of,
                        repaints |-> IF UsesPrefetch THEN prefetched.repaints ELSE 0],
              localBank' = nextBank(localBank),
              presenter' = [presenter EXCEPT !.pc = "swap", !.drawn = overlay],
              UNCHANGED flags
       PROVE  PipeInv'
  <2>1. PresenterType' /\ presenter'.pc = "swap" /\ presenter'.frame = presenter.frame
    BY <1>1, <1>11 DEF PipeTypeOK, PresenterType, BanksType
  <2>2. localBank \in {0, 1} /\ localBank' \in {0, 1}
    BY <1>1, <1>11 DEF PipeTypeOK, BanksType, nextBank
  <2>3. /\ core \in [bank : [{0, 1} -> -1..MaxFrames], disp : {0, 1}, pend : {-1, 0, 1}]
        /\ prefetched.repaints \in 0..2 /\ slots[ring.present] \in -1..MaxFrames
        /\ presenter.frame \in -1..MaxFrames /\ shown.of \in -1..MaxFrames
    BY <1>1 DEF PipeTypeOK, BanksType, RingType, PresenterType, CountsType
  <2>4. 1 - core.disp \in {0, 1}
    BY <2>3
  <2>5. /\ c \in [bank : [{0, 1} -> -1..MaxFrames], disp : {0, 1}, pend : {-1, 0, 1}]
        /\ c.pend \in {0, 1}
        /\ c.bank[c.pend] = IF UsesPrefetch THEN core.bank[localBank] ELSE presenter.frame
    <3>1. CASE UsesPrefetch
      BY <1>11, <2>2, <2>3, <3>1 DEF Committed
    <3>2. CASE ~UsesPrefetch
      <4>1. c = [core EXCEPT !.bank[1 - core.disp] = presenter.frame, !.pend = 1 - core.disp]
        BY <1>5, <1>11, <3>2 DEF Sent
      <4>2. /\ c.pend = 1 - core.disp /\ c.disp = core.disp
            /\ c.bank = [core.bank EXCEPT ![1 - core.disp] = presenter.frame]
        BY <2>3, <4>1
      <4>3. c \in [bank : [{0, 1} -> -1..MaxFrames], disp : {0, 1}, pend : {-1, 0, 1}]
        BY <2>3, <2>4, <4>1
      <4> QED
        BY <2>3, <2>4, <3>2, <4>2, <4>3
    <3> QED
      BY <3>1, <3>2
  <2>6. (IF UsesPrefetch THEN prefetched.repaints ELSE 0) \in 0..2
    BY <2>3
  <2>7. c.bank[c.pend] \in -1..MaxFrames
    BY <2>5
  <2>8. shown' \in [of : -1..MaxFrames, frame : -1..MaxFrames, before : -1..MaxFrames, repaints : 0..2]
    BY <1>11, <2>3, <2>6, <2>7
  <2>9. shown'.of = presenter.frame /\ PresentsItsFrame'
    <3>1. /\ shown'.of = presenter.frame /\ shown'.before = shown.of
          /\ shown'.frame = c.bank[c.pend]
          /\ shown'.repaints = IF UsesPrefetch THEN prefetched.repaints ELSE 0
      BY <1>11
    <3>2. shown.of < presenter.frame
      BY <1>1, <1>4, <1>5, PipeNumbers DEF ShownSettled
    <3>3. shown'.of # shown'.frame => shown'.repaints = 2
      <4> SUFFICES ASSUME UsesPrefetch, core.bank[localBank] # presenter.frame
                   PROVE  prefetched.repaints = 2
        BY <2>5, <3>1
      <4>1. prefetched.ready /\ prefetched.bank = localBank
        BY DEF UsesPrefetch
      <4>2. prefetched.repaints # 0 /\ prefetched.repaints # 1
        BY <1>1, <1>4, <1>5, <4>1 DEF PrefetchHolds
      <4> QED
        BY <2>3, <4>2
    <3> QED
      BY <3>1, <3>2, <3>3 DEF PresentsItsFrame
  <2> QED
    BY <1>1, <1>9, <1>11, <2>1, <2>2, <2>5, <2>8, <2>9 DEF PipeTypeOK, ReaderType
<1> QED
  BY <1>10, <1>11 DEF Present

(* The bank that is neither shown nor pending takes the next frame. *)
LEMMA PrefetchStep ==
    ASSUME PipeInv, Prefetch
    PROVE  PipeInv'
<1>1. /\ PipeTypeOK /\ RingHolds /\ InHand /\ HandledCount /\ PipeEnds /\ ShownSettled
      /\ PrefetchHolds
  BY DEF PipeInv
<1>2. /\ presenter.pc = "swap" /\ mode = "live" /\ ring.full >= 2
      /\ core' = [core EXCEPT !.bank[1 - core.disp] = slots[1 - ring.present]]
      /\ prefetched' = [ready |-> TRUE, bank |-> 1 - core.disp, repaints |-> 0]
      /\ localBank' = 1 - core.disp
      /\ UNCHANGED <<mode, slots, ring, reader, frameIndex, presenter, flags, overlay, last, dropRun,
                     pauses, result, shown, handled, missed>>
  BY DEF Prefetch, FreeBank
<1>3. RingHolds' /\ Released' = Released
  BY <1>1, <1>2, RingFrame
<1>4. Settled' = Settled /\ Settled = Released + 1
  BY <1>2, <1>3 DEF Settled
<1>5. slots[1 - ring.present] = Released + 2 /\ slots[1 - ring.present] \in -1..MaxFrames
  <2>1. ring.full = 2 /\ 1 - ring.present \in {0, 1}
    BY <1>1, <1>2, PipeNumbers
  <2> QED
    BY <1>1, <2>1 DEF RingHolds, PipeTypeOK, RingType
<1>6. /\ core \in [bank : [{0, 1} -> -1..MaxFrames], disp : {0, 1}, pend : {-1, 0, 1}]
      /\ 1 - core.disp \in {0, 1}
  BY <1>1 DEF PipeTypeOK, BanksType
<1>7. /\ core' \in [bank : [{0, 1} -> -1..MaxFrames], disp : {0, 1}, pend : {-1, 0, 1}]
      /\ core'.bank[1 - core.disp] = slots[1 - ring.present]
  BY <1>2, <1>5, <1>6
<1>8. /\ prefetched' \in [ready : BOOLEAN, bank : {-1, 0, 1}, repaints : 0..2]
      /\ prefetched'.bank = 1 - core.disp /\ prefetched'.repaints = 0
  <2>1. 0 \in 0..2 /\ 1 - core.disp \in {-1, 0, 1}
    BY <1>6
  <2> QED
    BY <1>2, <2>1
<1>9. PipeTypeOK'
  BY <1>1, <1>2, <1>6, <1>7, <1>8 DEF PipeTypeOK, ReaderType, RingType, PresenterType, BanksType,
                                      CountsType
<1>10. PrefetchHolds'
  <2>1. Released + 2 = Settled + 1
    BY <1>1, <1>4, PipeNumbers
  <2> QED
    BY <1>2, <1>4, <1>5, <1>6, <1>7, <1>8, <2>1 DEF PrefetchHolds
<1>11. InHand' /\ PipeEnds'
  BY <1>1, <1>2 DEF InHand, PipeEnds
<1>12. HandledCount' /\ ShownSettled'
  BY <1>1, <1>2, <1>4 DEF HandledCount, ShownSettled, PresentsItsFrame
<1> QED
  BY <1>3, <1>9, <1>10, <1>11, <1>12 DEF PipeInv

(* The slot goes back to the reader. *)
LEMMA ReleaseStep ==
    ASSUME PipeInv, Release
    PROVE  PipeInv'
<1>1. /\ PipeTypeOK /\ RingHolds /\ InHand /\ HandledCount /\ PipeEnds /\ ShownSettled
      /\ PrefetchHolds
  BY DEF PipeInv
<1>2. /\ presenter.pc = "release"
      /\ ring' = [ring EXCEPT !.full = @ - 1, !.present = 1 - @]
      /\ presenter' = Idle(IF flags.fatal THEN "done" ELSE "check")
      /\ UNCHANGED <<mode, slots, reader, frameIndex, flags, overlay, core, localBank, prefetched,
                     last, dropRun, pauses, result, shown, handled, missed>>
  BY DEF Release
<1>3. PresenterType' /\ presenter'.pc = IF flags.fatal THEN "done" ELSE "check"
  BY <1>2, IdleType
<1>4. ring'.full = ring.full - 1 /\ ring'.read = ring.read /\ ring'.present = 1 - ring.present
  BY <1>1, <1>2 DEF PipeTypeOK, RingType
<1>5. ring.full \in {1, 2}
  BY <1>1, <1>2, PipeNumbers DEF InHand
<1>6. ring' \in [full : 0..2, read : {0, 1}, present : {0, 1}]
  <2>1. ring.full - 1 \in 0..2 /\ 1 - ring.present \in {0, 1}
    BY <1>1, <1>5, PipeNumbers
  <2> QED
    BY <1>1, <1>2, <2>1 DEF PipeTypeOK, RingType
<1>7. PipeTypeOK'
  BY <1>1, <1>2, <1>3, <1>6 DEF PipeTypeOK, ReaderType, RingType, BanksType, CountsType
<1>8. Published' = Published /\ Released' = Released + 1
  BY <1>1, <1>2, <1>4, PipeNumbers DEF Published, Released
<1>9. Settled' = Settled
  BY <1>2, <1>3, <1>8 DEF Settled
<1>10. RingHolds'
  <2>1. CASE ring.full = 1
    BY <1>1, <1>2, <1>4, <1>8, <2>1, PipeNumbers DEF RingHolds
  <2>2. CASE ring.full = 2
    BY <1>1, <1>2, <1>4, <1>8, <2>2, PipeNumbers DEF RingHolds
  <2> QED
    BY <1>5, <2>1, <2>2
<1>11. InHand'
  BY <1>3 DEF InHand
<1>12. PipeEnds'
  BY <1>1, <1>2, <1>3 DEF PipeEnds
<1>13. HandledCount' /\ ShownSettled' /\ PrefetchHolds'
  BY <1>1, <1>2, <1>9 DEF HandledCount, ShownSettled, PrefetchHolds, PresentsItsFrame
<1> QED
  BY <1>7, <1>10, <1>11, <1>12, <1>13 DEF PipeInv

(* The core swaps, the swap is seen, the overlay and the pauses come and go, *)
(* a stop is asked for.                                                      *)
LEMMA OtherPipeStep ==
    ASSUME PipeInv, \/ Swap \/ SwapWaited \/ PauseOrResume \/ OverlayExpires \/ StopRequested
                    \/ UNCHANGED pipeVars
    PROVE  PipeInv'
<1>1. /\ PipeTypeOK /\ RingHolds /\ InHand /\ HandledCount /\ PipeEnds /\ ShownSettled
      /\ PrefetchHolds
  BY DEF PipeInv
<1>2. UNCHANGED <<mode, slots, ring, reader, frameIndex, localBank, prefetched, dropRun, result, shown,
                  handled, missed>>
  BY DEF Swap, SwapWaited, PauseOrResume, OverlayExpires, StopRequested, pipeVars
<1>3. RingHolds' /\ Released' = Released
  BY <1>1, <1>2, RingFrame
<1>4. /\ PresenterType' /\ presenter'.frame = presenter.frame
      /\ presenter'.pc = presenter.pc \/ (presenter.pc = "swap" /\ presenter'.pc = "release")
  <2>1. presenter' = presenter
        \/ (presenter.pc = "swap" /\ presenter' = [presenter EXCEPT !.pc = "release"])
    BY DEF Swap, SwapWaited, PauseOrResume, OverlayExpires, StopRequested, pipeVars
  <2> QED
    BY <1>1, <2>1 DEF PipeTypeOK, PresenterType
<1>5. /\ core' \in [bank : [{0, 1} -> -1..MaxFrames], disp : {0, 1}, pend : {-1, 0, 1}]
      /\ core'.bank = core.bank
  <2>1. core' = core \/ (core.pend # -1 /\ core' = [core EXCEPT !.disp = core.pend, !.pend = -1])
    BY DEF Swap, SwapWaited, PauseOrResume, OverlayExpires, StopRequested, pipeVars
  <2> QED
    BY <1>1, <2>1 DEF PipeTypeOK, BanksType
<1>6. /\ flags' \in [stop : BOOLEAN, fatal : BOOLEAN, eof : BOOLEAN, paused : BOOLEAN]
      /\ flags'.fatal = flags.fatal /\ flags'.eof = flags.eof /\ (flags.stop => flags'.stop)
      /\ reader = "done" => flags'.stop = flags.stop
  <2>1. \/ flags' = flags \/ flags' = [flags EXCEPT !.paused = ~@]
        \/ (reader # "done" /\ flags' = [flags EXCEPT !.stop = TRUE])
    BY DEF Swap, SwapWaited, PauseOrResume, OverlayExpires, StopRequested, pipeVars
  <2> QED
    BY <1>1, <2>1 DEF PipeTypeOK, ReaderType
<1>7. last' \in [valid : BOOLEAN, hadOverlay : BOOLEAN, frame : -1..MaxFrames]
  <2>1. last' = last \/ last' = [valid |-> presenter.drawn \/ overlay, hadOverlay |-> presenter.drawn,
                                 frame |-> presenter.frame]
    BY DEF Swap, SwapWaited, PauseOrResume, OverlayExpires, StopRequested, pipeVars
  <2>2. presenter.drawn \in BOOLEAN /\ presenter.frame \in -1..MaxFrames /\ overlay \in BOOLEAN
    BY <1>1 DEF PipeTypeOK, PresenterType, BanksType
  <2>3. [valid |-> presenter.drawn \/ overlay, hadOverlay |-> presenter.drawn, frame |-> presenter.frame]
          \in [valid : BOOLEAN, hadOverlay : BOOLEAN, frame : -1..MaxFrames]
    BY <2>2
  <2> QED
    BY <1>1, <2>1, <2>3 DEF PipeTypeOK, BanksType
<1>8. overlay' \in BOOLEAN
  <2>1. overlay' = overlay \/ overlay' = TRUE \/ overlay' = FALSE
    BY DEF Swap, SwapWaited, PauseOrResume, OverlayExpires, StopRequested, pipeVars
  <2> QED
    BY <1>1, <2>1 DEF PipeTypeOK, BanksType
<1>9. pauses' \in 0..MaxPauses
  <2>1. pauses' = pauses \/ (pauses < MaxPauses /\ pauses' = pauses + 1)
    BY DEF Swap, SwapWaited, PauseOrResume, OverlayExpires, StopRequested, pipeVars
  <2>2. pauses \in 0..MaxPauses
    BY <1>1 DEF PipeTypeOK, CountsType
  <2> QED
    BY <2>1, <2>2, PipelineAssumption
<1>10. PipeTypeOK'
  BY <1>1, <1>2, <1>4, <1>5, <1>6, <1>7, <1>8, <1>9 DEF PipeTypeOK, ReaderType, RingType, BanksType,
                                                        CountsType
<1>11. Settled' = Settled
  BY <1>3, <1>4 DEF Settled
<1>12. InHand'
  BY <1>1, <1>2, <1>4 DEF InHand
<1>13. PipeEnds'
  BY <1>1, <1>2, <1>4, <1>6 DEF PipeEnds
<1>14. HandledCount' /\ ShownSettled' /\ PrefetchHolds'
  BY <1>1, <1>2, <1>5, <1>6, <1>11 DEF HandledCount, ShownSettled, PrefetchHolds, PresentsItsFrame
<1> QED
  BY <1>3, <1>10, <1>12, <1>13, <1>14 DEF PipeInv

(* The pipeline starts with an empty ring and nothing shown. *)
LEMMA PipeInitInv == PipeInit => PipeInv
<1> SUFFICES ASSUME PipeInit PROVE PipeInv
  OBVIOUS
<1>1. /\ 0 \in 0..MaxFrames /\ 0 \in -1..MaxFrames /\ 0 \in 0..2 /\ 0 \in 0..MaxDropRun
      /\ 0 \in 0..MaxPauses
  BY PipelineAssumption
<1>2. ReaderType /\ RingType
  BY <1>1 DEF PipeInit, ReaderType, RingType
<1>3. PresenterType
  BY <1>1 DEF PipeInit, Idle, PresenterType
<1>4. BanksType
  BY <1>1 DEF PipeInit, BanksType
<1>5. CountsType
  BY <1>1 DEF PipeInit, CountsType
<1>6. Released = 0 /\ Settled = 0
  BY DEF PipeInit, Released, Settled, Published, Idle
<1>7. RingHolds /\ InHand /\ PipeEnds
  BY <1>6 DEF PipeInit, RingHolds, InHand, PipeEnds, Idle
<1>8. HandledCount /\ ShownSettled /\ PrefetchHolds
  BY <1>6 DEF PipeInit, HandledCount, ShownSettled, PrefetchHolds, PresentsItsFrame
<1> QED
  BY <1>2, <1>3, <1>4, <1>5, <1>7, <1>8 DEF PipeInv, PipeTypeOK

(* Every slot, bank and counter of the pipeline stands for its frame in every *)
(* reachable state.                                                           *)
LEMMA PipeInvariant == PipeSpec => []PipeInv
<1>1. PipeInv /\ [PipeNext]_pipeVars => PipeInv'
  <2> SUFFICES ASSUME PipeInv, [PipeNext]_pipeVars PROVE PipeInv'
    OBVIOUS
  <2> QED
    BY ReadBeginsStep, ReadEndsStep, PublishStep, ReaderLeavesStep, SessionEndsStep, ServicePauseStep,
       PresenterChecksStep, PaceStep, PresentStep, PrefetchStep, ReleaseStep, OtherPipeStep
       DEF PipeNext
<1> QED
  BY <1>1, PipeInitInv, PTL DEF PipeSpec

(* A session that reports its end has handled every frame. *)
LEMMA PipeKeepsFrames == PipeInv => PresentsItsFrame /\ EndedMeansHandled /\ SleeperIsMissed
<1> SUFFICES ASSUME PipeInv PROVE PresentsItsFrame /\ EndedMeansHandled /\ SleeperIsMissed
  OBVIOUS
<1>1. PipeTypeOK /\ RingHolds /\ InHand /\ HandledCount /\ PipeEnds /\ ShownSettled
  BY DEF PipeInv
<1>2. ASSUME result = "ended" PROVE handled = frameIndex /\ ~flags.fatal
  <2>1. /\ reader = "done" /\ presenter.pc = "done" /\ ~flags.stop /\ ~flags.fatal /\ ring.full = 0
        /\ handled = Settled
    BY <1>1, <1>2 DEF PipeEnds, HandledCount
  <2> QED
    BY <1>1, <2>1, PipeNumbers DEF Settled, Released, Published
<1> QED
  BY <1>1, <1>2 DEF ShownSettled, EndedMeansHandled, SleeperIsMissed, InHand, PipeEnds

-----------------------------------------------------------------------------
(* The serial present loop.                                                *)

\* The box that a flash between the two looks of a packed format may leave behind.
Strays == IF format = "packed" /\ flashed > 0 THEN {SkipBox} ELSE {}

\* The parts read so far are of the next picture, the others of the newest one; a
\* picture in its turn is presented before anything is read over it.
ReadHolds ==
    /\ \A p \in Parts : buffer[p].of = IF p <= got THEN count + 1 ELSE count
    /\ got > 0 => count < Pictures
    /\ loop = "reading" => got < 2
    /\ loop = "pacing" \/ (loop \in {"bounds", "render", "send"} /\ pass.counted)
         => got = 0 /\ tx.presents < count
    /\ loop = "leftRead" /\ got < 2 => control.eof \/ control.stop \/ control.paused \/ gap

\* Outside a present the buffer is clean but for a stray box.
CleanBetween ==
    /\ SkipBox \in boxes => flashed > 0
    /\ loop # "send" => \A p \in Parts : buffer[p].osd => p \in Strays

\* The backup holds what was under the overlay, and covers what will be drawn but
\* for a stray box.
BackupHolds ==
    /\ pass = [counted |-> pass.counted, saved |-> pass.saved, dirty |-> pass.dirty,
               drawn |-> pass.drawn]
    /\ loop \in {"render", "send"} =>
         /\ DOMAIN pass.saved = pass.dirty
         /\ \A p \in pass.dirty :
              /\ pass.saved[p] \in [of : 0..Pictures, osd : BOOLEAN]
              /\ pass.saved[p].of = buffer[p].of
              /\ pass.saved[p].osd => p \in Strays
    /\ loop = "render" => format = "packed" /\ Panel \in pass.dirty
    /\ loop = "send" =>
         /\ pass.drawn \ pass.dirty \subseteq Strays
         /\ \A p \in Parts : buffer[p].osd => p \in Strays \cup pass.drawn
         /\ \A p \in pass.drawn : buffer[p].osd

SerialInv ==
    /\ SerialTypeOK /\ ReadHolds /\ CleanBetween /\ BackupHolds /\ TurnsAreWhole /\ ShortIsTheEnd

(* The numbers behind the invariant. *)
LEMMA SerialNumbers ==
    ASSUME SerialTypeOK
    PROVE  /\ got \in {0, 1, 2} /\ count \in Nat /\ count <= Pictures /\ Pictures \in Nat
           /\ tx.presents \in Nat /\ tx.presents <= count
           /\ flashed \in Nat /\ toggled \in Nat
<1>1. got \in {0, 1, 2} /\ count \in Nat /\ count <= Pictures /\ Pictures \in Nat
  BY SerialAssumption DEF SerialTypeOK, LoopType
<1>2. flashed \in Nat /\ toggled \in Nat
  BY SerialAssumption DEF SerialTypeOK, LoopType
<1>3. tx.presents \in 0..count
  BY DEF SerialTypeOK, TxType
<1> QED
  BY <1>1, <1>2, <1>3

(* A step that leaves the screen alone leaves it right: the stray box of a skip *)
(* only becomes more likely.                                                    *)
LEMMA ScreenFrame ==
    ASSUME SerialTypeOK, TurnsAreWhole, UNCHANGED <<screen, format>>,
           flashed' = flashed \/ flashed' = flashed + 1
    PROVE  TurnsAreWhole' /\ Strays \subseteq Strays'
<1>1. flashed > 0 => flashed' > 0
  BY SerialNumbers
<1>2. Strays \subseteq Strays'
  BY <1>1 DEF Strays
<1>3. Whole(screen)' = Whole(screen) /\ Boxes(screen)' = Boxes(screen)
  BY DEF Whole, Boxes
<1> QED
  BY <1>1, <1>2, <1>3 DEF TurnsAreWhole, Strays

(* The steps that only move the loop: to its exit, to a repaint, into a read and *)
(* out of one, and the end of the session.                                       *)
LEMMA LoopMovesStep ==
    ASSUME SerialInv,
           LoopLeaves \/ PausedRepaint \/ ReadOn \/ ReadLooks \/ ReadEof \/ SerialEnds
             \/ UNCHANGED serialVars
    PROVE  SerialInv'
<1>1. SerialTypeOK /\ ReadHolds /\ CleanBetween /\ BackupHolds /\ TurnsAreWhole /\ ShortIsTheEnd
  BY DEF SerialInv
<1>2. UNCHANGED <<format, buffer, got, count, boxes, lateRun, tx, screen, toggled, flashed, gap>>
  BY DEF LoopLeaves, PausedRepaint, ReadOn, ReadLooks, ReadEof, SerialEnds, serialVars, others
<1>3. /\ pass' = pass \/ (pass' = NoPass /\ loop' = "bounds")
      /\ \/ loop' = loop
         \/ loop' \in {"left", "read"}
         \/ loop' = "bounds" /\ pass' = NoPass
         \/ loop' = "reading" /\ got < 2
         \/ loop' = "leftRead" /\ (got < 2 => control.stop \/ control.paused \/ control'.eof)
      /\ wasVisible' = wasVisible \/ wasVisible' = (boxes # {})
      /\ control' = control \/ control' = [control EXCEPT !.eof = TRUE]
      /\ outcome' = outcome \/ outcome' \in {"quiet", "stopped", "ended"}
  <2>1. CASE LoopLeaves
    BY <2>1 DEF LoopLeaves
  <2>2. CASE PausedRepaint
    BY <2>2 DEF PausedRepaint
  <2>3. CASE ReadOn
    BY <2>3 DEF ReadOn
  <2>4. CASE ReadLooks
    BY <2>4 DEF ReadLooks
  <2>5. CASE ReadEof
    BY <1>1, <2>5 DEF ReadEof, SerialTypeOK, LoopType
  <2>6. CASE SerialEnds
    BY <2>6 DEF SerialEnds
  <2>7. CASE UNCHANGED serialVars
    BY <2>7 DEF serialVars
  <2> QED
    BY <2>1, <2>2, <2>3, <2>4, <2>5, <2>6, <2>7
<1>4. /\ control' \in [stop : BOOLEAN, paused : BOOLEAN, eof : BOOLEAN, short : BOOLEAN]
      /\ control'.stop = control.stop /\ control'.paused = control.paused
      /\ control'.short = control.short /\ (control.eof => control'.eof)
  BY <1>1, <1>3 DEF SerialTypeOK, LoopType
<1>5. LoopType'
  BY <1>1, <1>2, <1>3, <1>4 DEF SerialTypeOK, LoopType
<1>6. PictureType'
  <2>1. wasVisible \in BOOLEAN /\ (boxes # {}) \in BOOLEAN
    BY <1>1 DEF SerialTypeOK, PictureType
  <2>2. wasVisible' \in BOOLEAN
    BY <1>3, <2>1
  <2>3. NoPass.counted \in BOOLEAN /\ NoPass.drawn \subseteq Parts /\ NoPass.dirty \subseteq Parts
    BY DEF NoPass
  <2> QED
    BY <1>1, <1>2, <1>3, <2>2, <2>3 DEF SerialTypeOK, PictureType
<1>7. TxType'
  BY <1>1, <1>2 DEF SerialTypeOK, TxType
<1>8. ReadHolds'
  <2>1. \A p \in Parts : (buffer[p].of = IF p <= got THEN count + 1 ELSE count)'
    BY <1>1, <1>2 DEF ReadHolds
  <2>2. (got > 0 => count < Pictures)' /\ (loop = "reading" => got < 2)'
    BY <1>1, <1>2, <1>3 DEF ReadHolds
  <2>3. (loop = "pacing" \/ (loop \in {"bounds", "render", "send"} /\ pass.counted)
           => got = 0 /\ tx.presents < count)'
    BY <1>1, <1>2, <1>3 DEF ReadHolds, NoPass
  <2>4. (loop = "leftRead" /\ got < 2 => control.eof \/ control.stop \/ control.paused \/ gap)'
    BY <1>1, <1>2, <1>3, <1>4 DEF ReadHolds
  <2> QED
    BY <2>1, <2>2, <2>3, <2>4 DEF ReadHolds
<1>9. Strays' = Strays
  BY <1>2 DEF Strays
<1>10. CleanBetween'
  <2>1. loop' # "send" => loop # "send"
    BY DEF LoopLeaves, PausedRepaint, ReadOn, ReadLooks, ReadEof, SerialEnds, serialVars
  <2> QED
    BY <1>1, <1>2, <1>9, <2>1 DEF CleanBetween
<1>11. BackupHolds'
  BY <1>1, <1>2, <1>3, <1>9 DEF BackupHolds, NoPass
<1>12. TurnsAreWhole' /\ ShortIsTheEnd'
  BY <1>1, <1>2, <1>4, ScreenFrame DEF ShortIsTheEnd
<1> QED
  BY <1>5, <1>6, <1>7, <1>8, <1>10, <1>11, <1>12 DEF SerialInv, SerialTypeOK

(* The steps of the other threads: a pause or a resume, a stop, a flashed skip, and *)
(* the overlay that expires.                                                        *)
LEMMA OtherThreadsStep ==
    ASSUME SerialInv, Toggle \/ Stopped \/ FlashSkip \/ BoxExpires
    PROVE  SerialInv'
<1>1. SerialTypeOK /\ ReadHolds /\ CleanBetween /\ BackupHolds /\ TurnsAreWhole /\ ShortIsTheEnd
  BY DEF SerialInv
<1>2. UNCHANGED <<format, buffer, got, count, loop, wasVisible, pass, lateRun, tx, screen, outcome>>
  BY DEF Toggle, Stopped, FlashSkip, BoxExpires, others
<1>3. /\ \/ control' = control
         \/ control' = [control EXCEPT !.stop = TRUE]
         \/ control' = [control EXCEPT !.paused = ~@] /\ (control.paused /\ loop = "leftRead" => gap')
      /\ gap' = gap \/ gap' = (gap \/ (control.paused /\ loop = "leftRead"))
      /\ toggled' = toggled \/ (toggled < Toggles /\ toggled' = toggled + 1)
      /\ flashed' = flashed \/ (flashed < Flashes /\ flashed' = flashed + 1)
      /\ \/ boxes' = boxes \/ boxes' = boxes \cup {Panel}
         \/ boxes' = {SkipBox, Panel} /\ flashed' = flashed + 1
         \/ boxes' = {Panel} \/ boxes' = {}
  BY DEF Toggle, Stopped, FlashSkip, BoxExpires, others, Shown
<1>4. /\ control' \in [stop : BOOLEAN, paused : BOOLEAN, eof : BOOLEAN, short : BOOLEAN]
      /\ control'.short = control.short /\ control'.eof = control.eof
      /\ (control.stop => control'.stop)
      /\ control.paused => control'.paused \/ loop # "leftRead" \/ gap'
  BY <1>1, <1>3 DEF SerialTypeOK, LoopType
<1>5. gap' \in BOOLEAN /\ (gap => gap')
  BY <1>1, <1>3 DEF SerialTypeOK, LoopType
<1>6. toggled' \in 0..Toggles /\ flashed' \in 0..Flashes
  <2>1. toggled \in 0..Toggles /\ flashed \in 0..Flashes
    BY <1>1 DEF SerialTypeOK, LoopType
  <2> QED
    BY <1>3, <2>1, SerialAssumption
<1>7. LoopType'
  BY <1>1, <1>2, <1>4, <1>5, <1>6 DEF SerialTypeOK, LoopType
<1>8. boxes' \in {{}, {Panel}, {SkipBox, Panel}} /\ (SkipBox \in boxes' => flashed' > 0)
  <2>1. boxes \in {{}, {Panel}, {SkipBox, Panel}} /\ (SkipBox \in boxes => flashed > 0)
    BY <1>1 DEF SerialTypeOK, PictureType, CleanBetween
  <2>2. (flashed > 0 => flashed' > 0) /\ (flashed' = flashed + 1 => flashed' > 0)
    BY <1>1, <1>3, SerialNumbers
  <2> QED
    BY <1>3, <2>1, <2>2 DEF SkipBox, Panel
<1>9. PictureType' /\ TxType'
  BY <1>1, <1>2, <1>8 DEF SerialTypeOK, PictureType, TxType
<1>10. ReadHolds'
  BY <1>1, <1>2, <1>4, <1>5 DEF ReadHolds
<1>11. Strays \subseteq Strays' /\ TurnsAreWhole'
  BY <1>1, <1>2, <1>3, ScreenFrame
<1>12. CleanBetween'
  BY <1>1, <1>2, <1>8, <1>11 DEF CleanBetween
<1>13. BackupHolds'
  BY <1>1, <1>2, <1>11 DEF BackupHolds
<1>14. ShortIsTheEnd'
  BY <1>1, <1>4, <1>5 DEF ShortIsTheEnd
<1> QED
  BY <1>7, <1>9, <1>10, <1>11, <1>12, <1>13, <1>14 DEF SerialInv, SerialTypeOK

(* A part of the next picture is read over the buffer. *)
LEMMA ReadReturnsStep ==
    ASSUME SerialInv, ReadReturns
    PROVE  SerialInv'
<1>1. SerialTypeOK /\ ReadHolds /\ CleanBetween /\ BackupHolds /\ TurnsAreWhole /\ ShortIsTheEnd
  BY DEF SerialInv
<1>2. /\ loop = "reading" /\ loop' = "read" /\ count < Pictures /\ got' = got + 1
      /\ buffer' = [buffer EXCEPT ![got + 1] = [of |-> count + 1, osd |-> FALSE]]
      /\ UNCHANGED <<format, count, control, boxes, wasVisible, pass, lateRun, tx, screen, outcome,
                     toggled, flashed, gap>>
  BY DEF ReadReturns, others
<1>3. got \in {0, 1} /\ got + 1 \in Parts /\ got' \in 0..2 /\ got + 1 <= got' /\ count + 1 \in 0..Pictures
  BY <1>1, <1>2, SerialNumbers DEF ReadHolds, Parts
<1>4. /\ buffer' \in [Parts -> [of : 0..Pictures, osd : BOOLEAN]]
      /\ buffer'[got + 1] = [of |-> count + 1, osd |-> FALSE]
      /\ \A p \in Parts \ {got + 1} : buffer'[p] = buffer[p]
  <2>1. [of |-> count + 1, osd |-> FALSE] \in [of : 0..Pictures, osd : BOOLEAN]
    BY <1>3
  <2> QED
    BY <1>1, <1>2, <1>3, <2>1 DEF SerialTypeOK, PictureType
<1>5. LoopType'
  BY <1>1, <1>2, <1>3 DEF SerialTypeOK, LoopType
<1>6. PictureType' /\ TxType'
  BY <1>1, <1>2, <1>4 DEF SerialTypeOK, PictureType, TxType
<1>7. ReadHolds'
  <2>1. \A p \in Parts \ {got + 1} : p <= got' <=> p <= got
    BY <1>2, <1>3 DEF Parts
  <2>2. \A p \in Parts : buffer'[p].of = IF p <= got' THEN count + 1 ELSE count
    BY <1>1, <1>3, <1>4, <2>1 DEF ReadHolds
  <2> QED
    BY <1>2, <2>2 DEF ReadHolds
<1>8. Strays' = Strays
  BY <1>2 DEF Strays
<1>9. CleanBetween'
  BY <1>1, <1>2, <1>4, <1>8 DEF CleanBetween
<1>10. BackupHolds'
  BY <1>1, <1>2 DEF BackupHolds
<1>11. TurnsAreWhole' /\ ShortIsTheEnd'
  BY <1>1, <1>2, ScreenFrame DEF ShortIsTheEnd
<1> QED
  BY <1>5, <1>6, <1>7, <1>9, <1>10, <1>11 DEF SerialInv, SerialTypeOK

(* The picture is whole and becomes the newest one, or the loop goes back to its *)
(* top or ends.                                                                  *)
LEMMA PictureReadStep ==
    ASSUME SerialInv, PictureRead
    PROVE  SerialInv'
<1>1. SerialTypeOK /\ ReadHolds /\ CleanBetween /\ BackupHolds /\ TurnsAreWhole /\ ShortIsTheEnd
  BY DEF SerialInv
<1> DEFINE whole == ~control.paused /\ got = 2
<1>2. /\ loop = "leftRead"
      /\ loop' = IF control.paused THEN "top" ELSE IF got < 2 THEN "left" ELSE "pacing"
      /\ control' = [control EXCEPT !.short = ~control.paused /\ got < 2]
      /\ got' = IF whole THEN 0 ELSE got
      /\ count' = IF whole THEN count + 1 ELSE count
      /\ UNCHANGED <<format, buffer, boxes, wasVisible, pass, lateRun, tx, screen, outcome, toggled,
                     flashed, gap>>
  BY DEF PictureRead, others
<1>3. /\ got' \in 0..2 /\ count' \in 0..Pictures /\ tx.presents \in 0..count'
      /\ loop' = "pacing" => got' = 0 /\ tx.presents < count'
      /\ got' > 0 => count' < Pictures
      /\ \A p \in Parts : (IF p <= got' THEN count' + 1 ELSE count') = IF p <= got THEN count + 1 ELSE count
  BY <1>1, <1>2, SerialNumbers DEF ReadHolds, Parts
<1>4. /\ control' \in [stop : BOOLEAN, paused : BOOLEAN, eof : BOOLEAN, short : BOOLEAN]
      /\ control'.eof = control.eof /\ control'.stop = control.stop
      /\ control'.short => ~control.paused /\ got < 2
  BY <1>1, <1>2 DEF SerialTypeOK, LoopType
<1>5. LoopType'
  BY <1>1, <1>2, <1>3, <1>4 DEF SerialTypeOK, LoopType
<1>6. PictureType'
  BY <1>1, <1>2 DEF SerialTypeOK, PictureType
<1>7. TxType'
  BY <1>1, <1>2, <1>3 DEF SerialTypeOK, TxType
<1>8. ReadHolds'
  BY <1>1, <1>2, <1>3 DEF ReadHolds
<1>9. Strays' = Strays
  BY <1>2 DEF Strays
<1>10. CleanBetween' /\ BackupHolds'
  BY <1>1, <1>2, <1>9 DEF CleanBetween, BackupHolds
<1>11. TurnsAreWhole' /\ ShortIsTheEnd'
  BY <1>1, <1>2, <1>4, ScreenFrame DEF ShortIsTheEnd, ReadHolds
<1> QED
  BY <1>5, <1>6, <1>7, <1>8, <1>10, <1>11 DEF SerialInv, SerialTypeOK

(* The newest picture is taken to its present, or dropped. *)
LEMMA PacedStep ==
    ASSUME SerialInv, Paced
    PROVE  SerialInv'
<1>1. SerialTypeOK /\ ReadHolds /\ CleanBetween /\ BackupHolds /\ TurnsAreWhole /\ ShortIsTheEnd
  BY DEF SerialInv
<1>2. /\ loop = "pacing"
      /\ \/ loop' = "bounds" /\ pass' = [NoPass EXCEPT !.counted = TRUE] /\ lateRun' = 0
         \/ loop' = "top" /\ lateRun < 1 /\ lateRun' = lateRun + 1 /\ pass' = pass
      /\ UNCHANGED <<format, buffer, got, count, control, boxes, wasVisible, tx, screen, outcome,
                     toggled, flashed, gap>>
  BY DEF Paced, others
<1>3. lateRun' \in 0..1
  BY <1>1, <1>2 DEF SerialTypeOK, LoopType
<1>4. [NoPass EXCEPT !.counted = TRUE] = [counted |-> TRUE, saved |-> <<>>, dirty |-> {}, drawn |-> {}]
  <2> DEFINE no == FALSE yes == TRUE nothing == <<>> none == {}
  <2>1. NoPass = [counted |-> no, saved |-> nothing, dirty |-> none, drawn |-> none]
    BY DEF NoPass
  <2> HIDE DEF no, yes, nothing, none
  <2>2. [NoPass EXCEPT !.counted = yes] = [counted |-> yes, saved |-> nothing, dirty |-> none,
                                           drawn |-> none]
    BY <2>1
  <2> QED
    BY <2>2, Zenon DEF yes, nothing, none
<1>5. LoopType'
  BY <1>1, <1>2, <1>3 DEF SerialTypeOK, LoopType
<1>6. PictureType' /\ TxType'
  BY <1>1, <1>2, <1>4 DEF SerialTypeOK, PictureType, TxType
<1>7. ReadHolds'
  BY <1>1, <1>2 DEF ReadHolds
<1>8. Strays' = Strays
  BY <1>2 DEF Strays
<1>9. CleanBetween' /\ BackupHolds'
  BY <1>1, <1>2, <1>4, <1>8 DEF CleanBetween, BackupHolds
<1>10. TurnsAreWhole' /\ ShortIsTheEnd'
  BY <1>1, <1>2, ScreenFrame DEF ShortIsTheEnd
<1> QED
  BY <1>5, <1>6, <1>7, <1>9, <1>10 DEF SerialInv, SerialTypeOK

(* Drawing touches no pixel of the picture's own, and marks the boxes drawn. *)
LEMMA RenderedParts ==
    ASSUME PictureType, NEW drawn \in SUBSET Parts
    PROVE  /\ Rendered(buffer, drawn) \in [Parts -> [of : 0..Pictures, osd : BOOLEAN]]
           /\ \A p \in Parts : /\ Rendered(buffer, drawn)[p].of = buffer[p].of
                               /\ Rendered(buffer, drawn)[p].osd <=> buffer[p].osd \/ p \in drawn
<1>1. \A p \in Parts : buffer[p] \in [of : 0..Pictures, osd : BOOLEAN]
  BY DEF PictureType
<1>2. \A p \in Parts : /\ [buffer[p] EXCEPT !.osd = @ \/ p \in drawn] \in [of : 0..Pictures, osd : BOOLEAN]
                       /\ [buffer[p] EXCEPT !.osd = @ \/ p \in drawn].of = buffer[p].of
                       /\ [buffer[p] EXCEPT !.osd = @ \/ p \in drawn].osd
                            <=> buffer[p].osd \/ p \in drawn
  BY <1>1
<1> QED
  BY <1>2 DEF Rendered

(* The look at the overlay's bounds: what lies under them is put by. *)
LEMMA BoundsStep ==
    ASSUME SerialInv, Bounds
    PROVE  SerialInv'
<1>1. SerialTypeOK /\ ReadHolds /\ CleanBetween /\ BackupHolds /\ TurnsAreWhole /\ ShortIsTheEnd
  BY DEF SerialInv
<1> DEFINE drawn == IF format = "i420" THEN boxes ELSE {}
<1>2. /\ loop = "bounds"
      /\ pass' = [pass EXCEPT !.saved = Captured(buffer, boxes), !.dirty = boxes, !.drawn = drawn]
      /\ buffer' = IF format = "i420" THEN Rendered(buffer, boxes) ELSE buffer
      /\ loop' = IF format = "packed" /\ boxes # {} THEN "render" ELSE "send"
      /\ UNCHANGED <<format, got, count, control, boxes, wasVisible, lateRun, tx, screen, outcome,
                     toggled, flashed, gap>>
  BY DEF Bounds, others
<1>3. /\ boxes \in SUBSET Parts /\ (boxes # {} => Panel \in boxes) /\ drawn \in SUBSET Parts
      /\ format \in {"packed", "i420"}
  BY <1>1, SerialAssumption DEF SerialTypeOK, PictureType, LoopType, Parts, Panel, SkipBox
<1>4. /\ pass'.saved = Captured(buffer, boxes) /\ pass'.dirty = boxes /\ pass'.drawn = drawn
      /\ pass'.counted = pass.counted
      /\ pass' = [counted |-> pass'.counted, saved |-> pass'.saved, dirty |-> pass'.dirty,
                  drawn |-> pass'.drawn]
  <2>1. pass = [counted |-> pass.counted, saved |-> pass.saved, dirty |-> pass.dirty,
                drawn |-> pass.drawn]
    BY <1>1 DEF BackupHolds
  <2> DEFINE c == pass.counted s == pass.saved d == pass.dirty w == pass.drawn
             cap == Captured(buffer, boxes)
  <2>2. pass = [counted |-> c, saved |-> s, dirty |-> d, drawn |-> w] /\ c = pass.counted
    BY <2>1
  <2>3. pass' = [pass EXCEPT !.saved = cap, !.dirty = boxes, !.drawn = drawn]
    BY <1>2
  <2> HIDE DEF c, s, d, w, cap, drawn
  <2>4. pass' = [counted |-> c, saved |-> cap, dirty |-> boxes, drawn |-> drawn]
    BY <2>2, <2>3
  <2> QED
    BY <2>2, <2>4 DEF cap
<1>5. /\ buffer' \in [Parts -> [of : 0..Pictures, osd : BOOLEAN]]
      /\ \A p \in Parts : /\ buffer'[p].of = buffer[p].of
                          /\ buffer'[p].osd <=> buffer[p].osd \/ p \in drawn
  BY <1>1, <1>2, <1>3, RenderedParts DEF SerialTypeOK, PictureType
<1>6. LoopType'
  BY <1>1, <1>2 DEF SerialTypeOK, LoopType
<1>7. PictureType' /\ TxType'
  BY <1>1, <1>2, <1>3, <1>4, <1>5 DEF SerialTypeOK, PictureType, TxType
<1>8. ReadHolds'
  BY <1>1, <1>2, <1>4, <1>5 DEF ReadHolds
<1>9. Strays' = Strays
  BY <1>2 DEF Strays
<1>10. \A p \in Parts : buffer[p].osd => p \in Strays
  BY <1>1, <1>2 DEF CleanBetween
<1>11. CleanBetween'
  <2>1. loop' # "send" => drawn = {}
    BY <1>2, <1>3
  <2> QED
    BY <1>1, <1>2, <1>5, <1>9, <1>10, <2>1 DEF CleanBetween
<1>12. BackupHolds'
  <2>1. /\ DOMAIN pass'.saved = pass'.dirty
        /\ \A p \in pass'.dirty : pass'.saved[p] = buffer[p] /\ p \in Parts
    BY <1>3, <1>4 DEF Captured
  <2>2. \A p \in Parts : buffer[p] \in [of : 0..Pictures, osd : BOOLEAN]
    BY <1>1 DEF SerialTypeOK, PictureType
  <2>3. \A p \in pass'.dirty : /\ pass'.saved[p] \in [of : 0..Pictures, osd : BOOLEAN]
                               /\ pass'.saved[p].of = buffer'[p].of
                               /\ pass'.saved[p].osd => p \in Strays'
    BY <1>5, <1>9, <1>10, <2>1, <2>2
  <2>4. loop' = "render" => format' = "packed" /\ Panel \in pass'.dirty
    BY <1>2, <1>3, <1>4
  <2>5. /\ pass'.drawn \ pass'.dirty \subseteq Strays'
        /\ \A p \in Parts : buffer'[p].osd => p \in Strays' \cup pass'.drawn
        /\ \A p \in pass'.drawn : buffer'[p].osd
    BY <1>3, <1>4, <1>5, <1>9, <1>10
  <2> QED
    BY <1>4, <2>1, <2>3, <2>4, <2>5 DEF BackupHolds
<1>13. TurnsAreWhole' /\ ShortIsTheEnd'
  BY <1>1, <1>2, ScreenFrame DEF ShortIsTheEnd
<1> QED
  BY <1>6, <1>7, <1>8, <1>11, <1>12, <1>13 DEF SerialInv, SerialTypeOK

(* The second look of a packed format draws what is visible then: the panel, which *)
(* was put by, and perhaps a skip that was not.                                    *)
LEMMA RenderStep ==
    ASSUME SerialInv, Render
    PROVE  SerialInv'
<1>1. SerialTypeOK /\ ReadHolds /\ CleanBetween /\ BackupHolds /\ TurnsAreWhole /\ ShortIsTheEnd
  BY DEF SerialInv
<1>2. /\ loop = "render" /\ loop' = "send" /\ buffer' = Rendered(buffer, boxes)
      /\ pass' = [pass EXCEPT !.drawn = boxes]
      /\ UNCHANGED <<format, got, count, control, boxes, wasVisible, lateRun, tx, screen, outcome,
                     toggled, flashed, gap>>
  BY DEF Render, others
<1>3. boxes \in SUBSET Parts /\ boxes \subseteq {SkipBox, Panel}
  BY <1>1 DEF SerialTypeOK, PictureType, Parts, Panel, SkipBox
<1>4. /\ pass'.saved = pass.saved /\ pass'.dirty = pass.dirty /\ pass'.drawn = boxes
      /\ pass'.counted = pass.counted
      /\ pass' = [counted |-> pass'.counted, saved |-> pass'.saved, dirty |-> pass'.dirty,
                  drawn |-> pass'.drawn]
  <2> DEFINE c == pass.counted s == pass.saved d == pass.dirty w == pass.drawn
  <2>1. /\ pass = [counted |-> c, saved |-> s, dirty |-> d, drawn |-> w] /\ c = pass.counted
        /\ s = pass.saved /\ d = pass.dirty
    BY <1>1 DEF BackupHolds
  <2> HIDE DEF c, s, d, w
  <2>2. pass' = [counted |-> c, saved |-> s, dirty |-> d, drawn |-> boxes]
    BY <1>2, <2>1
  <2> QED
    BY <2>1, <2>2
<1>5. /\ buffer' \in [Parts -> [of : 0..Pictures, osd : BOOLEAN]]
      /\ \A p \in Parts : /\ buffer'[p].of = buffer[p].of
                          /\ buffer'[p].osd <=> buffer[p].osd \/ p \in boxes
  BY <1>1, <1>2, <1>3, RenderedParts DEF SerialTypeOK
<1>6. LoopType'
  BY <1>1, <1>2 DEF SerialTypeOK, LoopType
<1>7. PictureType' /\ TxType'
  BY <1>1, <1>2, <1>3, <1>4, <1>5 DEF SerialTypeOK, PictureType, TxType
<1>8. ReadHolds'
  BY <1>1, <1>2, <1>4, <1>5 DEF ReadHolds
<1>9. Strays' = Strays
  BY <1>2 DEF Strays
<1>10. CleanBetween'
  BY <1>1, <1>2 DEF CleanBetween
<1>11. BackupHolds'
  <2>1. SkipBox \in boxes => SkipBox \in Strays
    BY <1>1, <1>2 DEF CleanBetween, BackupHolds, Strays
  <2>2. Panel \in pass.dirty /\ pass.dirty \subseteq Parts
    BY <1>1, <1>2 DEF BackupHolds, SerialTypeOK, PictureType
  <2>3. boxes \ pass.dirty \subseteq Strays
    BY <1>3, <2>1, <2>2
  <2>4. \A p \in Parts : buffer[p].osd => p \in Strays
    BY <1>1, <1>2 DEF CleanBetween
  <2>5. /\ DOMAIN pass.saved = pass.dirty
        /\ \A p \in pass.dirty : /\ pass.saved[p] \in [of : 0..Pictures, osd : BOOLEAN]
                                 /\ pass.saved[p].of = buffer'[p].of
                                 /\ pass.saved[p].osd => p \in Strays
    BY <1>1, <1>2, <1>5, <2>2 DEF BackupHolds
  <2> QED
    BY <1>2, <1>3, <1>4, <1>5, <1>9, <2>3, <2>4, <2>5 DEF BackupHolds
<1>12. TurnsAreWhole' /\ ShortIsTheEnd'
  BY <1>1, <1>2, ScreenFrame DEF ShortIsTheEnd
<1> QED
  BY <1>6, <1>7, <1>8, <1>10, <1>11, <1>12 DEF SerialInv, SerialTypeOK

(* The picture goes to the screen as it lies in the buffer, and the overlay is *)
(* taken out of the buffer again.                                              *)
LEMMA SendAndRestoreStep ==
    ASSUME SerialInv, SendAndRestore
    PROVE  SerialInv'
<1>1. SerialTypeOK /\ ReadHolds /\ CleanBetween /\ BackupHolds /\ TurnsAreWhole /\ ShortIsTheEnd
  BY DEF SerialInv
<1>2. /\ loop = "send" /\ loop' = "top" /\ buffer' = Restored(buffer, pass.saved) /\ pass' = NoPass
      /\ screen' = [parts |-> buffer, counted |-> pass.counted, drawn |-> pass.drawn, got |-> got,
                    of |-> count]
      /\ UNCHANGED <<format, got, count, control, boxes, wasVisible, lateRun, outcome, toggled,
                     flashed, gap>>
  BY DEF SendAndRestore, others
<1>3. PICK ok \in BOOLEAN :
        tx' = [bank |-> IF ok THEN 1 - tx.bank ELSE tx.bank,
               presents |-> IF ok /\ pass.counted THEN tx.presents + 1 ELSE tx.presents]
  BY DEF SendAndRestore
<1>4. TxType'
  <2>1. tx.bank \in {0, 1} /\ 1 - tx.bank \in {0, 1}
    BY <1>1 DEF SerialTypeOK, TxType
  <2>2. tx.presents \in 0..count /\ (pass.counted => tx.presents + 1 \in 0..count)
    BY <1>1, <1>2, SerialNumbers DEF ReadHolds
  <2> QED
    BY <1>2, <1>3, <2>1, <2>2 DEF TxType
<1>5. /\ buffer' \in [Parts -> [of : 0..Pictures, osd : BOOLEAN]]
      /\ \A p \in Parts : /\ buffer'[p].of = buffer[p].of
                          /\ buffer'[p].osd => p \in Strays
  <2>1. \A p \in Parts : buffer'[p] = IF p \in pass.dirty THEN pass.saved[p] ELSE buffer[p]
    BY <1>1, <1>2 DEF BackupHolds, Restored
  <2>2. /\ buffer' = [p \in Parts |-> buffer'[p]]
        /\ \A p \in Parts : buffer[p] \in [of : 0..Pictures, osd : BOOLEAN]
    BY <1>1, <1>2 DEF Restored, SerialTypeOK, PictureType
  <2>3. \A p \in Parts : /\ buffer'[p] \in [of : 0..Pictures, osd : BOOLEAN]
                         /\ buffer'[p].of = buffer[p].of
                         /\ buffer'[p].osd => p \in Strays
    <3> TAKE p \in Parts
    <3>1. CASE p \in pass.dirty
      BY <1>1, <1>2, <2>1, <3>1 DEF BackupHolds
    <3>2. CASE p \notin pass.dirty
      BY <1>1, <1>2, <2>1, <2>2, <3>2 DEF BackupHolds
    <3> QED
      BY <3>1, <3>2
  <2> QED
    BY <2>2, <2>3
<1>6. LoopType'
  BY <1>1, <1>2 DEF SerialTypeOK, LoopType
<1>7. PictureType'
  BY <1>1, <1>2, <1>5 DEF SerialTypeOK, PictureType, NoPass
<1>8. ReadHolds'
  BY <1>1, <1>2, <1>5 DEF ReadHolds
<1>9. Strays' = Strays
  BY <1>2 DEF Strays
<1>10. CleanBetween'
  BY <1>1, <1>2, <1>5, <1>9 DEF CleanBetween
<1>11. BackupHolds'
  BY <1>2 DEF BackupHolds, NoPass
<1>12. TurnsAreWhole'
  <2>1. /\ screen'.parts = buffer /\ screen'.counted = pass.counted /\ screen'.drawn = pass.drawn
        /\ screen'.got = got /\ screen'.of = count
    BY <1>2
  <2>2. got \in {0, 1, 2} /\ (pass.counted => got = 0)
    BY <1>1, <1>2, SerialNumbers DEF ReadHolds
  <2>3. got = 0 => \A p \in Parts : buffer[p].of = count
    BY <1>1, SerialNumbers DEF ReadHolds, Parts
  <2>4. Whole(screen)' \/ (~screen'.counted /\ screen'.got > 0)
    BY <2>1, <2>2, <2>3 DEF Whole
  <2>5. Boxes(screen)' = {p \in Parts : buffer[p].osd}
    BY <2>1 DEF Boxes
  <2>6. pass.drawn \subseteq Parts /\ (\A p \in pass.drawn : buffer[p].osd)
        /\ (\A p \in Parts : buffer[p].osd => p \in Strays \cup pass.drawn)
    BY <1>1, <1>2 DEF BackupHolds, SerialTypeOK, PictureType
  <2>7. screen'.drawn \subseteq Boxes(screen)' /\ Boxes(screen)' \ screen'.drawn \subseteq Strays'
    BY <1>9, <2>1, <2>5, <2>6
  <2> QED
    BY <2>4, <2>7 DEF TurnsAreWhole, Strays
<1>13. ShortIsTheEnd'
  BY <1>1, <1>2 DEF ShortIsTheEnd
<1> QED
  BY <1>4, <1>6, <1>7, <1>8, <1>10, <1>11, <1>12, <1>13 DEF SerialInv, SerialTypeOK

(* The serial loop starts with an empty buffer and a black screen. *)
LEMMA SerialInitInv == SerialInit => SerialInv
<1> SUFFICES ASSUME SerialInit PROVE SerialInv
  OBVIOUS
<1>1. 0 \in 0..Pictures /\ 0 \in 0..Toggles /\ 0 \in 0..Flashes /\ 0 \in 0..2 /\ 0 \in 0..1 /\ 0 \in 0..0
  BY SerialAssumption
<1>2. LoopType
  BY <1>1 DEF SerialInit, LoopType
<1>3. PictureType
  BY <1>1 DEF SerialInit, PictureType, NoPass
<1>4. TxType
  BY <1>1 DEF SerialInit, TxType
<1>5. ReadHolds /\ CleanBetween
  BY DEF SerialInit, ReadHolds, CleanBetween, Parts
<1>6. BackupHolds
  BY DEF SerialInit, BackupHolds, NoPass
<1>7. TurnsAreWhole /\ ShortIsTheEnd
  BY DEF SerialInit, TurnsAreWhole, ShortIsTheEnd, Whole, Boxes
<1> QED
  BY <1>2, <1>3, <1>4, <1>5, <1>6, <1>7 DEF SerialInv, SerialTypeOK

(* The buffer, the backup and the screen hold what they should in every reachable *)
(* state of the serial loop.                                                      *)
LEMMA SerialInvariant == SerialSpec => []SerialInv
<1>1. SerialInv /\ [SerialNext]_serialVars => SerialInv'
  BY LoopMovesStep, OtherThreadsStep, ReadReturnsStep, PictureReadStep, PacedStep, BoundsStep,
     RenderStep, SendAndRestoreStep DEF SerialNext
<1> QED
  BY <1>1, SerialInitInv, PTL DEF SerialSpec

-----------------------------------------------------------------------------
(* A session and its stop().                                               *)

Tearing == {"kill", "killing", "joinAudio", "joinStream", "report", "over"}
Failing == {"failKill", "failKilling", "failJoin"}
Lefts   == {<<>>, <<"streamPid">>, <<"audioPid", "streamPid">>, Order}
After(left) == CASE left = Order -> <<"audioPid", "streamPid">>
                 [] left = <<"audioPid", "streamPid">> -> <<"streamPid">>
                 [] OTHER -> <<>>

SessionShape ==
    /\ DemuxTypeOK /\ at \in SetUp \cup {"recon", "play"} \cup Tearing \cup Failing
    /\ killing \in [Killers -> [step : {"off", "term", "reap", "clear", "take", "wait", "join", "returned"},
                                left : Lefts, saw : Processes \cup {Empty}]]
    /\ \A k \in Killers : /\ killing[k].step \in {"clear", "wait"} => killing[k].left # <<>>
                          /\ killing[k].step = "wait" => killing[k].saw \in Processes
    /\ at \in {"killing", "failKilling"} <=> killing["session"].step # "off"
    /\ killing["session"].step \notin {"join", "returned"}

LEMMA LeftsEnd ==
  /\ \A left \in Lefts : left # <<>> => Head(left) \in Slots /\ Tail(left) \in Lefts /\ Tail(left) = After(left)
  /\ Order \in Lefts /\ <<>> \in Lefts
<1>1. \A left \in Lefts : left # <<>> => Head(left) \in Slots
  BY DEF Lefts, Order, Slots
<1>2. \A left \in Lefts : left # <<>> => Tail(left) = After(left)
  <2>1. Tail(<<"streamPid">>) = <<>>
    OBVIOUS
  <2>2. Tail(<<"audioPid", "streamPid">>) = <<"streamPid">>
    OBVIOUS
  <2>3. Tail(Order) = <<"audioPid", "streamPid">>
    BY DEF Order
  <2>4. Order # <<"audioPid", "streamPid">> /\ <<"streamPid">> # <<"audioPid", "streamPid">> /\ <<"streamPid">> # Order
    BY DEF Order
  <2> QED
    BY <2>1, <2>2, <2>3, <2>4 DEF Lefts, After
<1>3. \A left \in Lefts : After(left) \in Lefts
  BY DEF Lefts, After
<1> QED
  BY <1>1, <1>2, <1>3 DEF Lefts

LEMMA SessionShapeStep ==
  ASSUME SessionShape, [DemuxNext]_demuxVars
  PROVE  SessionShape'
<1> USE DEF SessionShape, DemuxTypeOK, SetUp, Tearing, Failing, Locals, Ends, Kills, Go
<1>1. CASE Refuse
  BY <1>1 DEF Refuse
<1>2. CASE Plan
  BY <1>2 DEF Plan, AudioWanted, HasAudioStream, FrameSize, Sources
<1>3. CASE StreamFork
  <2>1. AfterStream \in {"recon0", "inproc", "pipes"}
    BY DEF AfterStream
  <2>2. CASE Forked("demux") /\ fds' = fds \cup {"sr"} /\ Go("streamStore")
    BY <1>3, <2>2 DEF StreamFork, Forked, Processes
  <2>3. CASE Go(AfterStream) /\ UNCHANGED <<proc, fds>>
    BY <1>3, <2>1, <2>3 DEF StreamFork
  <2> QED
    BY <1>3, <2>2, <2>3 DEF StreamFork
<1>4. CASE StreamStore
  BY <1>4 DEF StreamStore, StorePid, Forgotten, Unreaped, AfterStream, Processes, Pumps, Home, Slots
<1>5. CASE ReconFork
  <2>1. CASE Forked("audio") /\ fds' = fds \cup {"ar"} /\ Go("reconStore")
    BY <1>5, <2>1 DEF ReconFork, Forked, Processes
  <2>2. CASE Go("recon") /\ UNCHANGED <<proc, fds>>
    BY <1>5, <2>2 DEF ReconFork
  <2> QED
    BY <1>5, <2>1, <2>2 DEF ReconFork
<1>6. CASE ReconStore
  BY <1>6 DEF ReconStore, StorePid, Forgotten, Unreaped, Processes, Pumps
<1>7. CASE InprocStart
  <2>1. CASE Go("failKill") /\ GiveUp /\ UNCHANGED proc
    BY <1>7, <2>1 DEF InprocStart, GiveUp
  <2>2. CASE Forked("remux") /\ Go("remuxStore") /\ UNCHANGED Ends
    BY <1>7, <2>2 DEF InprocStart, Forked, Processes
  <2>3. CASE Go(IF Networked(dcfg) THEN "pipes" ELSE "open") /\ UNCHANGED <<proc, Ends>>
    BY <1>7, <2>3 DEF InprocStart
  <2> QED
    BY <1>7, <2>1, <2>2, <2>3 DEF InprocStart
<1>8. CASE RemuxStore
  BY <1>8 DEF RemuxStore, StorePid, Forgotten, Unreaped, Processes
<1>9. CASE InprocOpen
  BY <1>9 DEF InprocOpen
<1>10. CASE Pipes
  BY <1>10 DEF Pipes, GiveUp
<1>11. CASE VideoFork
  <2>1. CASE Forked("video") /\ Go("videoStore") /\ UNCHANGED <<fds, Ends>>
    BY <1>11, <2>1 DEF VideoFork, Forked, Processes
  <2>2. CASE fds' = fds \ {"vr", "vw", "ar", "aw"} /\ Go("failKill") /\ GiveUp /\ UNCHANGED proc
    BY <1>11, <2>2 DEF VideoFork, GiveUp
  <2> QED
    BY <1>11, <2>1, <2>2 DEF VideoFork
<1>12. CASE VideoStore
  BY <1>12 DEF VideoStore, StorePid, Forgotten, Unreaped, Processes
<1>13. CASE AudioFork
  <2>1. CASE Forked("audio") /\ Go("audioStore") /\ UNCHANGED fds
    BY <1>13, <2>1 DEF AudioFork, Forked, Processes
  <2>2. CASE fds' = fds \ {"ar"} /\ Go("closeEnds") /\ UNCHANGED proc
    BY <1>13, <2>2 DEF AudioFork
  <2>3. CASE Go("closeEnds") /\ UNCHANGED <<proc, fds>>
    BY <1>13, <2>3 DEF AudioFork
  <2> QED
    BY <1>13, <2>1, <2>2, <2>3 DEF AudioFork
<1>14. CASE AudioStore
  BY <1>14 DEF AudioStore, StorePid, Forgotten, Unreaped, Processes
<1>15. CASE CloseEnds
  <2>1. CASE /\ "ar" \in fds /\ pumps' = [pumps EXCEPT !["audio"] = "run"]
             /\ \E native \in BOOLEAN : released' = ~(inproc /\ native)
    <3>1. released' \in BOOLEAN
      BY <2>1
    <3> QED
      BY <1>15, <2>1, <3>1 DEF CloseEnds, Pumps
  <2>2. CASE UNCHANGED <<released, pumps>>
    BY <1>15, <2>2 DEF CloseEnds
  <2> QED
    BY <1>15, <2>1, <2>2 DEF CloseEnds
<1>16. ASSUME NEW p \in Processes, Exits(p) PROVE SessionShape'
  BY <1>16 DEF Exits
<1>17. CASE RemuxOpens
  BY <1>17 DEF RemuxOpens
<1>18. ASSUME NEW t \in Pumps, APumpEnds(t) PROVE SessionShape'
  BY <1>18 DEF APumpEnds
<1>19. CASE Picture
  BY <1>19 DEF Picture
<1>20. CASE ReconEnds
  BY <1>20 DEF ReconEnds, Slots
<1>21. CASE PlayEnds
  BY <1>21 DEF PlayEnds
<1>22. CASE JoinsAudio
  BY <1>22 DEF JoinsAudio, Pumps
<1>23. CASE JoinsStream
  BY <1>23 DEF JoinsStream, Pumps
<1>24. CASE Report
  BY <1>24 DEF Report, Classify, Empty
<1>25. CASE KillStarts
  BY <1>25, LeftsEnd DEF KillStarts, KillStep, Killer, Killers
<1>26. ASSUME NEW k \in Killers, Signals(k) PROVE SessionShape'
  <2>1. \A obey \in BOOLEAN : Signalled(obey) \in [Processes -> {"none", "run", "dead", "reaped"}]
    BY DEF Signalled
  <2>4. \E obey \in BOOLEAN : proc' = Signalled(obey)
    <3>1. CASE killing[k].step = "term"
      BY <1>26, <3>1 DEF Signals
    <3>2. CASE killing[k].step # "term"
      <4>1. proc' = Signalled(TRUE)
        BY <1>26, <3>2 DEF Signals
      <4> QED
        BY <4>1
    <3> QED
      BY <3>1, <3>2
  <2>5. PICK obey \in BOOLEAN : proc' = Signalled(obey)
    BY <2>4
  <2>6. Signalled(obey) \in [Processes -> {"none", "run", "dead", "reaped"}]
    BY <2>1
  <2>2. proc' \in [Processes -> {"none", "run", "dead", "reaped"}]
    BY <2>5, <2>6
  <2>3. PICK to \in {Killer("reap", Order, Empty), Killer("take", Order, Empty)} : KillStep(k, to)
    BY <1>26 DEF Signals
  <2> QED
    <3>1. killing[k].step \in {"term", "reap"} /\ to.step \in {"reap", "take"} /\ to.left = Order /\ to.saw = Empty
      <4>1. killing[k].step \in {"term", "reap"}
        BY <1>26 DEF Signals
      <4> QED
        BY <4>1, <2>3 DEF Killer
    <3>2. killing' = [killing EXCEPT ![k] = to] /\ to = Killer(to.step, Order, Empty)
      BY <2>3, <3>1 DEF KillStep, Killer
    <3>3. \A j \in Killers : killing'[j] = IF j = k THEN to ELSE killing[j]
      BY <3>2
    <3> QED
      BY <1>26, <2>2, <3>1, <3>2, <3>3, LeftsEnd DEF Signals, Killer
<1>27. ASSUME NEW k \in Killers, Reaps(k) PROVE SessionShape'
  <2>1. killing[k].left # <<>> /\ killing[k].left \in Lefts
    BY <1>27 DEF Reaps
  <2>2. Head(killing[k].left) \in Slots /\ Tail(killing[k].left) \in Lefts
    BY <2>1, LeftsEnd
  <2>3. CASE /\ slot[Head(killing[k].left)] \in Processes
             /\ proc' = [proc EXCEPT ![slot[Head(killing[k].left)]] = "reaped"]
             /\ KillStep(k, Killer("clear", killing[k].left, Empty))
    BY <1>27, <2>1, <2>3 DEF Reaps, KillStep, Killer
  <2>4. CASE KillStep(k, Killer("reap", Tail(killing[k].left), Empty)) /\ UNCHANGED proc
    BY <1>27, <2>2, <2>4 DEF Reaps, KillStep, Killer
  <2> QED
    BY <1>27, <2>2, <2>3, <2>4 DEF Reaps
<1>28. ASSUME NEW k \in Killers, Clears(k) PROVE SessionShape'
  BY <1>28, LeftsEnd DEF Clears, KillStep, Killer, Forgotten, Unreaped
<1>29. ASSUME NEW k \in Killers, Takes(k) PROVE SessionShape'
  BY <1>29, LeftsEnd DEF Takes, KillStep, Killer
<1>30. ASSUME NEW k \in Killers, Waits(k) PROVE SessionShape'
  BY <1>30, LeftsEnd DEF Waits, KillStep, Killer
<1>31. ASSUME NEW k \in Killers, KillReturns(k) PROVE SessionShape'
  <2>1. CASE k = "stop"
    <3>1. killing' = [killing EXCEPT !["stop"] = Killer("join", <<>>, Empty)] /\ UNCHANGED at
      BY <1>31, <2>1 DEF KillReturns, KillStep
    <3> QED
      BY <1>31, <3>1, LeftsEnd DEF KillReturns, Killer, Killers
  <2>2. CASE k = "session"
    <3>1. at \in {"killing", "failKilling"}
      BY <1>31, <2>2 DEF KillReturns
    <3>2. killing' = [killing EXCEPT !["session"] = Off] /\ at' \in {"joinAudio", "failJoin"}
      BY <1>31, <2>2 DEF KillReturns, KillStep
    <3> QED
      BY <1>31, <2>2, <3>1, <3>2, LeftsEnd DEF KillReturns, Killer, Off, Killers
  <2> QED
    BY <2>1, <2>2 DEF Killers
<1>32. CASE StopCalls
  BY <1>32, LeftsEnd DEF StopCalls, KillStep, Killer, Killers
<1>33. CASE StopJoins
  BY <1>33, LeftsEnd DEF StopJoins, KillStep, Killer, Killers
<1>34. CASE UNCHANGED demuxVars
  BY <1>34 DEF demuxVars
<1> QED
  BY <1>1, <1>2, <1>3, <1>4, <1>5, <1>6, <1>7, <1>8, <1>9, <1>10, <1>11, <1>12, <1>13, <1>14, <1>15, <1>16,
     <1>17, <1>18, <1>19, <1>20, <1>21, <1>22, <1>23, <1>24, <1>25, <1>26, <1>27, <1>28, <1>29, <1>30, <1>31,
     <1>32, <1>33, <1>34
     DEF DemuxNext, Progress, SetUpStep, MainStep, KillSteps

LEMMA SessionShapeHolds == DemuxSpec => []SessionShape
<1>1. ASSUME DemuxInit PROVE SessionShape
  <2>1. dcfg \in Played /\ at = "start" /\ killing = [k \in Killers |-> [step |-> "off", left |-> <<>>, saw |-> Empty]]
    BY <1>1 DEF DemuxInit
  <2>2. DemuxTypeOK
    BY <1>1 DEF DemuxInit, DemuxTypeOK, Processes, Slots, Pumps, Empty
  <2> QED
    BY <2>1, <2>2, LeftsEnd DEF SessionShape, SetUp, Killers
<1> QED
  BY <1>1, SessionShapeStep, PTL DEF DemuxSpec

\* The records, slots and places of a session keep their shape whatever is
\* played and whenever stop() comes: media_player.cpp, threadMain and
\* killChildren.
THEOREM DemuxTypeCorrect == DemuxSpec => []DemuxTypeOK
<1>1. SessionShape => DemuxTypeOK
  BY DEF SessionShape
<1> QED
  BY <1>1, SessionShapeHolds, PTL

(* What the session has answered for, at each of its places: a way out of
   set-up gives playing_ up before it kills, and the report is made once. *)
Accounts ==
    /\ at # "over" => terminal = Empty
    /\ at \in SetUp \cup Failing => ~pictured
    /\ at \in Failing => ~dPlaying
    /\ SessionAccounted

LEMMA FilterEndsInBank ==
  ASSUME NEW c \in Configs, NEW s \in Sources(c), FrameSize(c, s) = "other"
  PROVE  c.lab
<1>1. SkipScale(c, s) /\ ~s.padded /\ s.arrives = "other"
  BY DEF FrameSize
<1>2. CASE SourceIsBank(c, s)
  <2>1. c.kind # "universal"
    BY <1>1, <1>2 DEF SkipScale, CropPmsBars, SourceIsBank
  <2>2. s.arrives = s.believed /\ s.believed = "bank"
    BY <1>2, <2>1 DEF Sources, SourceIsBank
  <2> QED
    BY <1>1, <2>2
<1> QED
  BY <1>1, <1>2 DEF SkipScale

LEMMA AccountsStep ==
  ASSUME SessionShape, Accounts, [DemuxNext]_demuxVars
  PROVE  Accounts'
<1> USE DEF Accounts, SessionAccounted, SetUp, Tearing, Failing, Locals, Ends, Kills, Go, GiveUp, Empty, SkipRgb, Pattern
<1>0. /\ dcfg \in Configs /\ raw \in {"bank", "other"}
      /\ {released, wantAudio, inproc, pictured, aborted, dPlaying, dStop, fifo, early} \subseteq BOOLEAN
  BY DemuxAssumption DEF SessionShape, DemuxTypeOK
<1>1. CASE Refuse
  BY <1>0, <1>1 DEF Refuse
<1>2. CASE Plan
  <2>1. PICK s \in Sources(dcfg) : raw' = FrameSize(dcfg, s)
    BY <1>2 DEF Plan
  <2>2. raw' = "other" => dcfg.lab
    BY <1>0, <2>1, FilterEndsInBank
  <2> QED
    BY <1>0, <1>2, <2>2 DEF Plan
<1>3. CASE StreamFork
  BY <1>0, <1>3 DEF StreamFork, AfterStream
<1>4. CASE StreamStore
  BY <1>0, <1>4 DEF StreamStore, AfterStream
<1>5. CASE ReconFork
  BY <1>0, <1>5 DEF ReconFork
<1>6. CASE ReconStore
  BY <1>0, <1>6 DEF ReconStore
<1>7. CASE InprocStart
  BY <1>0, <1>7 DEF InprocStart
<1>8. CASE RemuxStore
  BY <1>0, <1>8 DEF RemuxStore
<1>9. CASE InprocOpen
  BY <1>0, <1>9 DEF InprocOpen
<1>10. CASE Pipes
  BY <1>0, <1>10 DEF Pipes
<1>11. CASE VideoFork
  BY <1>0, <1>11 DEF VideoFork
<1>12. CASE VideoStore
  BY <1>0, <1>12 DEF VideoStore
<1>13. CASE AudioFork
  BY <1>0, <1>13 DEF AudioFork
<1>14. CASE AudioStore
  BY <1>0, <1>14 DEF AudioStore
<1>15. CASE CloseEnds
  BY <1>0, <1>15 DEF CloseEnds
<1>16. ASSUME NEW p \in Processes, Exits(p) PROVE Accounts'
  BY <1>0, <1>16 DEF Exits
<1>17. CASE RemuxOpens
  BY <1>0, <1>17 DEF RemuxOpens
<1>18. ASSUME NEW t \in Pumps, APumpEnds(t) PROVE Accounts'
  BY <1>0, <1>18 DEF APumpEnds
<1>19. CASE Picture
  BY <1>0, <1>19 DEF Picture
<1>20. CASE ReconEnds
  BY <1>0, <1>20 DEF ReconEnds
<1>21. CASE PlayEnds
  BY <1>0, <1>21 DEF PlayEnds
<1>22. CASE JoinsAudio
  BY <1>0, <1>22 DEF JoinsAudio
<1>23. CASE JoinsStream
  BY <1>0, <1>23 DEF JoinsStream
<1>24. CASE Report
  BY <1>0, <1>24 DEF Report, Classify
<1>25. CASE KillStarts
  BY <1>0, <1>25 DEF KillStarts
<1>26. ASSUME NEW k \in Killers, Signals(k) PROVE Accounts'
  BY <1>0, <1>26 DEF Signals
<1>27. ASSUME NEW k \in Killers, Reaps(k) PROVE Accounts'
  BY <1>0, <1>27 DEF Reaps
<1>28. ASSUME NEW k \in Killers, Clears(k) PROVE Accounts'
  BY <1>0, <1>28 DEF Clears
<1>29. ASSUME NEW k \in Killers, Takes(k) PROVE Accounts'
  BY <1>0, <1>29 DEF Takes
<1>30. ASSUME NEW k \in Killers, Waits(k) PROVE Accounts'
  BY <1>0, <1>30 DEF Waits
<1>31. ASSUME NEW k \in Killers, KillReturns(k) PROVE Accounts'
  <2>1. CASE k = "stop"
    BY <1>0, <1>31, <2>1 DEF KillReturns
  <2>2. CASE k = "session"
    <3>1. at \in {"killing", "failKilling"}
      BY <1>31, <2>2 DEF KillReturns, SessionShape
    <3> QED
      BY <1>0, <1>31, <2>2, <3>1 DEF KillReturns
  <2> QED
    BY <2>1, <2>2 DEF Killers
<1>32. CASE StopCalls
  BY <1>0, <1>32 DEF StopCalls
<1>33. CASE StopJoins
  BY <1>0, <1>33 DEF StopJoins
<1>34. CASE UNCHANGED demuxVars
  BY <1>0, <1>34 DEF demuxVars
<1> QED
  BY <1>1, <1>2, <1>3, <1>4, <1>5, <1>6, <1>7, <1>8, <1>9, <1>10, <1>11, <1>12, <1>13, <1>14, <1>15, <1>16,
     <1>17, <1>18, <1>19, <1>20, <1>21, <1>22, <1>23, <1>24, <1>25, <1>26, <1>27, <1>28, <1>29, <1>30, <1>31,
     <1>32, <1>33, <1>34
     DEF DemuxNext, Progress, SetUpStep, MainStep, KillSteps

\* A session tells "ended" only of content that was played to its end, leaves
\* it unsaid only when it was told to stop or never pictured, and clears
\* playing_ but for a bank that breaks the contract; a picture of another size
\* than the bank's needs the lab's flag: media_player.cpp, threadMain.
THEOREM SessionAlwaysAccounted == DemuxSpec => []SessionAccounted
<1>1. DemuxInit => Accounts
  BY DEF DemuxInit, Accounts, SessionAccounted, SetUp, Failing, Empty
<1>2. Accounts => SessionAccounted
  BY DEF Accounts
<1> QED
  BY <1>1, <1>2, SessionShapeHolds, AccountsStep, PTL DEF DemuxSpec

(* NothingLeft.  A pipe end is held by the place that opened it or by the pump
   that reads it. *)
Laying == {"videoFork", "videoStore", "audioFork", "audioStore", "closeEnds"}

PipesHeld ==
    /\ "sr" \in fds => at = "streamStore" \/ pumps["stream"] = "run"
    /\ "ar" \in fds => at \in Laying \cup {"reconStore"} \/ pumps["audio"] = "run"
    /\ "vr" \in fds => at \in Laying \cup {"play"}
    /\ "vw" \in fds \/ "aw" \in fds => at \in Laying
    /\ "fifo" \in fds => at \in Laying \cup {"pipes", "play"} \cup Failing
    /\ pumps["audio"] # "none" => at \in {"recon", "play", "kill", "killing", "joinAudio"}
    /\ pumps["stream"] # "none" => at \notin {"start", "stream", "streamStore", "report", "over"}

(* Who can still reap a process: the slot that names it, the place that is
   about to name it, or the killer that waits for it. *)
StoreOf(p) == CASE p = "demux" -> {"streamStore"}
                [] p = "remux" -> {"remuxStore"}
                [] p = "video" -> {"videoStore"}
                [] p = "audio" -> {"reconStore", "audioStore"}
Awaited(p) == \E k \in Killers : killing[k].step = "wait" /\ killing[k].saw = p
Known(p)   == p \in lost \/ slot[Home(dcfg, p)] = p \/ at \in StoreOf(p) \/ Awaited(p)
Named ==
    /\ \A p \in Processes : Unreaped(p) => Known(p)
    /\ \A s \in Slots : slot[s] # Empty => Home(dcfg, slot[s]) = s

(* What the killChildren of the session has emptied stays empty: nothing is
   forked after it. *)
Behind(left) == CASE left = Order -> {}
                  [] left = <<"audioPid", "streamPid">> -> {"childPid"}
                  [] left = <<"streamPid">> -> {"childPid", "audioPid"}
                  [] OTHER -> Slots
Emptied ==
    /\ at \in {"start", "joinAudio", "joinStream", "report", "over", "failJoin"} => \A s \in Slots : slot[s] = Empty
    /\ killing["session"].step = "take" => \A s \in Behind(killing["session"].left) : slot[s] = Empty
    /\ killing["session"].step = "wait" => \A s \in Behind(After(killing["session"].left)) : slot[s] = Empty

(* A slot is stored once, but for streamPid_, which a remuxer takes over; before
   it is stored nobody can be about to clear it. *)
Before(s) == CASE s = "streamPid" -> {"start", "stream", "streamStore"}
               [] s = "childPid" -> SetUp \ {"audioFork", "audioStore", "closeEnds"}
               [] s = "audioPid" -> SetUp \ {"closeEnds"}
Clearing(k, s) == killing[k].step = "clear" /\ Head(killing[k].left) = s
FirstUse ==
    /\ \A s \in Slots : at \in Before(s) => slot[s] = Empty /\ \A k \in Killers : ~Clearing(k, s)
    /\ at \in Before("streamPid") \cup {"recon0", "reconStore", "inproc", "remuxStore"} => slot["streamPid"] # "remux"
    /\ at \in {"recon0", "reconStore"} => SkipRgb(dcfg)
    /\ at \in Laying \cup {"inproc", "remuxStore", "open", "pipes"} => ~SkipRgb(dcfg)

(* A pid is lost with the remuxer's store, or to a stop() during set-up. *)
LossExplained ==
    /\ lost # {} => proc["remux"] # "none" /\ (lost = {"demux"} \/ early)
    /\ \A k \in Killers, s \in Slots : Clearing(k, s) /\ Unreaped(slot[s]) => early /\ slot[s] = "remux"
    /\ at \in SetUp /\ killing["stop"].step # "off" => early
    /\ early => killing["stop"].step # "off"
    /\ at = "remuxStore" => proc["remux"] # "none"

LEMMA PipesHeldStep ==
  ASSUME SessionShape, PipesHeld, [DemuxNext]_demuxVars
  PROVE  PipesHeld'
<1> USE DEF PipesHeld, Laying, SetUp, Tearing, Failing, Locals, Ends, Kills, Go, GiveUp, Empty, Pumps
<1>0. /\ pumps \in [Pumps -> {"none", "run", "exited"}]
      /\ fds \subseteq {"sr", "vr", "vw", "ar", "aw", "fifo"}
      /\ at \in SetUp \cup {"recon", "play"} \cup Tearing \cup Failing
  BY DEF SessionShape, DemuxTypeOK
<1>1. CASE Refuse
  BY <1>0, <1>1 DEF Refuse
<1>2. CASE Plan
  BY <1>0, <1>2 DEF Plan
<1>3. CASE StreamFork
  BY <1>0, <1>3 DEF StreamFork, AfterStream
<1>4. CASE StreamStore
  BY <1>0, <1>4 DEF StreamStore, AfterStream
<1>5. CASE ReconFork
  BY <1>0, <1>5 DEF ReconFork
<1>6. CASE ReconStore
  BY <1>0, <1>6 DEF ReconStore
<1>7. CASE InprocStart
  BY <1>0, <1>7 DEF InprocStart
<1>8. CASE RemuxStore
  BY <1>0, <1>8 DEF RemuxStore
<1>9. CASE InprocOpen
  BY <1>0, <1>9 DEF InprocOpen
<1>10. CASE Pipes
  BY <1>0, <1>10 DEF Pipes
<1>11. CASE VideoFork
  BY <1>0, <1>11 DEF VideoFork
<1>12. CASE VideoStore
  BY <1>0, <1>12 DEF VideoStore
<1>13. CASE AudioFork
  BY <1>0, <1>13 DEF AudioFork
<1>14. CASE AudioStore
  BY <1>0, <1>14 DEF AudioStore
<1>15. CASE CloseEnds
  BY <1>0, <1>15 DEF CloseEnds
<1>16. ASSUME NEW p \in Processes, Exits(p) PROVE PipesHeld'
  BY <1>0, <1>16 DEF Exits
<1>17. CASE RemuxOpens
  BY <1>0, <1>17 DEF RemuxOpens
<1>18. ASSUME NEW t \in Pumps, APumpEnds(t) PROVE PipesHeld'
  BY <1>0, <1>18 DEF APumpEnds
<1>19. CASE Picture
  BY <1>0, <1>19 DEF Picture
<1>20. CASE ReconEnds
  BY <1>0, <1>20 DEF ReconEnds
<1>21. CASE PlayEnds
  BY <1>0, <1>21 DEF PlayEnds
<1>22. CASE JoinsAudio
  BY <1>0, <1>22 DEF JoinsAudio
<1>23. CASE JoinsStream
  BY <1>0, <1>23 DEF JoinsStream
<1>24. CASE Report
  BY <1>0, <1>24 DEF Report
<1>25. CASE KillStarts
  BY <1>0, <1>25 DEF KillStarts
<1>26. ASSUME NEW k \in Killers, Signals(k) PROVE PipesHeld'
  BY <1>0, <1>26 DEF Signals
<1>27. ASSUME NEW k \in Killers, Reaps(k) PROVE PipesHeld'
  BY <1>0, <1>27 DEF Reaps
<1>28. ASSUME NEW k \in Killers, Clears(k) PROVE PipesHeld'
  BY <1>0, <1>28 DEF Clears
<1>29. ASSUME NEW k \in Killers, Takes(k) PROVE PipesHeld'
  BY <1>0, <1>29 DEF Takes
<1>30. ASSUME NEW k \in Killers, Waits(k) PROVE PipesHeld'
  BY <1>0, <1>30 DEF Waits
<1>31. ASSUME NEW k \in Killers, KillReturns(k) PROVE PipesHeld'
  <2>1. CASE k = "stop"
    BY <1>0, <1>31, <2>1 DEF KillReturns
  <2>2. CASE k = "session"
    <3>1. at \in {"killing", "failKilling"}
      BY <1>31, <2>2 DEF KillReturns, SessionShape
    <3> QED
      BY <1>0, <1>31, <2>2, <3>1 DEF KillReturns
  <2> QED
    BY <2>1, <2>2 DEF Killers
<1>32. CASE StopCalls
  BY <1>0, <1>32 DEF StopCalls
<1>33. CASE StopJoins
  BY <1>0, <1>33 DEF StopJoins
<1>34. CASE UNCHANGED demuxVars
  BY <1>0, <1>34 DEF demuxVars
<1> QED
  BY <1>1, <1>2, <1>3, <1>4, <1>5, <1>6, <1>7, <1>8, <1>9, <1>10, <1>11, <1>12, <1>13, <1>14, <1>15, <1>16,
     <1>17, <1>18, <1>19, <1>20, <1>21, <1>22, <1>23, <1>24, <1>25, <1>26, <1>27, <1>28, <1>29, <1>30, <1>31,
     <1>32, <1>33, <1>34
     DEF DemuxNext, Progress, SetUpStep, MainStep, KillSteps

(* What a step does to the pids.  Most only move the session along, or leave it
   where it is; the others fork, store, reap or kill.                         *)
Hop(a, b) ==
    \/ a = "start" /\ b \in {"over", "stream"}
    \/ a = "stream" /\ b = AfterStream
    \/ a = "recon0" /\ b = "recon"
    \/ a = "inproc" /\ b \in {"failKill", "pipes", "open"}
    \/ a = "open" /\ b = "pipes"
    \/ a = "pipes" /\ b \in {"audioFork", "videoFork", "failKill"}
    \/ a = "videoFork" /\ b = "failKill"
    \/ a = "audioFork" /\ b = "closeEnds"
    \/ a = "closeEnds" /\ b = "play"
    \/ a \in {"recon", "play"} /\ b = "kill"
    \/ a = "joinAudio" /\ b = "joinStream"
    \/ a = "joinStream" /\ b = "report"
    \/ a \in {"failJoin", "report"} /\ b = "over"

Moves ==
    /\ at' = at \/ Hop(at, at')
    /\ UNCHANGED <<dcfg, proc, slot, killing, early, lost>>

Forks(p) ==
    /\ \/ p = "demux" /\ at = "stream" /\ at' = "streamStore"
       \/ p = "audio" /\ at = "recon0" /\ at' = "reconStore"
       \/ p = "remux" /\ at = "inproc" /\ at' = "remuxStore"
       \/ p = "video" /\ at = "videoFork" /\ at' = "videoStore"
       \/ p = "audio" /\ at = "audioFork" /\ at' = "audioStore"
    /\ Forked(p)
    /\ UNCHANGED <<dcfg, slot, killing, early, lost>>

Stores(p) ==
    /\ \/ p = "demux" /\ at = "streamStore" /\ at' = AfterStream
       \/ p = "audio" /\ at = "reconStore" /\ at' = "recon"
       \/ p = "remux" /\ at = "remuxStore" /\ at' = "open"
       \/ p = "video" /\ at = "videoStore" /\ at' = "audioFork"
       \/ p = "audio" /\ at = "audioStore" /\ at' = "closeEnds"
    /\ StorePid(p)
    /\ UNCHANGED <<dcfg, proc, killing, early>>

ReconReaps ==
    /\ at = "recon" /\ at' = "kill" /\ slot["childPid"] # Empty
    /\ proc' = [proc EXCEPT ![slot["childPid"]] = "reaped"]
    /\ slot' = [slot EXCEPT !["childPid"] = Empty]
    /\ UNCHANGED <<dcfg, killing, early, lost>>

StepKind ==
    \/ Moves \/ ReconReaps \/ KillStarts \/ StopCalls \/ StopJoins
    \/ \E p \in Processes : Forks(p) \/ Stores(p) \/ Exits(p)
    \/ \E k \in Killers : Signals(k) \/ Reaps(k) \/ Clears(k) \/ Takes(k) \/ Waits(k) \/ KillReturns(k)

LEMMA StepKinds ==
  ASSUME [DemuxNext]_demuxVars
  PROVE  StepKind
<1> USE DEF Locals, Ends, Kills, Go, GiveUp
<1>a. ASSUME NEW p \in Processes, Forks(p) \/ Stores(p) \/ Exits(p) PROVE StepKind
  BY <1>a, Zenon DEF StepKind
<1>k. ASSUME NEW k \in Killers, Signals(k) \/ Reaps(k) \/ Clears(k) \/ Takes(k) \/ Waits(k) \/ KillReturns(k)
      PROVE  StepKind
  BY <1>k, Zenon DEF StepKind
<1>m. Moves => StepKind
  BY Zenon DEF StepKind
<1>p. {"demux", "remux", "video", "audio"} \subseteq Processes
  BY DEF Processes
<1>1. CASE Refuse
  <2>1. Moves
    BY <1>1 DEF Refuse, Moves, Hop
  <2> QED
    BY <2>1, <1>m
<1>2. CASE Plan
  <2>1. Moves
    BY <1>2 DEF Plan, Moves, Hop
  <2> QED
    BY <2>1, <1>m
<1>3. CASE StreamFork
  <2>1. Moves \/ Forks("demux")
    BY <1>3 DEF StreamFork, Moves, Hop, Forks
  <2> QED
    BY <2>1, <1>a, <1>m, <1>p
<1>4. CASE StreamStore
  <2>1. Stores("demux")
    BY <1>4 DEF StreamStore, Stores
  <2> QED
    BY <2>1, <1>a, <1>p
<1>5. CASE ReconFork
  <2>1. Moves \/ Forks("audio")
    BY <1>5 DEF ReconFork, Moves, Hop, Forks
  <2> QED
    BY <2>1, <1>a, <1>m, <1>p
<1>6. CASE ReconStore
  <2>1. Stores("audio")
    BY <1>6 DEF ReconStore, Stores
  <2> QED
    BY <2>1, <1>a, <1>p
<1>7. CASE InprocStart
  <2>1. Moves \/ Forks("remux")
    BY <1>7 DEF InprocStart, Moves, Hop, Forks
  <2> QED
    BY <2>1, <1>a, <1>m, <1>p
<1>8. CASE RemuxStore
  <2>1. Stores("remux")
    BY <1>8 DEF RemuxStore, Stores
  <2> QED
    BY <2>1, <1>a, <1>p
<1>9. CASE InprocOpen
  <2>1. Moves
    BY <1>9 DEF InprocOpen, Moves, Hop
  <2> QED
    BY <2>1, <1>m
<1>10. CASE Pipes
  <2>1. Moves
    BY <1>10 DEF Pipes, Moves, Hop
  <2> QED
    BY <2>1, <1>m
<1>11. CASE VideoFork
  <2>1. Moves \/ Forks("video")
    BY <1>11 DEF VideoFork, Moves, Hop, Forks
  <2> QED
    BY <2>1, <1>a, <1>m, <1>p
<1>12. CASE VideoStore
  <2>1. Stores("video")
    BY <1>12 DEF VideoStore, Stores
  <2> QED
    BY <2>1, <1>a, <1>p
<1>13. CASE AudioFork
  <2>1. Moves \/ Forks("audio")
    BY <1>13 DEF AudioFork, Moves, Hop, Forks
  <2> QED
    BY <2>1, <1>a, <1>m, <1>p
<1>14. CASE AudioStore
  <2>1. Stores("audio")
    BY <1>14 DEF AudioStore, Stores
  <2> QED
    BY <2>1, <1>a, <1>p
<1>15. CASE CloseEnds
  <2>1. Moves
    BY <1>15 DEF CloseEnds, Moves, Hop
  <2> QED
    BY <2>1, <1>m
<1>16. ASSUME NEW p \in Processes, Exits(p) PROVE StepKind
  BY <1>16, <1>a
<1>17. CASE RemuxOpens
  <2>1. Moves
    BY <1>17 DEF RemuxOpens, Moves, Hop
  <2> QED
    BY <2>1, <1>m
<1>18. ASSUME NEW t \in Pumps, APumpEnds(t) PROVE StepKind
  <2>1. Moves
    BY <1>18 DEF APumpEnds, Moves
  <2> QED
    BY <2>1, <1>m
<1>19. CASE Picture
  <2>1. Moves
    BY <1>19 DEF Picture, Moves, Hop
  <2> QED
    BY <2>1, <1>m
<1>20. CASE ReconEnds
  <2>1. Moves \/ ReconReaps
    BY <1>20 DEF ReconEnds, Moves, Hop, ReconReaps
  <2> QED
    BY <2>1, <1>m DEF StepKind
<1>21. CASE PlayEnds
  <2>1. Moves
    BY <1>21 DEF PlayEnds, Moves, Hop
  <2> QED
    BY <2>1, <1>m
<1>22. CASE JoinsAudio
  <2>1. Moves
    BY <1>22 DEF JoinsAudio, Moves, Hop
  <2> QED
    BY <2>1, <1>m
<1>23. CASE JoinsStream
  <2>1. Moves
    BY <1>23 DEF JoinsStream, Moves, Hop
  <2> QED
    BY <2>1, <1>m
<1>24. CASE Report
  <2>1. Moves
    BY <1>24 DEF Report, Moves, Hop
  <2> QED
    BY <2>1, <1>m
<1>25. CASE KillStarts
  BY <1>25, Zenon DEF StepKind
<1>26. ASSUME NEW k \in Killers, Signals(k) PROVE StepKind
  BY <1>26, <1>k
<1>27. ASSUME NEW k \in Killers, Reaps(k) PROVE StepKind
  BY <1>27, <1>k
<1>28. ASSUME NEW k \in Killers, Clears(k) PROVE StepKind
  BY <1>28, <1>k
<1>29. ASSUME NEW k \in Killers, Takes(k) PROVE StepKind
  BY <1>29, <1>k
<1>30. ASSUME NEW k \in Killers, Waits(k) PROVE StepKind
  BY <1>30, <1>k
<1>31. ASSUME NEW k \in Killers, KillReturns(k) PROVE StepKind
  BY <1>31, <1>k
<1>32. CASE StopCalls
  BY <1>32, Zenon DEF StepKind
<1>33. CASE StopJoins
  BY <1>33, Zenon DEF StepKind
<1>34. CASE UNCHANGED demuxVars
  <2>1. Moves
    BY <1>34 DEF demuxVars, Moves
  <2> QED
    BY <2>1, <1>m
<1> QED
  BY <1>1, <1>2, <1>3, <1>4, <1>5, <1>6, <1>7, <1>8, <1>9, <1>10, <1>11, <1>12, <1>13, <1>14, <1>15, <1>16,
     <1>17, <1>18, <1>19, <1>20, <1>21, <1>22, <1>23, <1>24, <1>25, <1>26, <1>27, <1>28, <1>29, <1>30, <1>31,
     <1>32, <1>33, <1>34, Zenon
     DEF DemuxNext, Progress, SetUpStep, MainStep, KillSteps

LEMMA KillPoint ==
  ASSUME SessionShape, NEW k \in Killers, NEW to, KillStep(k, to)
  PROVE  killing'[k] = to /\ \A j \in Killers : j # k => killing'[j] = killing[j]
BY DEF SessionShape, KillStep

(* A killer that does not wait, and does not begin to, leaves the awaited. *)
LEMMA AwaitedStays ==
  ASSUME SessionShape, NEW k \in Killers, NEW to, KillStep(k, to), killing[k].step # "wait", NEW p
  PROVE  Awaited(p) => Awaited(p)'
<1>1. \A j \in Killers : j # k => killing'[j] = killing[j]
  BY KillPoint
<1> QED
  BY <1>1 DEF Awaited

LEMMA NamedStep ==
  ASSUME SessionShape, Named, [DemuxNext]_demuxVars
  PROVE  Named'
<1>0. /\ slot \in [Slots -> Processes \cup {Empty}] /\ proc \in [Processes -> {"none", "run", "dead", "reaped"}]
      /\ lost \subseteq Processes /\ Empty \notin Processes
      /\ \A p \in Processes : Home(dcfg, p) \in Slots
  BY DEF SessionShape, DemuxTypeOK, Home, Processes, Slots, Empty
<1>n. /\ \A p \in Processes : Unreaped(p) => Known(p)
      /\ \A s \in Slots : slot[s] # Empty => Home(dcfg, slot[s]) = s
  BY DEF Named
<1>d. dcfg' = dcfg
  BY StepKinds DEF StepKind, Moves, ReconReaps, KillStarts, StopCalls, StopJoins, Forks, Stores, Exits, Signals, Reaps,
     Clears, Takes, Waits, KillReturns, Locals
<1>h. \A p : Home(dcfg, p)' = Home(dcfg, p)
  BY <1>d DEF Home, SkipRgb, Pattern
(* Steps that only reap or end processes, and keep the slots and the waits. *)
<1>q. ASSUME UNCHANGED slot, lost \subseteq lost',
             \A p \in Processes : Unreaped(p)' => Unreaped(p),
             \A p \in Processes : Unreaped(p)' /\ at \in StoreOf(p) => at' \in StoreOf(p),
             \A p \in Processes : Unreaped(p)' /\ Awaited(p) => Awaited(p)'
      PROVE  Named'
  <2>1. ASSUME NEW p \in Processes, Unreaped(p)' PROVE Known(p)'
    <3>1. Known(p)
      BY <2>1, <1>q, <1>n
    <3>2. slot[Home(dcfg, p)] = p => (slot[Home(dcfg, p)] = p)'
      BY <1>h, <1>q
    <3> QED
      BY <3>1, <3>2, <2>1, <1>q DEF Known
  <2>2. \A s \in Slots : slot'[s] # Empty => Home(dcfg', slot'[s]) = s
    BY <1>n, <1>h, <1>d, <1>q
  <2> QED
    BY <2>1, <2>2 DEF Named
<1>1. CASE Moves
  <2>1. \A p : Unreaped(p)' = Unreaped(p) /\ Awaited(p)' = Awaited(p)
    BY <1>1 DEF Moves, Unreaped, Awaited
  <2>2. \A p \in Processes : at \in StoreOf(p) => at' \in StoreOf(p)
    BY <1>1 DEF Moves, Hop, StoreOf, Processes
  <2> QED
    BY <1>1, <1>q, <2>1, <2>2 DEF Moves
<1>2. CASE ReconReaps
  <2>1. PICK q \in Processes : slot["childPid"] = q
    BY <1>2, <1>0 DEF ReconReaps, Slots
  <2>2. slot' = [slot EXCEPT !["childPid"] = Empty] /\ proc' = [proc EXCEPT ![q] = "reaped"]
    BY <1>2, <2>1 DEF ReconReaps
  <2>3. ASSUME NEW p \in Processes, Unreaped(p)' PROVE Known(p)'
    <3>1. p # q /\ Unreaped(p)
      BY <2>2, <2>3, <1>0 DEF Unreaped
    <3>2. Known(p) /\ at \notin StoreOf(p)
      BY <3>1, <1>n, <1>2 DEF ReconReaps, StoreOf, Processes
    <3>3. Awaited(p) => Awaited(p)'
      BY <1>2 DEF ReconReaps, Awaited
    <3>4. slot[Home(dcfg, p)] = p => slot'[Home(dcfg, p)] = p
      BY <3>1, <2>1, <2>2, <1>0
    <3> QED
      BY <3>2, <3>3, <3>4, <1>h, <1>2 DEF Known, ReconReaps
  <2>4. \A s \in Slots : slot'[s] # Empty => Home(dcfg', slot'[s]) = s
    BY <2>2, <1>0, <1>n, <1>h, <1>d
  <2> QED
    BY <2>3, <2>4 DEF Named
<1>3. ASSUME NEW f \in Processes, Forks(f) PROVE Named'
  <2>1. ASSUME NEW p \in Processes, Unreaped(p)' PROVE Known(p)'
    <3>1. CASE p = f
      BY <1>3, <3>1 DEF Forks, Known, StoreOf
    <3>2. CASE p # f
      <4>1. Unreaped(p)
        BY <2>1, <3>2, <1>3, <1>0 DEF Forks, Forked, Unreaped
      <4>2. at \notin StoreOf(p)
        BY <1>3 DEF Forks, StoreOf, Processes
      <4>3. Awaited(p) => Awaited(p)'
        BY <1>3 DEF Forks, Awaited
      <4> QED
        BY <4>1, <4>2, <4>3, <1>n, <1>h, <1>3 DEF Known, Forks
    <3> QED
      BY <3>1, <3>2
  <2>2. \A s \in Slots : slot'[s] # Empty => Home(dcfg', slot'[s]) = s
    BY <1>3, <1>n, <1>h, <1>d DEF Forks
  <2> QED
    BY <2>1, <2>2 DEF Named
<1>4. ASSUME NEW f \in Processes, Stores(f) PROVE Named'
  <2>0. /\ slot' = [slot EXCEPT ![Home(dcfg, f)] = f] /\ lost' = lost \cup Forgotten(Home(dcfg, f))
        /\ UNCHANGED <<proc, killing>> /\ at \in StoreOf(f)
    BY <1>4 DEF Stores, StorePid, StoreOf
  <2>1. ASSUME NEW p \in Processes, Unreaped(p)' PROVE Known(p)'
    <3>1. CASE p = f
      BY <2>0, <3>1, <1>0, <1>h DEF Known
    <3>2. CASE p # f
      <4>1. Unreaped(p)
        BY <2>0, <2>1 DEF Unreaped
      <4>2. at \notin StoreOf(p)
        BY <2>0, <3>2 DEF StoreOf, Processes
      <4>3. Awaited(p) => Awaited(p)'
        BY <2>0 DEF Awaited
      <4>4. CASE slot[Home(dcfg, p)] = p
        <5>1. CASE Home(dcfg, p) = Home(dcfg, f)
          BY <2>0, <4>1, <4>4, <5>1 DEF Known, Forgotten
        <5>2. CASE Home(dcfg, p) # Home(dcfg, f)
          BY <2>0, <4>4, <5>2, <1>0, <1>h DEF Known
        <5> QED
          BY <5>1, <5>2
      <4> QED
        BY <2>0, <4>1, <4>2, <4>3, <4>4, <1>n DEF Known
    <3> QED
      BY <3>1, <3>2
  <2>2. \A s \in Slots : slot'[s] # Empty => Home(dcfg', slot'[s]) = s
    BY <2>0, <1>0, <1>n, <1>h, <1>d
  <2> QED
    BY <2>1, <2>2 DEF Named
<1>5. ASSUME NEW f \in Processes, Exits(f) PROVE Named'
  <2>1. \A p \in Processes : Unreaped(p)' => Unreaped(p)
    BY <1>5, <1>0 DEF Exits, Unreaped
  <2>2. \A p : Awaited(p) => Awaited(p)'
    BY <1>5 DEF Exits, Awaited, Kills
  <2> QED
    BY <1>5, <1>q, <2>1, <2>2 DEF Exits
<1>6. CASE KillStarts
  <2>1. \A p : Unreaped(p)' => Unreaped(p)
    BY <1>6 DEF KillStarts, Unreaped
  <2>2. \A p : Awaited(p) => Awaited(p)'
    <3>1. KillStep("session", Killer("term", <<>>, Empty)) /\ killing["session"].step # "wait" /\ "session" \in Killers
      BY <1>6 DEF KillStarts, Killers
    <3> QED
      BY <3>1, AwaitedStays
  <2>3. \A p \in Processes : at \notin StoreOf(p)
    BY <1>6 DEF KillStarts, StoreOf, Processes
  <2> QED
    BY <1>6, <1>q, <2>1, <2>2, <2>3 DEF KillStarts
<1>7. ASSUME NEW k \in Killers, Signals(k) PROVE Named'
  <2>1. \A obey \in BOOLEAN : \A p \in Processes : Signalled(obey)[p] = proc[p] \/ (proc[p] = "run" /\ Signalled(obey)[p] = "dead")
    BY DEF Signalled
  <2>2. \E obey \in BOOLEAN : proc' = Signalled(obey)
    BY <1>7 DEF Signals
  <2>3. \A p \in Processes : Unreaped(p)' => Unreaped(p)
    BY <2>1, <2>2, <1>0 DEF Unreaped
  <2>4. killing[k].step # "wait" /\ UNCHANGED <<at, slot, lost>>
    BY <1>7 DEF Signals
  <2>5. PICK to : KillStep(k, to)
    BY <1>7 DEF Signals
  <2>6. \A p : Awaited(p) => Awaited(p)'
    BY <2>4, <2>5, AwaitedStays
  <2> QED
    BY <1>q, <2>3, <2>4, <2>6
<1>8. ASSUME NEW k \in Killers, Reaps(k) PROVE Named'
  <2>1. killing[k].step # "wait" /\ UNCHANGED <<at, slot, lost>>
    BY <1>8 DEF Reaps
  <2>2. PICK to : KillStep(k, to)
    BY <1>8 DEF Reaps
  <2>3. \A p : Awaited(p) => Awaited(p)'
    BY <2>1, <2>2, AwaitedStays
  <2>4. \A p \in Processes : Unreaped(p)' => Unreaped(p)
    <3>1. (\E q : proc' = [proc EXCEPT ![q] = "reaped"]) \/ proc' = proc
      BY <1>8 DEF Reaps
    <3> QED
      BY <3>1, <1>0 DEF Unreaped
  <2> QED
    BY <1>q, <2>1, <2>3, <2>4
<1>9. ASSUME NEW k \in Killers, Clears(k) PROVE Named'
  <2>0. /\ slot' = [slot EXCEPT ![Head(killing[k].left)] = Empty] /\ lost' = lost \cup Forgotten(Head(killing[k].left))
        /\ UNCHANGED <<at, proc>> /\ killing[k].step # "wait"
        /\ KillStep(k, Killer("reap", Tail(killing[k].left), Empty))
    BY <1>9 DEF Clears
  <2>1. \A p : Awaited(p) => Awaited(p)'
    BY <2>0, AwaitedStays
  <2>2. ASSUME NEW p \in Processes, Unreaped(p)' PROVE Known(p)'
    <3>1. Unreaped(p) /\ Known(p)
      BY <2>0, <2>2, <1>n DEF Unreaped
    <3>2. CASE slot[Home(dcfg, p)] = p
      <4>1. CASE Home(dcfg, p) = Head(killing[k].left)
        BY <2>0, <3>1, <3>2, <4>1 DEF Known, Forgotten
      <4>2. CASE Home(dcfg, p) # Head(killing[k].left)
        BY <2>0, <3>2, <4>2, <1>0, <1>h DEF Known
      <4> QED
        BY <4>1, <4>2
    <3> QED
      BY <2>0, <2>1, <3>1, <3>2 DEF Known
  <2>3. \A s \in Slots : slot'[s] # Empty => Home(dcfg', slot'[s]) = s
    BY <2>0, <1>0, <1>n, <1>h, <1>d
  <2> QED
    BY <2>2, <2>3 DEF Named
<1>10. ASSUME NEW k \in Killers, Takes(k) PROVE Named'
  <2>0. /\ slot' = [slot EXCEPT ![Head(killing[k].left)] = Empty]
        /\ UNCHANGED <<at, proc, lost>> /\ killing[k].step # "wait" /\ Head(killing[k].left) \in Slots
    BY <1>10, LeftsEnd DEF Takes, SessionShape
  <2>1. PICK q \in Processes \cup {Empty} : slot[Head(killing[k].left)] = q
    BY <2>0, <1>0
  <2>2. KillStep(k, IF q = Empty THEN Killer("take", Tail(killing[k].left), Empty) ELSE Killer("wait", killing[k].left, q))
    BY <1>10, <2>1 DEF Takes
  <2>3. \A p : Awaited(p) => Awaited(p)'
    BY <2>0, <2>2, AwaitedStays
  <2>4. q # Empty => Awaited(q)'
    <3>1. q # Empty => killing'[k] = Killer("wait", killing[k].left, q)
      BY <2>2, KillPoint
    <3> QED
      BY <3>1 DEF Awaited, Killer
  <2>5. ASSUME NEW p \in Processes, Unreaped(p)' PROVE Known(p)'
    <3>1. Unreaped(p) /\ Known(p)
      BY <2>0, <2>5, <1>n DEF Unreaped
    <3>2. CASE slot[Home(dcfg, p)] = p
      <4>1. CASE Home(dcfg, p) = Head(killing[k].left)
        BY <2>1, <2>4, <3>2, <4>1, <1>0 DEF Known
      <4>2. CASE Home(dcfg, p) # Head(killing[k].left)
        BY <2>0, <3>2, <4>2, <1>0, <1>h DEF Known
      <4> QED
        BY <4>1, <4>2
    <3> QED
      BY <2>0, <2>3, <3>1, <3>2 DEF Known
  <2>6. \A s \in Slots : slot'[s] # Empty => Home(dcfg', slot'[s]) = s
    BY <2>0, <1>0, <1>n, <1>h, <1>d
  <2> QED
    BY <2>5, <2>6 DEF Named
<1>11. ASSUME NEW k \in Killers, Waits(k) PROVE Named'
  <2>1. /\ UNCHANGED <<at, slot, lost>> /\ proc' = [proc EXCEPT ![killing[k].saw] = "reaped"]
        /\ KillStep(k, Killer("take", Tail(killing[k].left), Empty)) /\ killing[k].saw \in Processes
    BY <1>11 DEF Waits, SessionShape
  <2>2. \A j \in Killers : j # k => killing'[j] = killing[j]
    BY <2>1, KillPoint
  <2>3. \A p \in Processes : Unreaped(p)' => Unreaped(p) /\ p # killing[k].saw
    BY <2>1, <1>0 DEF Unreaped
  <2>4. \A p \in Processes : Unreaped(p)' /\ Awaited(p) => Awaited(p)'
    BY <2>2, <2>3 DEF Awaited
  <2> QED
    BY <1>q, <2>1, <2>3, <2>4
<1>12. ASSUME NEW k \in Killers, KillReturns(k) PROVE Named'
  <2>1. killing[k].step # "wait" /\ UNCHANGED <<proc, slot, lost>>
    BY <1>12 DEF KillReturns
  <2>2. PICK to : KillStep(k, to)
    BY <1>12 DEF KillReturns
  <2>3. \A p : Awaited(p) => Awaited(p)'
    BY <2>1, <2>2, AwaitedStays
  <2>4. \A p \in Processes : at \in StoreOf(p) => at' \in StoreOf(p)
    <3>1. CASE k = "stop"
      BY <1>12, <3>1 DEF KillReturns
    <3>2. CASE k = "session"
      BY <1>12, <3>2 DEF KillReturns, SessionShape, StoreOf, Processes
    <3> QED
      BY <3>1, <3>2 DEF Killers
  <2>5. \A p : Unreaped(p)' => Unreaped(p)
    BY <2>1 DEF Unreaped
  <2> QED
    BY <1>q, <2>1, <2>3, <2>4, <2>5
<1>13. CASE StopCalls \/ StopJoins
  <2>1. "stop" \in Killers /\ killing["stop"].step # "wait" /\ \E to : KillStep("stop", to)
    BY <1>13 DEF StopCalls, StopJoins, Killers
  <2>2. UNCHANGED <<at, proc, slot, lost>>
    BY <1>13 DEF StopCalls, StopJoins
  <2>3. \A p : Awaited(p) => Awaited(p)'
    BY <2>1, AwaitedStays
  <2>4. \A p : Unreaped(p)' => Unreaped(p)
    BY <2>2 DEF Unreaped
  <2> QED
    BY <1>q, <2>2, <2>3, <2>4
<1> QED
  BY StepKinds, <1>1, <1>2, <1>3, <1>4, <1>5, <1>6, <1>7, <1>8, <1>9, <1>10, <1>11, <1>12, <1>13, Zenon DEF StepKind

LEMMA BehindGrows ==
  /\ \A left \in Lefts : left # <<>> => Behind(After(left)) = Behind(left) \cup {Head(left)}
  /\ Behind(<<>>) = Slots /\ Behind(Order) = {}
<1>1. Order # <<"audioPid", "streamPid">> /\ <<"streamPid">> # <<"audioPid", "streamPid">> /\ <<"streamPid">> # Order
      /\ Order # <<>> /\ <<"streamPid">> # <<>> /\ <<"audioPid", "streamPid">> # <<>>
  BY DEF Order
<1>2. Head(Order) = "childPid" /\ Head(<<"audioPid", "streamPid">>) = "audioPid" /\ Head(<<"streamPid">>) = "streamPid"
  BY DEF Order
<1> QED
  BY <1>1, <1>2 DEF Lefts, Behind, After, Slots

LEMMA EmptiedStep ==
  ASSUME SessionShape, Emptied, [DemuxNext]_demuxVars
  PROVE  Emptied'
<1> DEFINE Taken == /\ killing["session"].step = "take" => \A s \in Behind(killing["session"].left) : slot[s] = Empty
                    /\ killing["session"].step = "wait" => \A s \in Behind(After(killing["session"].left)) : slot[s] = Empty
           Done == {"start", "joinAudio", "joinStream", "report", "over", "failJoin"}
<1>0. /\ slot \in [Slots -> Processes \cup {Empty}] /\ "session" \in Killers
      /\ at \in SetUp \cup {"recon", "play"} \cup Tearing \cup Failing
      /\ \A k \in Killers : killing[k].step \in {"take", "clear", "wait", "reap"} /\ killing[k].left # <<>> => Head(killing[k].left) \in Slots
  BY LeftsEnd DEF SessionShape, DemuxTypeOK, Killers
<1>1. (at \in Done => \A s \in Slots : slot[s] = Empty) /\ Taken
  BY DEF Emptied
<1>2. ASSUME (at' \in Done => \A s \in Slots : slot'[s] = Empty), Taken' PROVE Emptied'
  BY <1>2 DEF Emptied
<1>s. \A left : Behind(left)' = Behind(left) /\ After(left)' = After(left)
  BY DEF Behind, After
(* A slot that is Empty stays so: nothing is stored. *)
<1>q. ASSUME \A s \in Slots : slot[s] = Empty => slot'[s] = Empty, at' \in Done => at \in Done, UNCHANGED killing["session"]
      PROVE  Emptied'
  <2>1. \A left : Behind(left) \subseteq Slots
    BY DEF Behind, Slots
  <2>2. Taken'
    BY <1>q, <1>1, <2>1, <1>s
  <2> QED
    BY <1>q, <1>1, <1>2, <2>2
<1>3. CASE Moves \/ ReconReaps
  <2>1. at' \in Done => at \in Done
    BY <1>3 DEF Moves, Hop, ReconReaps, AfterStream
  <2>2. \A s \in Slots : slot[s] = Empty => slot'[s] = Empty
    BY <1>3, <1>0 DEF Moves, ReconReaps
  <2> QED
    BY <1>3, <1>q, <2>1, <2>2 DEF Moves, ReconReaps
<1>4. ASSUME NEW p \in Processes, Forks(p) PROVE Emptied'
  BY <1>4, <1>q DEF Forks
<1>5. ASSUME NEW p \in Processes, Stores(p) PROVE Emptied'
  <2>1. at' \notin Done /\ at \in SetUp /\ UNCHANGED killing
    BY <1>5 DEF Stores, AfterStream, SetUp
  <2>2. killing["session"].step = "off"
    BY <2>1 DEF SessionShape, SetUp
  <2> QED
    BY <2>1, <2>2, <1>2
<1>6. ASSUME NEW p \in Processes, Exits(p) PROVE Emptied'
  BY <1>6, <1>q DEF Exits, Kills
<1>7. CASE KillStarts
  <2>1. killing'["session"].step = "term" /\ at' \notin Done
    BY <1>7, <1>0, KillPoint DEF KillStarts, Killer, Go
  <2> QED
    BY <2>1, <1>2
(* The other killer's steps. *)
<1>8. ASSUME NEW to, KillStep("stop", to), UNCHANGED at, \A s \in Slots : slot[s] = Empty => slot'[s] = Empty
      PROVE  Emptied'
  BY <1>8, <1>q, <1>0, KillPoint DEF Killers
<1>9. CASE StopCalls \/ StopJoins
  <2>1. UNCHANGED <<at, slot>> /\ \E to : KillStep("stop", to)
    BY <1>9 DEF StopCalls, StopJoins
  <2> QED
    BY <2>1, <1>8
<1>10. ASSUME NEW k \in Killers, Signals(k) PROVE Emptied'
  <2>1. UNCHANGED <<at, slot>> /\ (KillStep(k, Killer("reap", Order, Empty)) \/ KillStep(k, Killer("take", Order, Empty)))
    BY <1>10 DEF Signals
  <2>2. CASE k = "session"
    <3>1. killing'["session"].step \in {"reap", "take"} /\ killing'["session"].left = Order
      BY <2>1, <2>2, KillPoint DEF Killer
    <3>2. Behind(killing'["session"].left) = {}
      BY <3>1, BehindGrows
    <3>3. Taken'
      BY <3>1, <3>2, <1>s
    <3> QED
      BY <3>3, <2>1, <1>1, <1>2
  <2> QED
    BY <2>1, <2>2, <1>8 DEF Killers
<1>11. ASSUME NEW k \in Killers, Reaps(k) PROVE Emptied'
  <2>1. PICK to \in {Killer("clear", killing[k].left, Empty), Killer("reap", Tail(killing[k].left), Empty)} : KillStep(k, to)
    BY <1>11 DEF Reaps
  <2>2. UNCHANGED <<at, slot>>
    BY <1>11 DEF Reaps
  <2>3. CASE k = "session"
    <3>1. killing'["session"].step \in {"reap", "clear"}
      BY <2>1, <2>3, KillPoint DEF Killer
    <3>2. Taken'
      BY <3>1
    <3> QED
      BY <3>2, <2>2, <1>1, <1>2
  <2> QED
    BY <2>1, <2>2, <2>3, <1>8 DEF Killers
<1>12. ASSUME NEW k \in Killers, Clears(k) PROVE Emptied'
  <2>1. /\ UNCHANGED at /\ KillStep(k, Killer("reap", Tail(killing[k].left), Empty))
        /\ slot' = [slot EXCEPT ![Head(killing[k].left)] = Empty]
    BY <1>12 DEF Clears
  <2>2. \A s \in Slots : slot[s] = Empty => slot'[s] = Empty
    BY <2>1, <1>0
  <2>3. CASE k = "session"
    <3>1. killing'["session"].step = "reap"
      BY <2>1, <2>3, KillPoint DEF Killer
    <3>2. Taken'
      BY <3>1
    <3> QED
      BY <3>2, <2>1, <2>2, <1>1, <1>2
  <2> QED
    BY <2>1, <2>2, <2>3, <1>8 DEF Killers
<1>13. ASSUME NEW k \in Killers, Takes(k) PROVE Emptied'
  <2>1. /\ UNCHANGED at /\ killing[k].step = "take" /\ killing[k].left # <<>> /\ killing[k].left \in Lefts
        /\ slot' = [slot EXCEPT ![Head(killing[k].left)] = Empty]
    BY <1>13 DEF Takes, SessionShape
  <2>2. PICK to \in {Killer("take", Tail(killing[k].left), Empty)} \cup
                    {Killer("wait", killing[k].left, q) : q \in Processes \cup {Empty}} : KillStep(k, to)
    <3>1. slot[Head(killing[k].left)] \in Processes \cup {Empty}
      BY <2>1, <1>0
    <3> QED
      BY <1>13, <3>1 DEF Takes
  <2>3. \A s \in Slots : slot[s] = Empty => slot'[s] = Empty
    BY <2>1, <1>0
  <2>4. CASE k = "session"
    <3>1. /\ killing'["session"].step = "take" => killing'["session"].left = After(killing["session"].left)
          /\ killing'["session"].step = "wait" => killing'["session"].left = killing["session"].left
      <4>1. Tail(killing[k].left) = After(killing[k].left)
        BY <2>1, LeftsEnd
      <4>2. killing'[k] = Killer("take", Tail(killing[k].left), Empty)
              \/ \E q : killing'[k] = Killer("wait", killing[k].left, q)
        BY <2>2, KillPoint
      <4>3. CASE killing'[k] = Killer("take", Tail(killing[k].left), Empty)
        <5>0. killing'["session"] = [step |-> "take", left |-> Tail(killing[k].left), saw |-> Empty]
          BY <4>3, <2>4 DEF Killer
        <5>1. killing'["session"].step = "take" /\ killing'["session"].left = Tail(killing[k].left)
          BY <5>0
        <5> QED
          BY <4>1, <5>1, <2>4
      <4>4. ASSUME NEW q, killing'[k] = Killer("wait", killing[k].left, q)
            PROVE  killing'["session"].step = "wait" /\ killing'["session"].left = killing["session"].left
        BY <4>4, <2>4 DEF Killer
      <4> QED
        BY <4>2, <4>3, <4>4
    <3>2. \A s \in Behind(After(killing["session"].left)) : slot'[s] = Empty
      <4>1. Behind(After(killing["session"].left)) = Behind(killing["session"].left) \cup {Head(killing["session"].left)}
        BY <2>1, <2>4, BehindGrows
      <4>2. \A s \in Behind(killing["session"].left) : slot[s] = Empty /\ s \in Slots
        BY <2>1, <2>4, <1>1 DEF Behind, Slots
      <4> QED
        BY <4>1, <4>2, <2>1, <2>3, <2>4, <1>0
    <3>3. Taken'
      BY <3>1, <3>2, <1>s
    <3> QED
      BY <3>3, <2>1, <2>3, <1>1, <1>2
  <2> QED
    BY <2>1, <2>2, <2>3, <2>4, <1>8 DEF Killers
<1>14. ASSUME NEW k \in Killers, Waits(k) PROVE Emptied'
  <2>1. /\ UNCHANGED <<at, slot>> /\ KillStep(k, Killer("take", Tail(killing[k].left), Empty))
        /\ killing[k].step = "wait" /\ killing[k].left # <<>> /\ killing[k].left \in Lefts
    BY <1>14 DEF Waits, SessionShape
  <2>2. CASE k = "session"
    <3>1. killing'["session"].step = "take" /\ killing'["session"].left = After(killing["session"].left)
      <4>1. Tail(killing[k].left) = After(killing[k].left)
        BY <2>1, LeftsEnd
      <4>2. killing'[k] = Killer("take", Tail(killing[k].left), Empty)
        BY <2>1, KillPoint
      <4>3. killing'["session"] = [step |-> "take", left |-> Tail(killing[k].left), saw |-> Empty]
        BY <4>2, <2>2 DEF Killer
      <4>4. killing'["session"].step = "take" /\ killing'["session"].left = Tail(killing[k].left)
        BY <4>3
      <4> QED
        BY <4>1, <4>4, <2>2
    <3>2. Taken'
      BY <3>1, <2>1, <2>2, <1>1, <1>s
    <3> QED
      BY <3>2, <2>1, <1>1, <1>2
  <2> QED
    BY <2>1, <2>2, <1>8 DEF Killers
<1>15. ASSUME NEW k \in Killers, KillReturns(k) PROVE Emptied'
  <2>1. CASE k = "stop"
    BY <1>15, <2>1, <1>8 DEF KillReturns
  <2>2. CASE k = "session"
    <3>1. \A s \in Slots : slot'[s] = Empty
      BY <1>15, <2>2, <1>1, BehindGrows DEF KillReturns
    <3>2. killing'["session"] = Off
      BY <1>15, <2>2, KillPoint DEF KillReturns
    <3> QED
      BY <3>1, <3>2, <1>2 DEF Off, Killer
  <2> QED
    BY <2>1, <2>2 DEF Killers
<1> QED
  BY StepKinds, <1>3, <1>4, <1>5, <1>6, <1>7, <1>9, <1>10, <1>11, <1>12, <1>13, <1>14, <1>15, Zenon DEF StepKind

LEMMA FirstUseStep ==
  ASSUME SessionShape, Named, Emptied, FirstUse, [DemuxNext]_demuxVars
  PROVE  FirstUse'
<1> DEFINE NoRemux == Before("streamPid") \cup {"recon0", "reconStore", "inproc", "remuxStore"}
           Split   == Laying \cup {"inproc", "remuxStore", "open", "pipes"}
<1>0. /\ slot \in [Slots -> Processes \cup {Empty}] /\ Slots = {"childPid", "audioPid", "streamPid"}
      /\ at \in SetUp \cup {"recon", "play"} \cup Tearing \cup Failing
      /\ dcfg' = dcfg
  <2>1. dcfg' = dcfg
    BY StepKinds DEF StepKind, Moves, ReconReaps, KillStarts, StopCalls, StopJoins, Forks, Stores, Exits, Signals, Reaps,
       Clears, Takes, Waits, KillReturns, Locals
  <2> QED
    BY <2>1 DEF SessionShape, DemuxTypeOK, Slots
<1>1. /\ \A s \in Slots : at \in Before(s) => slot[s] = Empty /\ \A k \in Killers : ~Clearing(k, s)
      /\ at \in NoRemux => slot["streamPid"] # "remux"
      /\ at \in {"recon0", "reconStore"} => SkipRgb(dcfg)
      /\ at \in Split => ~SkipRgb(dcfg)
  BY DEF FirstUse
<1>2. ASSUME \A s \in Slots : at' \in Before(s) => slot'[s] = Empty /\ \A k \in Killers : ~Clearing(k, s)',
             at' \in NoRemux => slot'["streamPid"] # "remux",
             at' \in {"recon0", "reconStore"} => SkipRgb(dcfg),
             at' \in Split => ~SkipRgb(dcfg)
      PROVE  FirstUse'
  BY <1>2, <1>0 DEF FirstUse, Before, SkipRgb, Pattern
(* Nothing is stored, and nobody begins to clear. *)
<1>q. ASSUME \A s \in Slots : at' \in Before(s) => at \in Before(s),
             at' \in NoRemux => at \in NoRemux,
             \A s \in Slots : slot'[s] = slot[s] \/ slot'[s] = Empty,
             \A k \in Killers, s \in Slots : at' \in Before(s) /\ Clearing(k, s)' => Clearing(k, s),
             at' \in {"recon0", "reconStore"} => SkipRgb(dcfg),
             at' \in Split => ~SkipRgb(dcfg)
      PROVE  FirstUse'
  <2>1. \A s \in Slots : at' \in Before(s) => slot'[s] = Empty /\ \A k \in Killers : ~Clearing(k, s)'
    BY <1>q, <1>1
  <2>2. at' \in NoRemux => slot'["streamPid"] # "remux"
    BY <1>q, <1>1, <1>0 DEF Empty
  <2> QED
    BY <1>q, <1>2, <2>1, <2>2
<1>3. CASE Moves
  <2>1. \A s \in Slots : at' \in Before(s) => at \in Before(s)
    BY <1>3, <1>0 DEF Moves, Hop, Before, SetUp, AfterStream
  <2>2. at' \in NoRemux => at \in NoRemux
    BY <1>3 DEF Moves, Hop, Before, AfterStream
  <2>3. at' \in {"recon0", "reconStore"} => SkipRgb(dcfg)
    BY <1>3, <1>1 DEF Moves, Hop, AfterStream
  <2>4. at' \in Split => ~SkipRgb(dcfg)
    BY <1>3, <1>1 DEF Moves, Hop, AfterStream, Laying
  <2>5. \A k, s : Clearing(k, s)' = Clearing(k, s)
    BY <1>3 DEF Moves, Clearing
  <2> QED
    BY <1>3, <1>q, <2>1, <2>2, <2>3, <2>4, <2>5 DEF Moves
<1>4. CASE ReconReaps
  <2>1. at' \notin NoRemux /\ at' \notin {"recon0", "reconStore"} /\ at' \notin Split /\ \A s \in Slots : at' \notin Before(s)
    BY <1>4, <1>0 DEF ReconReaps, Laying, Before, SetUp
  <2> QED
    BY <2>1, <1>2
<1>5. ASSUME NEW p \in Processes, Forks(p) PROVE FirstUse'
  <2>1. \A s \in Slots : at' \in Before(s) => at \in Before(s)
    BY <1>5, <1>0 DEF Forks, Before, SetUp
  <2>2. at' \in NoRemux => at \in NoRemux
    BY <1>5 DEF Forks, Before
  <2>3. at' \in {"recon0", "reconStore"} => SkipRgb(dcfg)
    BY <1>5, <1>1 DEF Forks
  <2>4. at' \in Split => ~SkipRgb(dcfg)
    BY <1>5, <1>1 DEF Forks, Laying
  <2>5. \A k, s : Clearing(k, s)' = Clearing(k, s)
    BY <1>5 DEF Forks, Clearing
  <2> QED
    BY <1>5, <1>q, <2>1, <2>2, <2>3, <2>4, <2>5 DEF Forks
<1>6. ASSUME NEW p \in Processes, Stores(p) PROVE FirstUse'
  <2>1. \A k, s : Clearing(k, s)' = Clearing(k, s)
    BY <1>6 DEF Stores, Clearing
  <2>2. slot' = [slot EXCEPT ![Home(dcfg, p)] = p]
    BY <1>6 DEF Stores, StorePid
  <2>3. \A s \in Slots : at' \in Before(s) => at \in Before(s) /\ s # Home(dcfg, p)
    BY <1>6, <1>0, <1>1 DEF Stores, Before, SetUp, Home, AfterStream, Laying
  <2>4. \A s \in Slots : at' \in Before(s) => slot'[s] = Empty /\ \A k \in Killers : ~Clearing(k, s)'
    BY <2>1, <2>2, <2>3, <1>0, <1>1
  <2>5. at' \in NoRemux => at \in NoRemux /\ p # "remux"
    BY <1>6 DEF Stores, Before, AfterStream
  <2>6. at' \in NoRemux => slot'["streamPid"] # "remux"
    BY <2>2, <2>5, <1>0, <1>1
  <2>7. at' \in {"recon0", "reconStore"} => SkipRgb(dcfg)
    BY <1>6, <1>1 DEF Stores, AfterStream
  <2>8. at' \in Split => ~SkipRgb(dcfg)
    BY <1>6, <1>1 DEF Stores, AfterStream, Laying
  <2> QED
    BY <1>2, <2>4, <2>6, <2>7, <2>8
<1>7. ASSUME NEW p \in Processes, Exits(p) PROVE FirstUse'
  <2>1. \A k, s : Clearing(k, s)' = Clearing(k, s)
    BY <1>7 DEF Exits, Kills, Clearing
  <2> QED
    BY <1>7, <1>q, <1>1, <2>1 DEF Exits
(* A killer's step that clears nothing anew. *)
<1>8. ASSUME NEW k \in Killers, NEW to, KillStep(k, to), UNCHANGED at, to.step # "clear",
             \A s \in Slots : slot'[s] = slot[s] \/ slot'[s] = Empty
      PROVE  FirstUse'
  <2>1. killing'[k] = to /\ \A j \in Killers : j # k => killing'[j] = killing[j]
    BY <1>8, KillPoint
  <2>2. \A j \in Killers, s \in Slots : Clearing(j, s)' => Clearing(j, s)
    BY <2>1, <1>8 DEF Clearing
  <2> QED
    BY <1>8, <1>q, <1>1, <2>2
<1>9. CASE KillStarts
  <2>1. at' \notin NoRemux /\ at' \notin {"recon0", "reconStore"} /\ at' \notin Split /\ \A s \in Slots : at' \notin Before(s)
    BY <1>9, <1>0 DEF KillStarts, Laying, Before, SetUp, Go
  <2> QED
    BY <2>1, <1>2
<1>10. CASE StopCalls \/ StopJoins
  <2>1. PICK to \in {Killer("term", <<>>, Empty), Killer("returned", <<>>, Empty)} : KillStep("stop", to)
    BY <1>10 DEF StopCalls, StopJoins
  <2>2. UNCHANGED <<at, slot>> /\ "stop" \in Killers /\ to.step # "clear"
    BY <1>10 DEF StopCalls, StopJoins, Killers, Killer
  <2> QED
    BY <2>1, <2>2, <1>8
<1>11. ASSUME NEW k \in Killers, Signals(k) PROVE FirstUse'
  <2>1. PICK to \in {Killer("reap", Order, Empty), Killer("take", Order, Empty)} : KillStep(k, to)
    BY <1>11 DEF Signals
  <2>2. UNCHANGED <<at, slot>> /\ to.step # "clear"
    BY <1>11 DEF Signals, Killer
  <2> QED
    BY <2>1, <2>2, <1>8
<1>12. ASSUME NEW k \in Killers, Reaps(k) PROVE FirstUse'
  <2>1. UNCHANGED <<at, slot>>
    BY <1>12 DEF Reaps
  <2>2. CASE slot[Head(killing[k].left)] # Empty /\ KillStep(k, Killer("clear", killing[k].left, Empty))
    <3>1. killing'[k] = Killer("clear", killing[k].left, Empty) /\ \A j \in Killers : j # k => killing'[j] = killing[j]
      BY <2>2, KillPoint
    <3>2. \A j \in Killers, s \in Slots : Clearing(j, s)' => Clearing(j, s) \/ s = Head(killing[k].left)
      BY <3>1 DEF Clearing, Killer
    <3>3. \A j \in Killers, s \in Slots : at' \in Before(s) /\ Clearing(j, s)' => Clearing(j, s)
      BY <2>1, <2>2, <3>2, <1>1
    <3> QED
      BY <2>1, <3>3, <1>1, <1>q
  <2>3. CASE KillStep(k, Killer("reap", Tail(killing[k].left), Empty))
    BY <2>1, <2>3, <1>8 DEF Killer
  <2> QED
    BY <1>12, <2>2, <2>3 DEF Reaps
<1>13. ASSUME NEW k \in Killers, Clears(k) PROVE FirstUse'
  <2>1. /\ UNCHANGED at /\ KillStep(k, Killer("reap", Tail(killing[k].left), Empty))
        /\ slot' = [slot EXCEPT ![Head(killing[k].left)] = Empty]
    BY <1>13 DEF Clears
  <2>2. \A s \in Slots : slot'[s] = slot[s] \/ slot'[s] = Empty
    BY <2>1, <1>0
  <2> QED
    BY <2>1, <2>2, <1>8 DEF Killer
<1>14. ASSUME NEW k \in Killers, Takes(k) PROVE FirstUse'
  <2>1. /\ UNCHANGED at /\ slot' = [slot EXCEPT ![Head(killing[k].left)] = Empty]
    BY <1>14 DEF Takes
  <2>2. PICK to \in {Killer("take", Tail(killing[k].left), Empty), Killer("wait", killing[k].left, slot[Head(killing[k].left)])} :
          KillStep(k, to)
    BY <1>14 DEF Takes
  <2>3. \A s \in Slots : slot'[s] = slot[s] \/ slot'[s] = Empty
    BY <2>1, <1>0
  <2> QED
    BY <2>1, <2>2, <2>3, <1>8 DEF Killer
<1>15. ASSUME NEW k \in Killers, Waits(k) PROVE FirstUse'
  <2>1. UNCHANGED <<at, slot>> /\ KillStep(k, Killer("take", Tail(killing[k].left), Empty))
    BY <1>15 DEF Waits
  <2> QED
    BY <2>1, <1>8 DEF Killer
<1>16. ASSUME NEW k \in Killers, KillReturns(k) PROVE FirstUse'
  <2>1. CASE k = "stop"
    <3>1. UNCHANGED <<at, slot>> /\ KillStep(k, Killer("join", <<>>, Empty))
      BY <1>16, <2>1 DEF KillReturns
    <3> QED
      BY <3>1, <1>8 DEF Killer
  <2>2. CASE k = "session"
    <3>1. at' \in {"joinAudio", "failJoin"}
      BY <1>16, <2>2 DEF KillReturns, Go
    <3>2. at' \notin NoRemux /\ at' \notin {"recon0", "reconStore"} /\ at' \notin Split /\ \A s \in Slots : at' \notin Before(s)
      BY <3>1, <1>0 DEF Laying, Before, SetUp
    <3> QED
      BY <3>2, <1>2
  <2> QED
    BY <2>1, <2>2 DEF Killers
<1> QED
  BY StepKinds, <1>3, <1>4, <1>5, <1>6, <1>7, <1>9, <1>10, <1>11, <1>12, <1>13, <1>14, <1>15, <1>16, Zenon DEF StepKind

LEMMA LossStep ==
  ASSUME SessionShape, Named, Emptied, FirstUse, LossExplained, [DemuxNext]_demuxVars
  PROVE  LossExplained'
<1>0. /\ slot \in [Slots -> Processes \cup {Empty}] /\ proc \in [Processes -> {"none", "run", "dead", "reaped"}]
      /\ lost \subseteq Processes /\ early \in BOOLEAN /\ "remux" \in Processes /\ "stop" \in Killers /\ "session" \in Killers
      /\ Killers = {"session", "stop"} /\ \A p \in Processes : Home(dcfg, p) \in Slots
      /\ Slots = {"childPid", "audioPid", "streamPid"} /\ Empty \notin Processes
      /\ at \in SetUp => killing["session"].step = "off"
  BY DEF SessionShape, DemuxTypeOK, Killers, Slots, Home, Processes, SetUp, Empty
<1>1. /\ lost # {} => proc["remux"] # "none" /\ (lost = {"demux"} \/ early)
      /\ \A k \in Killers, s \in Slots : Clearing(k, s) /\ Unreaped(slot[s]) => early /\ slot[s] = "remux"
      /\ at \in SetUp /\ killing["stop"].step # "off" => early
      /\ early => killing["stop"].step # "off"
      /\ at = "remuxStore" => proc["remux"] # "none"
  BY DEF LossExplained
(* No pid is forgotten, no process forks, and nobody begins to clear a slot whose process runs. *)
<1>q. ASSUME UNCHANGED <<lost, early>>, at' \in SetUp => at \in SetUp, at' = "remuxStore" => at = "remuxStore",
             killing'["stop"].step = "off" <=> killing["stop"].step = "off",
             proc["remux"] # "none" => proc'["remux"] # "none",
             \A k \in Killers, s \in Slots : Clearing(k, s)' /\ Unreaped(slot[s])' => Clearing(k, s) /\ Unreaped(slot[s]) /\ slot'[s] = slot[s]
      PROVE  LossExplained'
  BY <1>q, <1>1 DEF LossExplained
<1>2. CASE Moves
  <2>1. (at' \in SetUp => at \in SetUp) /\ (at' = "remuxStore" => at = "remuxStore")
    BY <1>2 DEF Moves, Hop, SetUp, AfterStream
  <2>2. \A k, s : Clearing(k, s)' = Clearing(k, s) /\ Unreaped(slot[s])' = Unreaped(slot[s])
    BY <1>2 DEF Moves, Clearing, Unreaped
  <2> QED
    BY <1>2, <1>q, <2>1, <2>2 DEF Moves
<1>3. CASE ReconReaps
  <2>1. at' \notin SetUp /\ at' # "remuxStore" /\ UNCHANGED <<lost, early, killing>>
    BY <1>3 DEF ReconReaps, SetUp
  <2>2. \A k, s : Clearing(k, s)' = Clearing(k, s)
    BY <1>3 DEF ReconReaps, Clearing
  <2>3. \A s \in Slots : Unreaped(slot[s])' => Unreaped(slot[s]) /\ slot'[s] = slot[s]
    BY <1>3, <1>0 DEF ReconReaps, Unreaped
  <2>4. proc["remux"] # "none" => proc'["remux"] # "none"
    BY <1>3, <1>0 DEF ReconReaps
  <2> QED
    BY <1>q, <2>1, <2>2, <2>3, <2>4
<1>4. ASSUME NEW p \in Processes, Forks(p) PROVE LossExplained'
  <2>1. UNCHANGED <<slot, killing, early, lost>> /\ proc' = [proc EXCEPT ![p] = "run"] /\ at \in SetUp
        /\ (at' = "remuxStore" => p = "remux")
    BY <1>4 DEF Forks, Forked, SetUp
  <2>2. \A s \in Slots : slot[s] # p
    <3>1. at \in Before(Home(dcfg, p)) \/ p = "remux"
      BY <1>4 DEF Forks, Before, Home, SetUp, FirstUse, Laying
    <3>2. \A s \in Slots : at \in Before(s) => slot[s] = Empty
      BY DEF FirstUse
    <3>3. p = "remux" => slot["streamPid"] # "remux" /\ Home(dcfg, p) = "streamPid"
      BY <1>4 DEF Forks, FirstUse, Home
    <3>4. \A s \in Slots : slot[s] = p => s = Home(dcfg, p)
      BY <1>0 DEF Named
    <3> QED
      BY <3>1, <3>2, <3>3, <3>4, <1>0
  <2>3. \A k, s : Clearing(k, s)' = Clearing(k, s)
    BY <2>1 DEF Clearing
  <2>4. \A s \in Slots : Unreaped(slot[s])' => Unreaped(slot[s])
    BY <2>1, <2>2, <1>0 DEF Unreaped
  <2>5. (proc["remux"] # "none" => proc'["remux"] # "none") /\ (p = "remux" => proc'["remux"] # "none")
    BY <2>1, <1>0
  <2> QED
    BY <2>1, <2>3, <2>4, <2>5, <1>1, <1>0 DEF LossExplained
<1>5. ASSUME NEW p \in Processes, Stores(p) PROVE LossExplained'
  <2>1. UNCHANGED <<proc, killing, early>> /\ slot' = [slot EXCEPT ![Home(dcfg, p)] = p]
        /\ lost' = lost \cup Forgotten(Home(dcfg, p)) /\ at \in SetUp
    BY <1>5 DEF Stores, StorePid, SetUp
  <2>2. at \in Before(Home(dcfg, p)) \/ (p = "remux" /\ at = "remuxStore")
    BY <1>5 DEF Stores, Before, Home, SetUp, FirstUse, Laying
  <2>3. CASE at \in Before(Home(dcfg, p))
    <3>1. slot[Home(dcfg, p)] = Empty /\ \A k \in Killers : ~Clearing(k, Home(dcfg, p))
      BY <2>3, <1>0 DEF FirstUse
    <3>2. lost' = lost
      BY <3>1, <2>1, <1>0 DEF Forgotten, Unreaped
    <3>3. \A k, s : Clearing(k, s)' = Clearing(k, s)
      BY <2>1 DEF Clearing
    <3>4. \A k \in Killers, s \in Slots : Clearing(k, s) => slot'[s] = slot[s]
      BY <3>1, <2>1, <1>0
    <3>5. \A x : (Unreaped(x) <=> x \in Processes /\ proc'[x] \in {"run", "dead"})
      BY <2>1 DEF Unreaped
    <3>6. at' # "remuxStore"
      BY <1>5 DEF Stores, AfterStream
    <3> QED
      BY <3>2, <3>3, <3>4, <3>5, <3>6, <2>1, <1>1 DEF LossExplained, Unreaped
  <2>4. CASE p = "remux" /\ at = "remuxStore"
    <3>1. Home(dcfg, p) = "streamPid" /\ proc["remux"] # "none"
      BY <2>4, <1>1 DEF Home
    <3>2. slot["streamPid"] \in {Empty, "demux"}
      <4>1. slot["streamPid"] # "remux"
        BY <2>4 DEF FirstUse
      <4>2. slot["streamPid"] # Empty => Home(dcfg, slot["streamPid"]) = "streamPid"
        BY <1>0 DEF Named
      <4>3. \A r \in {"video", "audio"} : Home(dcfg, r) # "streamPid"
        BY DEF Home
      <4> QED
        BY <4>1, <4>2, <4>3, <1>0 DEF Processes
    <3>3. lost' = lost \/ lost' = lost \cup {"demux"}
      BY <3>1, <3>2, <2>1, <1>0 DEF Forgotten, Unreaped
    <3>4. at' # "remuxStore"
      BY <1>5, <2>4 DEF Stores
    <3>5. \A k, s : Clearing(k, s)' = Clearing(k, s)
      BY <2>1 DEF Clearing
    <3>6. \A x : (Unreaped(x) <=> x \in Processes /\ proc'[x] \in {"run", "dead"})
      BY <2>1 DEF Unreaped
    <3>7. \A k \in Killers, s \in Slots : Clearing(k, s) => early
      <4>1. \A k \in Killers, s \in Slots : Clearing(k, s) => k = "stop" /\ killing["stop"].step # "off"
        BY <2>1, <1>0 DEF Clearing
      <4> QED
        BY <4>1, <2>1, <1>1
    <3>8. \A k \in Killers, s \in Slots : Clearing(k, s) /\ Unreaped(slot[s])' => early /\ slot'[s] = "remux"
      <4>1. \A s \in Slots : slot'[s] = IF s = "streamPid" THEN "remux" ELSE slot[s]
        BY <2>1, <3>1, <2>4, <1>0
      <4> QED
        BY <4>1, <3>6, <3>7, <1>1 DEF Unreaped
    <3>9. lost' # {} => proc'["remux"] # "none" /\ (lost' = {"demux"} \/ early')
      BY <3>1, <3>3, <2>1, <1>1
    <3> QED
      BY <3>4, <3>5, <3>8, <3>9, <2>1, <1>1 DEF LossExplained
  <2> QED
    BY <2>2, <2>3, <2>4
<1>6. ASSUME NEW p \in Processes, Exits(p) PROVE LossExplained'
  <2>1. UNCHANGED <<at, slot, killing, early, lost>> /\ proc' = [proc EXCEPT ![p] = "dead"] /\ proc[p] = "run"
    BY <1>6 DEF Exits, Kills
  <2>2. \A k, s : Clearing(k, s)' = Clearing(k, s)
    BY <2>1 DEF Clearing
  <2>3. \A s \in Slots : Unreaped(slot[s])' => Unreaped(slot[s])
    BY <2>1, <1>0 DEF Unreaped
  <2>4. proc["remux"] # "none" => proc'["remux"] # "none"
    BY <2>1, <1>0
  <2> QED
    BY <1>q, <2>1, <2>2, <2>3, <2>4
<1>7. CASE KillStarts
  <2>1. UNCHANGED <<proc, slot, early, lost>> /\ KillStep("session", Killer("term", <<>>, Empty))
    BY <1>7 DEF KillStarts
  <2>2. at' \notin SetUp /\ at' # "remuxStore"
    BY <1>7 DEF KillStarts, SetUp, Go
  <2>3. killing'["session"] = Killer("term", <<>>, Empty) /\ killing'["stop"] = killing["stop"]
    BY <2>1, <1>0, KillPoint
  <2>4. \A k \in Killers, s \in Slots : Clearing(k, s)' => Clearing(k, s)
    BY <2>3, <1>0 DEF Clearing, Killer
  <2>5. \A s : Unreaped(slot[s])' => Unreaped(slot[s])
    BY <2>1 DEF Unreaped
  <2> QED
    BY <1>q, <2>1, <2>2, <2>3, <2>4, <2>5
<1>8. CASE StopCalls
  <2>1. UNCHANGED <<at, proc, slot, lost>> /\ KillStep("stop", Killer("term", <<>>, Empty)) /\ early' = (at \in SetUp)
        /\ killing["stop"].step = "off"
    BY <1>8 DEF StopCalls
  <2>2. killing'["stop"] = Killer("term", <<>>, Empty) /\ killing'["session"] = killing["session"]
    BY <2>1, <1>0, KillPoint
  <2>3. killing'["stop"].step = "term"
    BY <2>2 DEF Killer
  <2>4. ~early
    BY <2>1, <1>1
  <2>5. \A k \in Killers, s \in Slots : Clearing(k, s)' => Clearing(k, s)
    BY <2>2, <2>3, <1>0 DEF Clearing
  <2>6. \A s : Unreaped(slot[s])' => Unreaped(slot[s])
    BY <2>1 DEF Unreaped
  <2>7. \A k \in Killers, s \in Slots : ~(Clearing(k, s)' /\ Unreaped(slot[s])')
    BY <2>4, <2>5, <2>6, <1>1
  <2> QED
    BY <2>1, <2>3, <2>4, <2>7, <1>1 DEF LossExplained
(* A killer's step that reaps at most, and clears nothing anew. *)
<1>9. ASSUME NEW k \in Killers, NEW to, KillStep(k, to), killing[k].step # "off", to.step \notin {"off", "clear"},
             UNCHANGED <<at, early, lost>>, \A s \in Slots : slot'[s] = slot[s] \/ slot'[s] = Empty,
             \A p \in Processes : Unreaped(p)' => Unreaped(p), proc["remux"] # "none" => proc'["remux"] # "none"
      PROVE  LossExplained'
  <2>1. killing'[k] = to /\ \A j \in Killers : j # k => killing'[j] = killing[j]
    BY <1>9, KillPoint
  <2>2. \A j \in Killers, s \in Slots : Clearing(j, s)' => Clearing(j, s)
    BY <2>1, <1>9 DEF Clearing
  <2>3. \A s \in Slots : Unreaped(slot[s])' => Unreaped(slot[s]) /\ slot'[s] = slot[s]
    BY <1>9, <1>0 DEF Unreaped
  <2>4. killing'["stop"].step = "off" <=> killing["stop"].step = "off"
    BY <2>1, <1>9, <1>0
  <2> QED
    BY <1>9, <1>q, <2>2, <2>3, <2>4
<1>10. CASE StopJoins
  <2>1. UNCHANGED <<at, proc, slot, early, lost>> /\ KillStep("stop", Killer("returned", <<>>, Empty)) /\ killing["stop"].step # "off"
    BY <1>10 DEF StopJoins
  <2>2. \A p \in Processes : Unreaped(p)' => Unreaped(p)
    BY <2>1 DEF Unreaped
  <2> QED
    BY <1>9, <1>0, <2>1, <2>2 DEF Killer
<1>11. ASSUME NEW k \in Killers, Signals(k) PROVE LossExplained'
  <2>1. PICK to \in {Killer("reap", Order, Empty), Killer("take", Order, Empty)} : KillStep(k, to)
    BY <1>11 DEF Signals
  <2>2. UNCHANGED <<at, slot, early, lost>> /\ to.step \notin {"off", "clear"} /\ killing[k].step # "off"
    <3>1. to.step \in {"reap", "take"}
      BY <2>1 DEF Killer
    <3>2. UNCHANGED <<at, slot, early, lost>> /\ killing[k].step \in {"term", "reap"}
      BY <1>11 DEF Signals
    <3> QED
      BY <3>1, <3>2
  <2>3. \A obey \in BOOLEAN : \A p \in Processes : Signalled(obey)[p] = proc[p] \/ (proc[p] = "run" /\ Signalled(obey)[p] = "dead")
    BY DEF Signalled
  <2>4. \E obey \in BOOLEAN : proc' = Signalled(obey)
    BY <1>11 DEF Signals
  <2>5. \A p \in Processes : Unreaped(p)' => Unreaped(p)
    BY <2>3, <2>4, <1>0 DEF Unreaped
  <2>6. proc["remux"] # "none" => proc'["remux"] # "none"
    BY <2>3, <2>4, <1>0
  <2> QED
    BY <2>1, <2>2, <2>5, <2>6, <1>9
<1>12. ASSUME NEW k \in Killers, Reaps(k) PROVE LossExplained'
  <2>1. UNCHANGED <<at, slot, early, lost>> /\ killing[k].step # "off"
    BY <1>12 DEF Reaps
  <2>2. CASE /\ slot[Head(killing[k].left)] # Empty /\ KillStep(k, Killer("clear", killing[k].left, Empty))
             /\ proc' = [proc EXCEPT ![slot[Head(killing[k].left)]] = "reaped"]
    <3>1. killing'[k] = Killer("clear", killing[k].left, Empty) /\ \A j \in Killers : j # k => killing'[j] = killing[j]
      BY <2>2, KillPoint
    <3>2. \A j \in Killers, s \in Slots : Clearing(j, s)' => Clearing(j, s) \/ s = Head(killing[k].left)
      BY <3>1 DEF Clearing, Killer
    <3>3. \A s \in Slots : Unreaped(slot[s])' => Unreaped(slot[s]) /\ s # Head(killing[k].left)
      BY <2>1, <2>2, <1>0 DEF Unreaped
    <3>4. proc["remux"] # "none" => proc'["remux"] # "none"
      BY <2>2, <1>0
    <3>5. killing'["stop"].step = "off" <=> killing["stop"].step = "off"
      BY <2>1, <3>1, <1>0 DEF Killer
    <3> QED
      BY <2>1, <3>2, <3>3, <3>4, <3>5, <1>q
  <2>3. CASE KillStep(k, Killer("reap", Tail(killing[k].left), Empty)) /\ UNCHANGED proc
    <3>1. \A p \in Processes : Unreaped(p)' => Unreaped(p)
      BY <2>3 DEF Unreaped
    <3> QED
      BY <2>1, <2>3, <3>1, <1>9 DEF Killer
  <2> QED
    BY <1>12, <2>2, <2>3 DEF Reaps
<1>13. ASSUME NEW k \in Killers, Clears(k) PROVE LossExplained'
  <2>1. /\ UNCHANGED <<at, proc, early>> /\ KillStep(k, Killer("reap", Tail(killing[k].left), Empty))
        /\ slot' = [slot EXCEPT ![Head(killing[k].left)] = Empty]
        /\ lost' = lost \cup Forgotten(Head(killing[k].left)) /\ killing[k].step = "clear"
    BY <1>13 DEF Clears
  <2>2. Head(killing[k].left) \in Slots
    BY <2>1, LeftsEnd DEF SessionShape
  <2>3. Unreaped(slot[Head(killing[k].left)]) => early /\ slot[Head(killing[k].left)] = "remux" /\ proc["remux"] # "none"
    BY <2>1, <2>2, <1>1 DEF Clearing, Unreaped
  <2>4. lost' # {} => proc'["remux"] # "none" /\ (lost' = {"demux"} \/ early')
    BY <2>1, <2>3, <1>1 DEF Forgotten
  <2>5. killing'[k] = Killer("reap", Tail(killing[k].left), Empty) /\ \A j \in Killers : j # k => killing'[j] = killing[j]
    BY <2>1, KillPoint
  <2>6. \A j \in Killers, s \in Slots : Clearing(j, s)' => Clearing(j, s)
    BY <2>5 DEF Clearing, Killer
  <2>7. \A s \in Slots : Unreaped(slot[s])' => Unreaped(slot[s]) /\ slot'[s] = slot[s]
    BY <2>1, <1>0 DEF Unreaped
  <2>8. killing'["stop"].step = "off" <=> killing["stop"].step = "off"
    BY <2>1, <2>5, <1>0 DEF Killer
  <2> QED
    BY <2>1, <2>4, <2>6, <2>7, <2>8, <1>1 DEF LossExplained
<1>14. ASSUME NEW k \in Killers, Takes(k) PROVE LossExplained'
  <2>1. /\ UNCHANGED <<at, proc, early, lost>> /\ slot' = [slot EXCEPT ![Head(killing[k].left)] = Empty]
        /\ killing[k].step # "off"
    BY <1>14 DEF Takes
  <2>2. PICK to \in {Killer("take", Tail(killing[k].left), Empty), Killer("wait", killing[k].left, slot[Head(killing[k].left)])} :
          KillStep(k, to)
    BY <1>14 DEF Takes
  <2>3. \A s \in Slots : slot'[s] = slot[s] \/ slot'[s] = Empty
    BY <2>1, <1>0
  <2>4. \A p \in Processes : Unreaped(p)' => Unreaped(p)
    BY <2>1 DEF Unreaped
  <2> QED
    BY <2>1, <2>2, <2>3, <2>4, <1>9 DEF Killer
<1>15. ASSUME NEW k \in Killers, Waits(k) PROVE LossExplained'
  <2>1. /\ UNCHANGED <<at, slot, early, lost>> /\ KillStep(k, Killer("take", Tail(killing[k].left), Empty))
        /\ proc' = [proc EXCEPT ![killing[k].saw] = "reaped"] /\ killing[k].step # "off"
    BY <1>15 DEF Waits
  <2>2. \A p \in Processes : Unreaped(p)' => Unreaped(p)
    BY <2>1, <1>0 DEF Unreaped
  <2>3. proc["remux"] # "none" => proc'["remux"] # "none"
    BY <2>1, <1>0
  <2> QED
    BY <2>1, <2>2, <2>3, <1>9 DEF Killer
<1>16. ASSUME NEW k \in Killers, KillReturns(k) PROVE LossExplained'
  <2>1. UNCHANGED <<proc, slot, early, lost>>
    BY <1>16 DEF KillReturns
  <2>2. \A p : Unreaped(p)' => Unreaped(p)
    BY <2>1 DEF Unreaped
  <2>3. CASE k = "stop"
    <3>1. UNCHANGED at /\ KillStep(k, Killer("join", <<>>, Empty)) /\ killing[k].step # "off"
      BY <1>16, <2>3 DEF KillReturns
    <3> QED
      BY <3>1, <2>1, <2>2, <1>9 DEF Killer
  <2>4. CASE k = "session"
    <3>1. at' \in {"joinAudio", "failJoin"} /\ KillStep("session", Off)
      BY <1>16, <2>4 DEF KillReturns, Go
    <3>2. killing'["session"] = Off /\ killing'["stop"] = killing["stop"]
      BY <3>1, <1>0, KillPoint
    <3>3. at' \notin SetUp /\ at' # "remuxStore"
      BY <3>1 DEF SetUp
    <3>4. \A j \in Killers, s \in Slots : Clearing(j, s)' => Clearing(j, s)
      BY <3>2, <1>0 DEF Clearing, Off, Killer
    <3>5. \A s \in Slots : Unreaped(slot[s])' => Unreaped(slot[s])
      BY <2>1 DEF Unreaped
    <3> QED
      BY <3>2, <3>3, <3>4, <3>5, <2>1, <1>q
  <2> QED
    BY <2>3, <2>4, <1>0
<1> QED
  BY StepKinds, <1>2, <1>3, <1>4, <1>5, <1>6, <1>7, <1>8, <1>10, <1>11, <1>12, <1>13, <1>14, <1>15, <1>16, Zenon DEF StepKind

Teardown == PipesHeld /\ Named /\ Emptied /\ FirstUse /\ LossExplained

LEMMA TeardownHolds == DemuxSpec => []Teardown
<1>1. ASSUME DemuxInit PROVE Teardown
  <2>1. /\ at = "start" /\ fds = {} /\ lost = {} /\ early = FALSE
        /\ proc = [p \in Processes |-> "none"] /\ slot = [s \in Slots |-> Empty] /\ pumps = [t \in Pumps |-> "none"]
        /\ killing = [k \in Killers |-> [step |-> "off", left |-> <<>>, saw |-> Empty]]
    BY <1>1 DEF DemuxInit
  <2>2. PipesHeld
    BY <2>1 DEF PipesHeld, Pumps
  <2>3. Named
    BY <2>1 DEF Named, Unreaped
  <2>4. Emptied
    BY <2>1 DEF Emptied, Killers
  <2>5. FirstUse
    BY <2>1 DEF FirstUse, Clearing, Laying, Slots, Empty
  <2>6. LossExplained
    BY <2>1 DEF LossExplained, Clearing, Killers
  <2> QED
    BY <2>2, <2>3, <2>4, <2>5, <2>6 DEF Teardown
<1>2. SessionShape /\ Teardown /\ [DemuxNext]_demuxVars => Teardown'
  BY PipesHeldStep, NamedStep, EmptiedStep, FirstUseStep, LossStep DEF Teardown
<1> QED
  BY <1>1, <1>2, SessionShapeHolds, PTL DEF DemuxSpec

\* Whatever stop() does meanwhile, a session that is over has closed its pipes,
\* joined its pumps and reaped every FFmpeg that a pid slot still named; a pid
\* leaves its slot unreaped only to the remuxer that takes streamPid_ over, or
\* to a stop() that comes during set-up: media_player.cpp, threadMain and
\* killChildren.
THEOREM SessionLeavesNothing == DemuxSpec => []NothingLeft
<1>1. ASSUME SessionShape, Teardown PROVE NothingLeft
  <2> SUFFICES ASSUME at = "over", killing["stop"].step \in {"off", "join", "returned"}
               PROVE  /\ fds = {} /\ \A t \in Pumps : pumps[t] = "none"
                      /\ \A p \in Processes : Unreaped(p) => p \in lost
                      /\ lost # {} => proc["remux"] # "none" /\ (lost = {"demux"} \/ early)
    BY DEF NothingLeft
  <2>1. pumps["audio"] = "none" /\ pumps["stream"] = "none"
    BY <1>1 DEF Teardown, PipesHeld
  <2>2. \A t \in Pumps : pumps[t] = "none"
    BY <2>1 DEF Pumps
  <2>3. fds \subseteq {"sr", "vr", "vw", "ar", "aw", "fifo"}
    BY <1>1 DEF SessionShape, DemuxTypeOK
  <2>4. fds = {}
    BY <1>1, <2>1, <2>3 DEF Teardown, PipesHeld, Laying, Failing
  <2>5. \A k \in Killers : killing[k].step # "wait"
    BY <1>1 DEF SessionShape, Killers
  <2>6. \A s \in Slots : slot[s] = Empty
    BY <1>1 DEF Teardown, Emptied
  <2>7. ASSUME NEW p \in Processes, Unreaped(p) PROVE p \in lost
    <3>1. Known(p)
      BY <1>1, <2>7 DEF Teardown, Named
    <3>2. at \notin StoreOf(p) /\ Home(dcfg, p) \in Slots /\ p # Empty
      BY DEF StoreOf, Home, Processes, Slots, Empty
    <3> QED
      BY <3>1, <3>2, <2>5, <2>6 DEF Known, Awaited
  <2> QED
    BY <2>2, <2>4, <2>7, <1>1 DEF Teardown, LossExplained
<1> QED
  BY <1>1, TeardownHolds, SessionShapeHolds, PTL

-----------------------------------------------------------------------------
(* KnownWaits.  What a slot names can still be reaped, unless a killer has
   reaped it and is about to clear the slot; what is about to be stored can;
   and nobody waits for a process whose slot names it, or that is not forked
   yet.                                                                      *)
Unborn(p) == CASE p = "demux" -> {"start", "stream", "streamStore"}
               [] p = "remux" -> {"start", "stream", "streamStore", "recon0", "reconStore", "inproc", "remuxStore"}
               [] p = "video" -> SetUp \ {"audioFork", "audioStore", "closeEnds"}
               [] p = "audio" -> SetUp \ {"closeEnds"}
AwaitedApart ==
    \A p \in Processes : Awaited(p) => slot[Home(dcfg, p)] # p /\ at \notin Unborn(p)
Reapable ==
    /\ \A s \in Slots : slot[s] # Empty => Unreaped(slot[s]) \/ \E k \in Killers : Clearing(k, s)
    /\ \A p \in Processes : at \in StoreOf(p) => Unreaped(p)

(* A fifo is opened only after its writer was forked; and the audio pump is
   gated only where a picture is still to come, or the stop was told.         *)
Gated ==
    /\ at \in {"inproc", "remuxStore", "open"} => WantInproc(dcfg)
    /\ (at = "open" /\ Networked(dcfg)) \/ at = "remuxStore" => proc["remux"] # "none"
    /\ inproc => dcfg.wide
    /\ pictured => at \notin SetUp
    /\ ~released => inproc /\ ~pictured /\ (at = "play" \/ (dStop /\ at \in Tearing))

LEMMA UnbornUnnamed ==
  ASSUME SessionShape, Named, FirstUse, NEW p \in Processes, at \in Unborn(p)
  PROVE  slot[Home(dcfg, p)] # p
<1> USE DEF Empty
<1>1. CASE p = "demux"
  BY <1>1 DEF FirstUse, Unborn, Home, Before, Slots
<1>2. CASE p = "remux"
  <2>1. at \in Before("streamPid") \cup {"recon0", "reconStore", "inproc", "remuxStore"}
    BY <1>2 DEF Unborn, Before
  <2> QED
    BY <2>1, <1>2 DEF FirstUse, Home
<1>3. CASE p = "video"
  BY <1>3 DEF FirstUse, Unborn, Home, Before, Slots
<1>4. CASE p = "audio"
  <2>1. CASE SkipRgb(dcfg)
    <3>1. at \notin Laying /\ at \in SetUp
      BY <1>4, <2>1 DEF FirstUse, Unborn
    <3>2. at \in Before("childPid")
      BY <3>1 DEF Before, Laying
    <3> QED
      BY <3>2, <1>4, <2>1 DEF FirstUse, Home, Slots
  <2>2. CASE ~SkipRgb(dcfg)
    BY <1>4, <2>2 DEF FirstUse, Unborn, Home, Before, Slots
  <2> QED
    BY <2>1, <2>2
<1> QED
  BY <1>1, <1>2, <1>3, <1>4 DEF Processes

(* The set-up goes forward: what is forked stays so. *)
LEMMA BornStays ==
  ASSUME SessionShape, [DemuxNext]_demuxVars, NEW p \in Processes, at' \in Unborn(p)
  PROVE  at \in Unborn(p)
<1>1. CASE Moves
  BY <1>1 DEF Moves, Hop, Unborn, SetUp, Processes, AfterStream
<1>2. ASSUME NEW q \in Processes, Forks(q) PROVE at \in Unborn(p)
  BY <1>2 DEF Forks, Unborn, SetUp, Processes
<1>3. ASSUME NEW q \in Processes, Stores(q) PROVE at \in Unborn(p)
  BY <1>3 DEF Stores, Unborn, SetUp, Processes, AfterStream
<1>4. CASE ReconReaps \/ KillStarts
  BY <1>4 DEF ReconReaps, KillStarts, Go, Unborn, SetUp, Processes
<1>5. ASSUME NEW k \in Killers, KillReturns(k) PROVE at \in Unborn(p)
  BY <1>5 DEF KillReturns, Go, Unborn, SetUp, Processes
<1>6. CASE UNCHANGED at
  BY <1>6
<1>7. ASSUME NEW k \in Killers, Signals(k) \/ Reaps(k) \/ Clears(k) \/ Takes(k) \/ Waits(k) PROVE UNCHANGED at
  BY <1>7 DEF Signals, Reaps, Clears, Takes, Waits
<1>8. ASSUME NEW q \in Processes, Exits(q) PROVE UNCHANGED at
  BY <1>8 DEF Exits
<1>9. StopCalls \/ StopJoins => UNCHANGED at
  BY DEF StopCalls, StopJoins
<1> QED
  BY StepKinds, <1>1, <1>2, <1>3, <1>4, <1>5, <1>6, <1>7, <1>8, <1>9, Zenon DEF StepKind

(* Only killChildren takes a process off its slot to wait for it. *)
LEMMA AwaitedSince ==
  ASSUME SessionShape, [DemuxNext]_demuxVars, NEW p \in Processes, Awaited(p)', ~Awaited(p)
  PROVE  \E k \in Killers : Takes(k) /\ slot[Head(killing[k].left)] = p
<1>1. ASSUME NEW k \in Killers, NEW to, KillStep(k, to), to.step # "wait" PROVE FALSE
  <2>1. killing'[k] = to /\ \A j \in Killers : j # k => killing'[j] = killing[j]
    BY <1>1, KillPoint
  <2> QED
    BY <2>1, <1>1 DEF Awaited
<1>2. UNCHANGED killing => FALSE
  BY DEF Awaited
<1>3. \A left, saw : \A step \in {"off", "term", "reap", "clear", "take", "join", "returned"} : Killer(step, left, saw).step # "wait"
  BY DEF Killer
<1>4. ASSUME NEW k \in Killers, Signals(k) \/ Reaps(k) \/ Clears(k) \/ Waits(k) \/ KillReturns(k) PROVE FALSE
  <2>1. \E to : KillStep(k, to) /\ to.step # "wait"
    <3>1. CASE Signals(k)
      BY <3>1, <1>3 DEF Signals
    <3>2. CASE Reaps(k)
      BY <3>2, <1>3 DEF Reaps
    <3>3. CASE Clears(k)
      BY <3>3, <1>3 DEF Clears
    <3>4. CASE Waits(k)
      BY <3>4, <1>3 DEF Waits
    <3>5. CASE KillReturns(k)
      BY <3>5, <1>3 DEF KillReturns, Off, Killers
    <3> QED
      BY <1>4, <3>1, <3>2, <3>3, <3>4, <3>5
  <2> QED
    BY <2>1, <1>1
<1>5. ASSUME KillStarts \/ StopCalls \/ StopJoins PROVE FALSE
  <2>1. \E k \in Killers : \E to : KillStep(k, to) /\ to.step # "wait"
    BY <1>5, <1>3 DEF KillStarts, StopCalls, StopJoins, Killers
  <2> QED
    BY <2>1, <1>1
<1>6. ASSUME NEW k \in Killers, Takes(k) PROVE slot[Head(killing[k].left)] = p
  <2> DEFINE q == slot[Head(killing[k].left)]
  <2>1. KillStep(k, IF q = Empty THEN Killer("take", Tail(killing[k].left), Empty) ELSE Killer("wait", killing[k].left, q))
    BY <1>6 DEF Takes
  <2> HIDE DEF q
  <2>2. q # Empty
    BY <2>1, <1>1, <1>3
  <2>3. killing'[k] = Killer("wait", killing[k].left, q) /\ \A j \in Killers : j # k => killing'[j] = killing[j]
    BY <2>1, <2>2, KillPoint
  <2>4. killing'[k].saw = q
    BY <2>3 DEF Killer
  <2> QED
    BY <2>3, <2>4 DEF Awaited, q
<1>7. Moves \/ ReconReaps => UNCHANGED killing
  BY DEF Moves, ReconReaps
<1>8. ASSUME NEW q \in Processes, Forks(q) \/ Stores(q) \/ Exits(q) PROVE UNCHANGED killing
  BY <1>8 DEF Forks, Stores, Exits, Kills
<1> QED
  BY StepKinds, <1>2, <1>4, <1>5, <1>6, <1>7, <1>8, Zenon DEF StepKind

(* A slot changes to empty, or to the process that is stored. *)
LEMMA SlotChanges ==
  ASSUME SessionShape, [DemuxNext]_demuxVars, NEW s \in Slots, slot'[s] # slot[s], slot'[s] # Empty
  PROVE  \E q \in Processes : Stores(q) /\ slot'[s] = q /\ Home(dcfg, q) = s
<1>0. slot \in [Slots -> Processes \cup {Empty}]
  BY DEF SessionShape, DemuxTypeOK
<1>1. ASSUME NEW r, slot' = [slot EXCEPT ![r] = Empty] PROVE FALSE
  BY <1>1, <1>0
<1>2. ASSUME NEW q \in Processes, Stores(q) PROVE slot'[s] = q /\ Home(dcfg, q) = s
  <2>1. slot' = [slot EXCEPT ![Home(dcfg, q)] = q]
    BY <1>2 DEF Stores, StorePid
  <2> QED
    BY <2>1, <1>0
<1>3. ReconReaps => slot' = [slot EXCEPT !["childPid"] = Empty]
  BY DEF ReconReaps
<1>4. ASSUME NEW k \in Killers, Clears(k) \/ Takes(k) PROVE slot' = [slot EXCEPT ![Head(killing[k].left)] = Empty]
  BY <1>4 DEF Clears, Takes
<1>5. ASSUME NEW k \in Killers, Signals(k) \/ Reaps(k) \/ Waits(k) \/ KillReturns(k) PROVE UNCHANGED slot
  BY <1>5 DEF Signals, Reaps, Waits, KillReturns
<1>6. ASSUME NEW q \in Processes, Forks(q) \/ Exits(q) PROVE UNCHANGED slot
  BY <1>6 DEF Forks, Exits
<1>7. Moves \/ KillStarts \/ StopCalls \/ StopJoins => UNCHANGED slot
  BY DEF Moves, KillStarts, StopCalls, StopJoins
<1> QED
  BY StepKinds, <1>1, <1>2, <1>3, <1>4, <1>5, <1>6, <1>7, Zenon DEF StepKind

LEMMA ConfigStays ==
  ASSUME [DemuxNext]_demuxVars
  PROVE  dcfg' = dcfg /\ \A p : Home(dcfg, p)' = Home(dcfg, p)
<1>1. dcfg' = dcfg
  BY StepKinds DEF StepKind, Moves, ReconReaps, KillStarts, StopCalls, StopJoins, Forks, Stores, Exits, Signals, Reaps,
     Clears, Takes, Waits, KillReturns, Locals
<1> QED
  BY <1>1 DEF Home, SkipRgb, Pattern

LEMMA AwaitedApartStep ==
  ASSUME SessionShape, Named, FirstUse, AwaitedApart, [DemuxNext]_demuxVars
  PROVE  AwaitedApart'
<1> SUFFICES ASSUME NEW p \in Processes, Awaited(p)' PROVE slot'[Home(dcfg, p)] # p /\ at' \notin Unborn(p)
  BY ConfigStays DEF AwaitedApart, Unborn
<1>0. /\ Home(dcfg, p) \in Slots /\ p # Empty
      /\ slot \in [Slots -> Processes \cup {Empty}]
  BY DEF Home, Processes, Slots, Empty, SessionShape, DemuxTypeOK
<1>1. CASE Awaited(p)
  <2>1. slot[Home(dcfg, p)] # p /\ at \notin Unborn(p)
    BY <1>1 DEF AwaitedApart
  <2>2. at' \notin Unborn(p)
    BY <2>1, BornStays
  <2>3. ASSUME slot'[Home(dcfg, p)] = p PROVE FALSE
    <3>1. PICK q \in Processes : Stores(q) /\ slot'[Home(dcfg, p)] = q
      BY <2>1, <2>3, <1>0, SlotChanges
    <3>2. Stores(p)
      BY <3>1, <2>3
    <3>3. at \in Unborn(p)
      BY <3>2 DEF Stores, Unborn, SetUp
    <3> QED
      BY <3>3, <2>1
  <2> QED
    BY <2>2, <2>3
<1>2. CASE ~Awaited(p)
  <2>1. PICK k \in Killers : Takes(k) /\ slot[Head(killing[k].left)] = p
    BY <1>2, AwaitedSince
  <2>2. Head(killing[k].left) \in Slots /\ slot' = [slot EXCEPT ![Head(killing[k].left)] = Empty] /\ UNCHANGED at
    BY <2>1, LeftsEnd DEF Takes, SessionShape
  <2>3. Home(dcfg, p) = Head(killing[k].left)
    BY <2>1, <2>2, <1>0 DEF Named
  <2>4. at \notin Unborn(p)
    BY <2>1, <2>3, UnbornUnnamed
  <2> QED
    BY <2>2, <2>3, <2>4, <1>0
<1> QED
  BY <1>1, <1>2

LEMMA ReapableStep ==
  ASSUME SessionShape, Named, FirstUse, AwaitedApart, Reapable, [DemuxNext]_demuxVars
  PROVE  Reapable'
<1>0. /\ slot \in [Slots -> Processes \cup {Empty}] /\ proc \in [Processes -> {"none", "run", "dead", "reaped"}]
      /\ Empty \notin Processes /\ \A p \in Processes : Home(dcfg, p) \in Slots
  BY DEF SessionShape, DemuxTypeOK, Home, Processes, Slots, Empty
<1>n. \A s \in Slots : slot[s] # Empty => slot[s] \in Processes /\ Home(dcfg, slot[s]) = s
  BY <1>0 DEF Named
<1>r. /\ \A s \in Slots : slot[s] # Empty => Unreaped(slot[s]) \/ \E k \in Killers : Clearing(k, s)
      /\ \A p \in Processes : at \in StoreOf(p) => Unreaped(p)
  BY DEF Reapable
<1>u. \A p \in Processes : at \in StoreOf(p) => at \in Unborn(p)
  BY DEF StoreOf, Unborn, SetUp, Processes
(* Steps that reap nobody and are not a killer's clearing. *)
<1>q. ASSUME \A s \in Slots : slot'[s] # Empty => slot'[s] = slot[s] \/ (slot'[s] \in Processes /\ at \in StoreOf(slot'[s])),
             \A p : Unreaped(p) => Unreaped(p)',
             \A k \in Killers, s \in Slots : Clearing(k, s) => Clearing(k, s)' \/ slot'[s] = Empty,
             \A p \in Processes : at' \in StoreOf(p) => at \in StoreOf(p) \/ Unreaped(p)'
      PROVE  Reapable'
  <2>1. ASSUME NEW s \in Slots, slot'[s] # Empty PROVE Unreaped(slot[s])' \/ \E k \in Killers : Clearing(k, s)'
    <3>1. CASE slot'[s] = slot[s]
      BY <2>1, <3>1, <1>q, <1>r
    <3>2. CASE slot'[s] \in Processes /\ at \in StoreOf(slot'[s])
      <4>1. PICK p \in Processes : slot'[s] = p /\ at \in StoreOf(p)
        BY <3>2
      <4>2. Unreaped(p)'
        BY <4>1, <1>q, <1>r
      <4> QED
        BY <4>1, <4>2
    <3> QED
      BY <2>1, <3>1, <3>2, <1>q
  <2>2. ASSUME NEW p \in Processes, at' \in StoreOf(p) PROVE Unreaped(p)'
    BY <2>2, <1>q, <1>r
  <2> QED
    BY <2>1, <2>2 DEF Reapable, StoreOf
<1>k. ASSUME NEW k \in Killers, NEW to, KillStep(k, to), killing[k].step # "clear"
      PROVE  \A j \in Killers, s \in Slots : Clearing(j, s) => Clearing(j, s)'
  <2>1. \A j \in Killers : j # k => killing'[j] = killing[j]
    BY <1>k, KillPoint
  <2> QED
    BY <2>1, <1>k DEF Clearing
<1>1. CASE Moves
  <2>1. (\A p : Unreaped(p)' = Unreaped(p)) /\ \A k, s : Clearing(k, s)' = Clearing(k, s)
    BY <1>1 DEF Moves, Unreaped, Clearing
  <2>2. \A p \in Processes : at' \in StoreOf(p) => at \in StoreOf(p)
    BY <1>1 DEF Moves, Hop, StoreOf, Processes, AfterStream
  <2> QED
    BY <1>1, <1>q, <2>1, <2>2 DEF Moves
<1>2. CASE ReconReaps
  <2>1. PICK q \in Processes : slot["childPid"] = q
    BY <1>2, <1>0 DEF ReconReaps, Slots
  <2>2. slot' = [slot EXCEPT !["childPid"] = Empty] /\ proc' = [proc EXCEPT ![q] = "reaped"]
    BY <1>2, <2>1 DEF ReconReaps
  <2>3. ASSUME NEW s \in Slots, slot'[s] # Empty PROVE Unreaped(slot[s])' \/ \E k \in Killers : Clearing(k, s)'
    <3>1. s # "childPid" /\ slot'[s] = slot[s]
      BY <2>2, <2>3, <1>0
    <3>2. slot[s] \in Processes /\ slot[s] # q
      <4>1. "childPid" \in Slots /\ q # Empty
        BY <1>0 DEF Slots
      <4> QED
        BY <4>1, <3>1, <2>1, <2>3, <1>n
    <3>3. Unreaped(slot[s]) => Unreaped(slot[s])'
      BY <3>1, <3>2, <2>2, <1>0 DEF Unreaped
    <3>4. \A k : Clearing(k, s) => Clearing(k, s)'
      BY <1>2 DEF ReconReaps, Clearing
    <3> QED
      BY <3>1, <3>3, <3>4, <2>3, <1>r
  <2>4. \A p \in Processes : at' \notin StoreOf(p)
    BY <1>2 DEF ReconReaps, StoreOf, Processes
  <2> QED
    BY <2>3, <2>4 DEF Reapable, StoreOf
<1>3. ASSUME NEW f \in Processes, Forks(f) PROVE Reapable'
  <2>1. UNCHANGED <<slot, killing>> /\ proc' = [proc EXCEPT ![f] = "run"]
    BY <1>3 DEF Forks, Forked
  <2>2. (\A p : Unreaped(p) => Unreaped(p)') /\ Unreaped(f)' /\ \A k, s : Clearing(k, s) => Clearing(k, s)'
    BY <2>1, <1>0 DEF Unreaped, Clearing
  <2>3. \A p \in Processes : at' \in StoreOf(p) => p = f
    BY <1>3 DEF Forks, StoreOf, Processes
  <2> QED
    BY <2>1, <2>2, <2>3, <1>q
<1>4. ASSUME NEW f \in Processes, Stores(f) PROVE Reapable'
  <2>1. UNCHANGED <<proc, killing>> /\ at \in StoreOf(f)
    BY <1>4 DEF Stores, StoreOf
  <2>2. (\A p : Unreaped(p)' = Unreaped(p)) /\ \A k, s : Clearing(k, s)' = Clearing(k, s)
    BY <2>1 DEF Unreaped, Clearing
  <2>3. \A s \in Slots : slot'[s] # Empty => slot'[s] = slot[s] \/ slot'[s] = f
    <3>1. slot' = [slot EXCEPT ![Home(dcfg, f)] = f]
      BY <1>4 DEF Stores, StorePid
    <3> QED
      BY <3>1, <1>0
  <2>4. \A p \in Processes : at' \notin StoreOf(p)
    BY <1>4 DEF Stores, StoreOf, Processes, AfterStream
  <2> QED
    BY <2>1, <2>2, <2>3, <2>4, <1>q
<1>5. ASSUME NEW f \in Processes, Exits(f) PROVE Reapable'
  <2>1. UNCHANGED <<at, slot, killing>> /\ proc[f] = "run" /\ proc' = [proc EXCEPT ![f] = "dead"]
    BY <1>5 DEF Exits, Kills
  <2>2. (\A p : Unreaped(p) => Unreaped(p)') /\ \A k, s : Clearing(k, s) => Clearing(k, s)'
    BY <2>1, <1>0 DEF Unreaped, Clearing
  <2> QED
    BY <2>1, <2>2, <1>q
<1>6. CASE KillStarts \/ StopCalls \/ StopJoins
  <2>1. \E k \in Killers : \E to : KillStep(k, to) /\ killing[k].step # "clear"
    BY <1>6 DEF KillStarts, StopCalls, StopJoins, Killers
  <2>2. UNCHANGED <<slot, proc>>
    BY <1>6 DEF KillStarts, StopCalls, StopJoins
  <2>3. \A p : Unreaped(p) => Unreaped(p)'
    BY <2>2 DEF Unreaped
  <2>4. \A p \in Processes : at' \in StoreOf(p) => at \in StoreOf(p)
    BY <1>6 DEF KillStarts, StopCalls, StopJoins, Go, StoreOf, Processes
  <2>5. \A j \in Killers, s \in Slots : Clearing(j, s) => Clearing(j, s)'
    BY <2>1, <1>k
  <2> QED
    BY <2>2, <2>3, <2>4, <2>5, <1>q
<1>7. ASSUME NEW k \in Killers, Signals(k) PROVE Reapable'
  <2>1. \A obey \in BOOLEAN : \A p \in Processes : Signalled(obey)[p] = proc[p] \/ (proc[p] = "run" /\ Signalled(obey)[p] = "dead")
    BY DEF Signalled
  <2>2. \E obey \in BOOLEAN : proc' = Signalled(obey)
    BY <1>7 DEF Signals
  <2>3. \A p \in Processes : proc'[p] = proc[p] \/ (proc[p] = "run" /\ proc'[p] = "dead")
    <3>1. PICK obey \in BOOLEAN : proc' = Signalled(obey)
      BY <2>2
    <3> QED
      BY <3>1, <2>1
  <2>4. \A p : Unreaped(p) => Unreaped(p)'
    BY <2>3 DEF Unreaped
  <2>5. killing[k].step # "clear" /\ UNCHANGED <<at, slot>> /\ \E to : KillStep(k, to)
    BY <1>7 DEF Signals
  <2>6. \A j \in Killers, s \in Slots : Clearing(j, s) => Clearing(j, s)'
    BY <2>5, <1>k
  <2> QED
    BY <2>4, <2>5, <2>6, <1>q
<1>8. ASSUME NEW k \in Killers, Reaps(k) PROVE Reapable'
  <2>1. killing[k].step # "clear" /\ UNCHANGED <<at, slot>> /\ \E to : KillStep(k, to)
    BY <1>8 DEF Reaps
  <2>2. \A j \in Killers, s \in Slots : Clearing(j, s) => Clearing(j, s)'
    BY <2>1, <1>k
  <2>h. PICK h : h = Head(killing[k].left)
    OBVIOUS
  <2>3. CASE slot[h] # Empty /\ proc[slot[h]] = "dead"
    <3>0. h \in Slots
      BY <1>8, <2>h, LeftsEnd DEF Reaps, SessionShape
    <3>1. proc' = [proc EXCEPT ![slot[h]] = "reaped"] /\ KillStep(k, Killer("clear", killing[k].left, Empty))
      BY <1>8, <2>h, <2>3 DEF Reaps
    <3>2. Clearing(k, h)'
      <4>1. killing'[k] = Killer("clear", killing[k].left, Empty)
        BY <3>1, KillPoint
      <4> QED
        BY <2>h, <4>1 DEF Clearing, Killer
    <3>3. slot[h] \in Processes /\ Home(dcfg, slot[h]) = h
      BY <2>3, <3>0, <1>n
    <3>4. ASSUME NEW p, p # slot[h], Unreaped(p) PROVE Unreaped(p)'
      BY <3>1, <3>4, <1>0 DEF Unreaped
    <3>5. ASSUME NEW s \in Slots, slot'[s] # Empty PROVE Unreaped(slot[s])' \/ \E j \in Killers : Clearing(j, s)'
      <4>1. slot'[s] = slot[s]
        BY <2>1
      <4>2. CASE s = h
        BY <3>2, <4>2
      <4>3. CASE s # h
        <5>1. slot[s] # slot[h]
          BY <3>3, <3>5, <4>1, <4>3, <1>n
        <5>2. Unreaped(slot[s]) => Unreaped(slot[s])'
          BY <3>4, <4>1, <5>1
        <5> QED
          BY <5>2, <4>1, <3>5, <2>2, <1>r
      <4> QED
        BY <4>2, <4>3
    <3>6. ASSUME NEW p \in Processes, at' \in StoreOf(p) PROVE Unreaped(p)'
      <4>1. at \in StoreOf(p) /\ at \in Unborn(p)
        BY <3>6, <2>1, <1>u
      <4>2. p # slot[h]
        BY <4>1, <3>3, UnbornUnnamed
      <4> QED
        BY <4>1, <4>2, <3>4, <1>r
    <3> QED
      BY <3>5, <3>6 DEF Reapable, StoreOf
  <2>4. CASE ~(slot[h] # Empty /\ proc[slot[h]] = "dead")
    <3>1. UNCHANGED proc
      BY <1>8, <2>h, <2>4 DEF Reaps
    <3>2. \A p : Unreaped(p) => Unreaped(p)'
      BY <3>1 DEF Unreaped
    <3> QED
      BY <3>2, <2>1, <2>2, <1>q
  <2> QED
    BY <2>3, <2>4
<1>9. ASSUME NEW k \in Killers, Clears(k) PROVE Reapable'
  <2>1. /\ slot' = [slot EXCEPT ![Head(killing[k].left)] = Empty] /\ UNCHANGED <<at, proc>>
        /\ KillStep(k, Killer("reap", Tail(killing[k].left), Empty))
    BY <1>9 DEF Clears
  <2>2. \A j \in Killers : j # k => killing'[j] = killing[j]
    BY <2>1, KillPoint
  <2>3. \A s \in Slots : slot'[s] = IF s = Head(killing[k].left) THEN Empty ELSE slot[s]
    BY <2>1, <1>0
  <2>4. \A j \in Killers, s \in Slots : Clearing(j, s) => Clearing(j, s)' \/ slot'[s] = Empty
    BY <2>2, <2>3 DEF Clearing
  <2>5. \A p : Unreaped(p) => Unreaped(p)'
    BY <2>1 DEF Unreaped
  <2> QED
    BY <2>1, <2>3, <2>4, <2>5, <1>q
<1>10. ASSUME NEW k \in Killers, Takes(k) PROVE Reapable'
  <2>1. /\ slot' = [slot EXCEPT ![Head(killing[k].left)] = Empty] /\ UNCHANGED <<at, proc>>
        /\ killing[k].step # "clear" /\ \E to : KillStep(k, to)
    BY <1>10 DEF Takes
  <2>2. \A j \in Killers, s \in Slots : Clearing(j, s) => Clearing(j, s)'
    BY <2>1, <1>k
  <2>3. \A s \in Slots : slot'[s] # Empty => slot'[s] = slot[s]
    BY <2>1, <1>0
  <2>5. \A p : Unreaped(p) => Unreaped(p)'
    BY <2>1 DEF Unreaped
  <2> QED
    BY <2>1, <2>2, <2>3, <2>5, <1>q
<1>11. ASSUME NEW k \in Killers, Waits(k) PROVE Reapable'
  <2> DEFINE q == killing[k].saw
  <2>1. /\ UNCHANGED <<at, slot>> /\ proc' = [proc EXCEPT ![q] = "reaped"]
        /\ killing[k].step = "wait" /\ q \in Processes /\ \E to : KillStep(k, to)
    BY <1>11 DEF Waits, SessionShape
  <2>2. \A j \in Killers, s \in Slots : Clearing(j, s) => Clearing(j, s)'
    BY <2>1, <1>k
  <2>3. slot[Home(dcfg, q)] # q /\ at \notin Unborn(q)
    BY <2>1 DEF AwaitedApart, Awaited
  <2> HIDE DEF q
  <2>4. ASSUME NEW p, p # q, Unreaped(p) PROVE Unreaped(p)'
    BY <2>1, <2>4, <1>0 DEF Unreaped
  <2>5. ASSUME NEW s \in Slots, slot'[s] # Empty PROVE Unreaped(slot[s])' \/ \E j \in Killers : Clearing(j, s)'
    <3>1. slot'[s] = slot[s] /\ slot[s] # q
      BY <2>1, <2>3, <2>5, <1>n
    <3> QED
      BY <3>1, <2>2, <2>4, <2>5, <1>r
  <2>6. ASSUME NEW p \in Processes, at' \in StoreOf(p) PROVE Unreaped(p)'
    BY <2>6, <2>1, <2>3, <2>4, <1>u, <1>r
  <2> QED
    BY <2>5, <2>6 DEF Reapable, StoreOf
<1>12. ASSUME NEW k \in Killers, KillReturns(k) PROVE Reapable'
  <2>1. killing[k].step # "clear" /\ UNCHANGED <<proc, slot>> /\ \E to : KillStep(k, to)
    BY <1>12 DEF KillReturns
  <2>2. \A j \in Killers, s \in Slots : Clearing(j, s) => Clearing(j, s)'
    BY <2>1, <1>k
  <2>3. \A p \in Processes : at' \in StoreOf(p) => at \in StoreOf(p)
    BY <1>12 DEF KillReturns, Go, StoreOf, Processes
  <2>5. \A p : Unreaped(p) => Unreaped(p)'
    BY <2>1 DEF Unreaped
  <2> QED
    BY <2>1, <2>2, <2>3, <2>5, <1>q
<1> QED
  BY StepKinds, <1>1, <1>2, <1>3, <1>4, <1>5, <1>6, <1>7, <1>8, <1>9, <1>10, <1>11, <1>12, Zenon DEF StepKind

LEMMA GatedStep ==
  ASSUME SessionShape, Gated, [DemuxNext]_demuxVars
  PROVE  Gated'
<1> USE DEF Gated, Locals, Ends, Kills, Go, GiveUp, SetUp, Tearing, WantInproc, Networked, Pattern
<1>0. proc \in [Processes -> {"none", "run", "dead", "reaped"}] /\ "remux" \in Processes /\ dcfg \in Configs
  BY DemuxAssumption DEF SessionShape, DemuxTypeOK, Processes
<1>1. CASE Refuse
  BY <1>1 DEF Refuse
<1>2. CASE Plan
  BY <1>2 DEF Plan
<1>3. CASE StreamFork
  BY <1>3, <1>0 DEF StreamFork, AfterStream, Forked
<1>4. CASE StreamStore
  BY <1>4 DEF StreamStore, AfterStream
<1>5. CASE ReconFork
  BY <1>5, <1>0 DEF ReconFork, Forked
<1>6. CASE ReconStore
  BY <1>6 DEF ReconStore
<1>7. CASE InprocStart
  BY <1>7, <1>0 DEF InprocStart, Forked
<1>8. CASE RemuxStore
  BY <1>8 DEF RemuxStore
<1>9. CASE InprocOpen
  BY <1>9 DEF InprocOpen
<1>10. CASE Pipes
  BY <1>10 DEF Pipes
<1>11. CASE VideoFork
  BY <1>11, <1>0 DEF VideoFork, Forked
<1>12. CASE VideoStore
  BY <1>12 DEF VideoStore
<1>13. CASE AudioFork
  BY <1>13, <1>0 DEF AudioFork, Forked
<1>14. CASE AudioStore
  BY <1>14 DEF AudioStore
<1>15. CASE CloseEnds
  BY <1>15 DEF CloseEnds
(* What a process or a killer does leaves the session alone, but for a process that
   was forked, which stays so. *)
<1>s. ASSUME at' = at \/ (at \in {"kill", "failKill"} /\ at' \in {"killing", "failKilling"})
                     \/ (at \in {"killing", "failKilling"} /\ at' \in {"joinAudio", "failJoin"}),
             UNCHANGED <<dcfg, released, inproc, pictured>>, dStop => dStop',
             proc["remux"] # "none" => proc'["remux"] # "none",
             at = "failKill" => at' # "killing", at = "failKilling" => at' # "joinAudio",
             at = "kill" => at' # "failKilling", at = "killing" => at' # "failJoin"
      PROVE  Gated'
  BY <1>s
<1>16. ASSUME NEW p \in Processes, Exits(p) PROVE Gated'
  BY <1>16, <1>0 DEF Exits
<1>17. CASE RemuxOpens
  BY <1>17 DEF RemuxOpens
<1>18. ASSUME NEW t \in Pumps, APumpEnds(t) PROVE Gated'
  BY <1>18 DEF APumpEnds
<1>19. CASE Picture
  BY <1>19 DEF Picture
<1>20. CASE ReconEnds
  BY <1>20, <1>0 DEF ReconEnds
<1>21. CASE PlayEnds
  BY <1>21 DEF PlayEnds
<1>22. CASE JoinsAudio
  BY <1>22 DEF JoinsAudio
<1>23. CASE JoinsStream
  BY <1>23 DEF JoinsStream
<1>24. CASE Report
  BY <1>24 DEF Report
<1>25. CASE KillStarts
  BY <1>25 DEF KillStarts
<1>26. ASSUME NEW k \in Killers, Signals(k) PROVE Gated'
  <2>1. \A obey \in BOOLEAN : proc["remux"] # "none" => Signalled(obey)["remux"] # "none"
    BY <1>0 DEF Signalled
  <2>2. \E obey \in BOOLEAN : proc' = Signalled(obey)
    BY <1>26 DEF Signals
  <2>3. PICK obey \in BOOLEAN : proc' = Signalled(obey)
    BY <2>2
  <2>4. proc["remux"] # "none" => proc'["remux"] # "none"
    BY <2>1, <2>3
  <2> QED
    BY <1>26, <1>s, <2>4 DEF Signals
<1>27. ASSUME NEW k \in Killers, Reaps(k) PROVE Gated'
  <2>1. (\E q : proc' = [proc EXCEPT ![q] = "reaped"]) \/ proc' = proc
    BY <1>27 DEF Reaps
  <2>2. proc["remux"] # "none" => proc'["remux"] # "none"
    BY <2>1, <1>0
  <2> QED
    BY <1>27, <1>s, <2>2 DEF Reaps
<1>28. ASSUME NEW k \in Killers, Clears(k) PROVE Gated'
  BY <1>28 DEF Clears
<1>29. ASSUME NEW k \in Killers, Takes(k) PROVE Gated'
  BY <1>29 DEF Takes
<1>30. ASSUME NEW k \in Killers, Waits(k) PROVE Gated'
  BY <1>30, <1>0 DEF Waits
<1>31. ASSUME NEW k \in Killers, KillReturns(k) PROVE Gated'
  <2>1. CASE k = "stop"
    BY <1>31, <2>1 DEF KillReturns
  <2>2. CASE k # "stop"
    <3>1. at \in {"killing", "failKilling"}
      BY <1>31, <2>2 DEF KillReturns, SessionShape, Killers
    <3> QED
      BY <1>31, <2>2, <3>1 DEF KillReturns
  <2> QED
    BY <2>1, <2>2
<1>32. CASE StopCalls
  BY <1>32 DEF StopCalls
<1>33. CASE StopJoins
  BY <1>33 DEF StopJoins
<1>34. CASE UNCHANGED demuxVars
  BY <1>34 DEF demuxVars
<1> QED
  BY <1>1, <1>2, <1>3, <1>4, <1>5, <1>6, <1>7, <1>8, <1>9, <1>10, <1>11, <1>12, <1>13, <1>14, <1>15, <1>16,
     <1>17, <1>18, <1>19, <1>20, <1>21, <1>22, <1>23, <1>24, <1>25, <1>26, <1>27, <1>28, <1>29, <1>30, <1>31,
     <1>32, <1>33, <1>34, Zenon
     DEF DemuxNext, Progress, SetUpStep, MainStep, KillSteps

(* With no FFmpeg running and no killer that can move, the session moves, but for
   the two waits.                                                              *)
LEMMA WaitsAreKnown ==
  ASSUME SessionShape, Named, FirstUse, Reapable, Gated
  PROVE  KnownWaits
<1> SUFFICES ASSUME at # "over", ~CanGo PROVE EndlessRecon \/ EndlessOpen
  BY DEF KnownWaits
<1>0. /\ slot \in [Slots -> Processes \cup {Empty}] /\ proc \in [Processes -> {"none", "run", "dead", "reaped"}]
      /\ pumps \in [Pumps -> {"none", "run", "exited"}] /\ released \in BOOLEAN /\ inproc \in BOOLEAN
      /\ "childPid" \in Slots /\ Empty \notin Processes /\ {"demux", "remux", "video", "audio"} \subseteq Processes
      /\ "stream" \in Pumps /\ "audio" \in Pumps /\ \A t \in Pumps : Feeds(t) \in Processes
  BY DEF SessionShape, DemuxTypeOK, Slots, Processes, Pumps, Empty, Feeds, Sound
<1>1. \A p \in Processes : proc[p] # "run"
  BY DEF CanGo
<1>2. \A k \in Killers : killing[k].step \in {"off", "join", "returned"}
  BY <1>1 DEF CanGo, SessionShape
<1>3. killing["session"].step = "off" /\ at \notin {"killing", "failKilling"}
  BY <1>2 DEF SessionShape, Killers
<1>4. pumps["stream"] # "run"
  BY <1>0, <1>1 DEF CanGo
<1>5. pumps["audio"] = "run" => ~released /\ ~dStop
  BY <1>0, <1>1 DEF CanGo
<1>6. at \in SetUp \cup {"recon", "play", "joinAudio"}
  BY <1>3, <1>4 DEF CanGo, SessionShape, Tearing, Failing
<1>7. CASE at \in SetUp
  <2>1. at = "open" /\ Networked(dcfg) /\ ~fifo
    BY <1>7 DEF CanGo
  <2>2. proc["remux"] \in {"dead", "reaped"}
    BY <2>1, <1>0, <1>1 DEF Gated
  <2> QED
    BY <2>1, <2>2 DEF EndlessOpen
<1>8. CASE at = "recon"
  <2>1. ~dStop /\ ~dcfg.timed
    BY <1>8 DEF CanGo
  <2>2. ASSUME slot["childPid"] # Empty, pumps["stream"] # "none" PROVE FALSE
    <3>1. pumps["stream"] = "exited"
      BY <2>2, <1>0, <1>4
    <3>2. PICK p \in Processes : slot["childPid"] = p
      BY <2>2, <1>0
    <3>3. \A k \in Killers : ~Clearing(k, "childPid")
      BY <1>2 DEF Clearing
    <3>4. Unreaped(p)
      BY <2>2, <3>2, <3>3, <1>0 DEF Reapable
    <3>5. proc[p] = "dead"
      BY <3>4, <1>1 DEF Unreaped
    <3> QED
      BY <1>8, <2>2, <3>1, <3>2, <3>5 DEF CanGo
  <2> QED
    BY <1>8, <2>1, <2>2 DEF EndlessRecon
<1>9. CASE at = "play"
  <2>1. proc["remux"] # "run" /\ proc["video"] # "run"
    BY <1>0, <1>1
  <2> QED
    BY <1>9, <2>1 DEF CanGo
<1>10. CASE at = "joinAudio"
  <2>1. pumps["audio"] = "run"
    BY <1>10 DEF CanGo
  <2>2. ~released /\ ~dStop
    BY <2>1, <1>5
  <2> QED
    BY <1>10, <2>2 DEF Gated
<1> QED
  BY <1>6, <1>7, <1>8, <1>9, <1>10

\* A session that is not over, its FFmpegs, its pumps or a stop() can go on, but
\* for two waits: the path without RGB, which looks for the end of its pumps only
\* when it has an audio child and a demuxer, and the open of a fifo whose writer
\* died: media_player.cpp, threadMain, killChildren and AvInprocDecoder::open.
THEOREM SessionWaitsAreKnown == DemuxSpec => []KnownWaits
<1> DEFINE Going == AwaitedApart /\ Reapable /\ Gated
<1>1. ASSUME DemuxInit PROVE Going
  <2>1. /\ at = "start" /\ inproc = FALSE /\ released = TRUE /\ pictured = FALSE
        /\ slot = [s \in Slots |-> Empty]
        /\ killing = [k \in Killers |-> [step |-> "off", left |-> <<>>, saw |-> Empty]]
    BY <1>1 DEF DemuxInit
  <2>2. AwaitedApart
    BY <2>1 DEF AwaitedApart, Awaited, Killers
  <2>3. Reapable
    BY <2>1 DEF Reapable, StoreOf, Processes
  <2>4. Gated
    BY <2>1 DEF Gated
  <2> QED
    BY <2>2, <2>3, <2>4
<1>2. SessionShape /\ Teardown /\ Going /\ [DemuxNext]_demuxVars => Going'
  BY AwaitedApartStep, ReapableStep, GatedStep DEF Teardown
<1>3. SessionShape /\ Teardown /\ Going => KnownWaits
  BY WaitsAreKnown DEF Teardown
<1> HIDE DEF Going
<1> QED
  BY <1>1, <1>2, <1>3, TeardownHolds, SessionShapeHolds, PTL DEF DemuxSpec

-----------------------------------------------------------------------------
(* The audio pump and the pictures.                                        *)

LEMMA GreaterOfTwo ==
  ASSUME NEW x \in Int, NEW y \in Int
  PROVE  Max({x, y}) \in {x, y} /\ Max({x, y}) >= x /\ Max({x, y}) >= y
<1>1. \E m \in {x, y} : \A z \in {x, y} : m >= z
  <2>1. CASE x >= y
    BY <2>1
  <2>2. CASE ~(x >= y)
    BY <2>2
  <2> QED
    BY <2>1, <2>2
<1> QED
  BY <1>1 DEF Max

LEMMA NotBelowZero ==
  ASSUME NEW x \in Int
  PROVE  Max({0, x}) \in Nat /\ Max({0, x}) >= x /\ (Max({0, x}) = 0 \/ Max({0, x}) = x)
<1>1. 0 \in Int
  OBVIOUS
<1>2. Max({0, x}) \in {0, x} /\ Max({0, x}) >= 0 /\ Max({0, x}) >= x
  BY <1>1, GreaterOfTwo, Zenon
<1> QED
  BY <1>2

LEMMA LesserOfTwo ==
  ASSUME NEW x \in Int, NEW y \in Int
  PROVE  Min({x, y}) \in {x, y} /\ Min({x, y}) <= x /\ Min({x, y}) <= y
<1>1. \E m \in {x, y} : \A z \in {x, y} : m <= z
  <2>1. CASE x <= y
    BY <2>1
  <2>2. CASE ~(x <= y)
    BY <2>2
  <2> QED
    BY <2>1, <2>2
<1> QED
  BY <1>1 DEF Min

(* Pictures are shown or dropped one after another, the schedule is met before a
   chunk is read, and the pump is joined at the end of the pictures. *)
AvInv ==
    /\ AvTypeOK
    /\ avMode \in AvModes /\ slack \in Slacks /\ tail \in Tails /\ depth \in Depths
    /\ pump \in {"read", "hold", "paced", "done"} /\ present \in {"decode", "pace", "eof"}
    /\ avSession \in {"playing", "joining", "ended"} /\ chunks \in 0..3
    /\ shownCount < picture
    /\ present # "eof" => picture <= MaxPictures
    /\ avSession # "playing" => present = "eof"
    /\ pump \in {"read", "hold"} => behind >= 0

LEMMA AvNumbers ==
  ASSUME AvInv
  PROVE  /\ TrackLength \in Nat /\ written \in Nat /\ queued \in Nat /\ sampled \in Int /\ behind \in Int
         /\ shownCount \in Nat /\ picture \in Nat /\ drops \in Nat /\ slack \in Int /\ tail \in Nat
         /\ Chunk \in Nat /\ Chunk > 0 /\ Target \in Nat /\ Reanchor \in Nat /\ MaxPictures \in Nat
         /\ MaxPictures > 0 /\ Period \in Nat /\ Period > 0 /\ Lead \in Nat /\ DropMs \in Nat
         /\ written <= TrackLength /\ queued <= written /\ -1 <= sampled /\ sampled <= written
         /\ -Chunk <= behind /\ behind <= Reanchor + 2 * Chunk
<1>1. tail \in Nat /\ slack \in Int /\ Period \in Nat /\ MaxPictures \in Nat /\ Chunk \in Nat
  BY AvAssumption DEF AvInv
<1>2. MaxPictures * Period \in Nat
  BY <1>1
<1>3. TrackLength \in Nat
  BY <1>1, <1>2 DEF TrackLength
<1> QED
  BY <1>1, <1>3, AvAssumption DEF AvInv, AvTypeOK

LEMMA AvTypeStays ==
  ASSUME AvInv, UNCHANGED regime,
         written' \in Nat, written' <= TrackLength, queued' \in Nat, queued' <= written',
         sampled' \in Int, -1 <= sampled', sampled' <= written',
         shownCount' \in 0..MaxPictures, picture' \in 1..(MaxPictures + 1), drops' \in 0..1,
         behind' \in Int, -Chunk <= behind', behind' <= Reanchor + 2 * Chunk
  PROVE  AvTypeOK' /\ avMode' \in AvModes /\ slack' \in Slacks /\ tail' \in Tails /\ depth' \in Depths
BY AvNumbers DEF AvInv, AvTypeOK, regime, TrackLength

LEMMA AvStep == AvInv /\ [AvNext]_avVars => AvInv'
<1> SUFFICES ASSUME AvInv, [AvNext]_avVars PROVE AvInv'
  OBVIOUS
<1>0. /\ TrackLength \in Nat /\ written \in Nat /\ queued \in Nat /\ sampled \in Int /\ behind \in Int
      /\ shownCount \in Nat /\ picture \in Nat /\ drops \in Nat
      /\ Chunk \in Nat /\ Chunk > 0 /\ Target \in Nat /\ Reanchor \in Nat /\ MaxPictures \in Nat /\ MaxPictures > 0
      /\ written <= TrackLength /\ queued <= written /\ -1 <= sampled /\ sampled <= written
      /\ -Chunk <= behind /\ behind <= Reanchor + 2 * Chunk
      /\ shownCount \in 0..MaxPictures /\ picture \in 1..(MaxPictures + 1) /\ drops \in 0..1
  BY AvNumbers DEF AvInv, AvTypeOK
<1>t. ASSUME UNCHANGED regime,
             written' \in Nat, written' <= TrackLength, queued' \in Nat, queued' <= written',
             sampled' \in Int, -1 <= sampled', sampled' <= written',
             shownCount' \in 0..MaxPictures, picture' \in 1..(MaxPictures + 1), drops' \in 0..1,
             behind' \in Int, -Chunk <= behind', behind' <= Reanchor + 2 * Chunk
      PROVE  AvTypeOK' /\ avMode' \in AvModes /\ slack' \in Slacks /\ tail' \in Tails /\ depth' \in Depths
  BY <1>t, AvTypeStays
<1>p. /\ pump \in {"read", "hold", "paced", "done"} /\ present \in {"decode", "pace", "eof"}
      /\ avSession \in {"playing", "joining", "ended"} /\ chunks \in 0..3
      /\ shownCount < picture
      /\ present # "eof" => picture <= MaxPictures
      /\ avSession # "playing" => present = "eof"
      /\ pump \in {"read", "hold"} => behind >= 0
  BY DEF AvInv
<1>1. CASE Tick
  <2>1. queued - Chunk \in Int /\ behind + Chunk \in Int /\ Reanchor + 2 * Chunk \in Int
    BY <1>0
  <2>2. queued' \in Nat /\ queued' <= queued
    <3>1. queued' = Max({0, queued - Chunk})
      BY <1>1 DEF Tick
    <3>2. Max({0, queued - Chunk}) \in {0, queued - Chunk} /\ Max({0, queued - Chunk}) >= 0
      BY <2>1, NotBelowZero
    <3> QED
      BY <1>0, <3>1, <3>2
  <2>3. behind' \in Int /\ behind <= behind' /\ behind' <= Reanchor + 2 * Chunk
    <3>1. behind' = Min({behind + Chunk, Reanchor + 2 * Chunk})
      BY <1>1 DEF Tick
    <3> QED
      BY <1>0, <2>1, <3>1, LesserOfTwo
  <2>4. UNCHANGED <<regime, written, sampled, chunks, pump, shownCount, picture, drops, present, avSession>>
    BY <1>1 DEF Tick
  <2>5. AvTypeOK' /\ avMode' \in AvModes /\ slack' \in Slacks /\ tail' \in Tails /\ depth' \in Depths
    BY <1>0, <1>t, <2>2, <2>3, <2>4
  <2>6. pump' \in {"read", "hold"} => behind' >= 0
    BY <1>0, <1>p, <2>3, <2>4
  <2> QED
    BY <1>p, <2>4, <2>5, <2>6 DEF AvInv
<1>2. CASE PumpWrites
  <2>1. PICK n \in Nat : n <= TrackLength - written /\ written' = written + n /\ queued' = queued + n
    <3>1. written < TrackLength /\ TrackLength - written \in Nat
      BY <1>0, <1>2 DEF PumpWrites
    <3>2. Min({Chunk, TrackLength - written}) \in Nat /\ Min({Chunk, TrackLength - written}) <= TrackLength - written
      <4>1. Chunk \in Int /\ TrackLength - written \in Int
        BY <1>0, <3>1
      <4>2. Min({Chunk, TrackLength - written}) \in {Chunk, TrackLength - written}
            /\ Min({Chunk, TrackLength - written}) <= TrackLength - written
        BY <4>1, LesserOfTwo
      <4> QED
        BY <1>0, <3>1, <4>2
    <3> QED
      BY <1>2, <3>2 DEF PumpWrites
  <2>2. pump = "read" /\ pump' = "hold"
        /\ UNCHANGED <<regime, sampled, chunks, behind, shownCount, picture, drops, present, avSession>>
    BY <1>2 DEF PumpWrites
  <2>3. written' \in Nat /\ queued' \in Nat /\ written' <= TrackLength /\ queued' <= written' /\ sampled' <= written'
    BY <1>0, <2>1, <2>2
  <2>4. AvTypeOK' /\ avMode' \in AvModes /\ slack' \in Slacks /\ tail' \in Tails /\ depth' \in Depths
    BY <1>0, <1>t, <2>2, <2>3
  <2> QED
    BY <1>p, <2>2, <2>4 DEF AvInv
<1>3. CASE PumpReleased
  <2>1. PICK n \in 0..Chunk : LET due == (IF written <= Chunk THEN Target ELSE behind) - n
                              IN  behind' = IF due > Reanchor THEN 0 ELSE due
    <3>1. (IF written % Chunk = 0 THEN Chunk ELSE written % Chunk) \in 0..Chunk
      BY <1>0
    <3> QED
      BY <1>3, <3>1 DEF PumpReleased
  <2>2. pump = "hold" /\ pump' = "paced"
        /\ UNCHANGED <<regime, written, queued, sampled, chunks, shownCount, picture, drops, present, avSession>>
    BY <1>3 DEF PumpReleased
  <2>3. behind' \in Int /\ -Chunk <= behind' /\ behind' <= Reanchor + 2 * Chunk
    <3>1. behind >= 0
      BY <1>p, <2>2
    <3>2. (IF written <= Chunk THEN Target ELSE behind) \in Nat
      BY <1>0, <3>1
    <3> QED
      BY <1>0, <2>1, <3>2
  <2>4. AvTypeOK' /\ avMode' \in AvModes /\ slack' \in Slacks /\ tail' \in Tails /\ depth' \in Depths
    BY <1>0, <1>t, <2>2, <2>3
  <2> QED
    BY <1>p, <2>2, <2>4 DEF AvInv
<1>4. CASE PumpSamples
  <2>1. pump = "paced" /\ pump' = "read" /\ behind >= 0 /\ chunks' = (chunks + 1) % 4
        /\ UNCHANGED <<regime, written, queued, behind, shownCount, picture, drops, present, avSession>>
    BY <1>4 DEF PumpSamples
  <2>2. sampled' \in {sampled, -1, queued} \/ (sampled >= 0 /\ sampled' = (sampled * 3 + queued) \div 4)
    BY <1>0, <1>4 DEF PumpSamples
  <2>3. sampled' \in Int /\ -1 <= sampled' /\ sampled' <= written
    <3>1. CASE sampled' \in {sampled, -1, queued}
      BY <1>0, <3>1
    <3>2. CASE sampled >= 0 /\ sampled' = (sampled * 3 + queued) \div 4
      <4>1. sampled * 3 + queued \in Nat /\ sampled * 3 + queued <= 4 * written
        BY <1>0, <3>2
      <4>2. (sampled * 3 + queued) \div 4 \in Nat /\ (sampled * 3 + queued) \div 4 <= written
        BY <1>0, <4>1
      <4> QED
        BY <1>0, <3>2, <4>2
    <3> QED
      BY <2>2, <3>1, <3>2
  <2>4. AvTypeOK' /\ avMode' \in AvModes /\ slack' \in Slacks /\ tail' \in Tails /\ depth' \in Depths
    BY <1>0, <1>t, <2>1, <2>3
  <2>5. chunks' \in 0..3
    BY <1>p, <2>1
  <2> QED
    BY <1>p, <2>1, <2>4, <2>5 DEF AvInv
<1>5. CASE PumpEnds \/ PictureDecoded \/ JoinPump \/ ReportEnded
  <2>1. UNCHANGED <<regime, written, queued, sampled, chunks, behind, shownCount, picture, drops>>
    BY <1>5 DEF PumpEnds, PictureDecoded, JoinPump, ReportEnded
  <2>2. AvTypeOK' /\ avMode' \in AvModes /\ slack' \in Slacks /\ tail' \in Tails /\ depth' \in Depths
    BY <1>0, <1>t, <2>1
  <2> QED
    BY <1>5, <1>p, <2>1, <2>2 DEF AvInv, PumpEnds, PictureDecoded, JoinPump, ReportEnded
<1>6. CASE PicturePaced
  <2>1. /\ present = "pace" /\ picture' = picture + 1 /\ present' = IF picture = MaxPictures THEN "eof" ELSE "decode"
        /\ UNCHANGED <<regime, written, queued, sampled, chunks, behind, pump, avSession>>
    BY <1>6 DEF PicturePaced
  <2>2. \/ shownCount' = shownCount + 1 /\ drops' = 0
        \/ shownCount' = shownCount /\ drops' = drops + 1 /\ drops < 1
    <3>1. CASE Decision = "present"
      BY <1>6, <3>1 DEF PicturePaced
    <3>2. CASE Decision # "present"
      <4>1. Decision = "drop"
        BY <1>6, <3>2 DEF PicturePaced, Decision, avDecide
      <4>2. drops < 1
        BY <4>1 DEF Decision, avDecide
      <4> QED
        BY <1>6, <3>2, <4>2 DEF PicturePaced
    <3> QED
      BY <3>1, <3>2
  <2>3. picture <= MaxPictures /\ avSession = "playing"
    BY <1>p, <2>1
  <2>4. shownCount' \in 0..MaxPictures /\ picture' \in 1..(MaxPictures + 1) /\ drops' \in 0..1 /\ shownCount' < picture'
    BY <1>0, <1>p, <2>1, <2>2, <2>3
  <2>5. AvTypeOK' /\ avMode' \in AvModes /\ slack' \in Slacks /\ tail' \in Tails /\ depth' \in Depths
    BY <1>0, <1>t, <2>1, <2>4
  <2>6. present' # "eof" => picture' <= MaxPictures
    BY <1>0, <2>1, <2>3
  <2> QED
    BY <1>p, <2>1, <2>3, <2>4, <2>5, <2>6 DEF AvInv
<1>7. CASE UNCHANGED avVars
  <2>1. UNCHANGED <<regime, written, queued, sampled, chunks, behind, shownCount, picture, drops, pump, present, avSession>>
    BY <1>7 DEF avVars, regime
  <2>2. AvTypeOK' /\ avMode' \in AvModes /\ slack' \in Slacks /\ tail' \in Tails /\ depth' \in Depths
    BY <1>0, <1>t, <2>1
  <2> QED
    BY <1>p, <2>1, <2>2 DEF AvInv
<1> QED
  BY <1>1, <1>2, <1>3, <1>4, <1>5, <1>6, <1>7 DEF AvNext

LEMMA AvInvariant == AvInit /\ [][AvNext]_avVars => []AvInv
<1>1. ASSUME AvInit PROVE AvInv
  <2>1. tail \in Nat /\ MaxPictures \in Nat /\ Period \in Nat /\ MaxPictures > 0 /\ Reanchor \in Nat /\ Chunk \in Nat
    BY <1>1, AvAssumption DEF AvInit
  <2>2. TrackLength \in Nat
    <3>1. MaxPictures * Period \in Nat
      BY <2>1
    <3> QED
      BY <2>1, <3>1 DEF TrackLength
  <2>3. AvTypeOK
    BY <1>1, <2>1, <2>2 DEF AvInit, AvTypeOK
  <2> QED
    BY <1>1, <2>1, <2>3 DEF AvInit, AvInv
<1> QED
  BY <1>1, AvStep, PTL

LEMMA AvHolds == AvInv => StuckIsShortSlack
<1>1. ASSUME AvInv PROVE StuckIsShortSlack
  <2> SUFFICES ASSUME Stuck PROVE SlackTooShort
    BY DEF StuckIsShortSlack
  <2>0. /\ TrackLength \in Nat /\ written \in Nat /\ sampled \in Int /\ shownCount \in Nat /\ picture \in Nat
        /\ slack \in Int /\ Period \in Nat /\ Lead \in Nat /\ written <= TrackLength /\ shownCount * Period \in Nat
    BY <1>1, AvNumbers
  <2>1. written > shownCount * Period + slack
    BY <2>0 DEF Stuck, HoldOver
  <2>2. CASE present = "pace" /\ Decision = "hold"
    <3> DEFINE unheard == Max({0, sampled})
    <3>1. audible + Lead < picture * Period /\ audible \in Int
      <4>1. audible \in Int
        <5>1. written - (IF sampled >= 0 THEN sampled ELSE 0) \in Int
          BY <2>0
        <5> QED
          BY <5>1, NotBelowZero DEF audible
      <4>2. Decision = avDecide(audible - frameContentUs(picture))
        BY <2>2 DEF Decision
      <4>3. (audible - frameContentUs(picture)) + Lead < 0
        BY <4>2, <2>2 DEF avDecide
      <4>4. picture * Period \in Int
        BY <2>0
      <4> QED
        BY <4>1, <4>3, <4>4, <2>0 DEF frameContentUs
    <3>2. audible >= written - unheard /\ unheard \in Int
      <4>1. unheard \in Int /\ unheard >= 0 /\ unheard >= sampled
        BY <2>0, NotBelowZero
      <4>2. audible >= written - (IF sampled >= 0 THEN sampled ELSE 0)
        <5>1. written - (IF sampled >= 0 THEN sampled ELSE 0) \in Int
          BY <2>0
        <5>2. Max({0, written - (IF sampled >= 0 THEN sampled ELSE 0)}) >= written - (IF sampled >= 0 THEN sampled ELSE 0)
          BY <5>1, NotBelowZero
        <5> QED
          BY <5>2 DEF audible
      <4> HIDE DEF unheard
      <4> QED
        BY <4>1, <4>2, <3>1, <2>0
    <3>3. Period * (1 + (picture - 1 - shownCount)) = picture * Period - shownCount * Period
      BY <2>0
    <3>4. picture * Period \in Int
      BY <2>0
    <3> HIDE DEF unheard
    <3>5. slack + Lead < (picture * Period - shownCount * Period) + unheard
      <4> DEFINE s == shownCount * Period
                 p == picture * Period
      <4>1. s \in Int /\ p \in Int /\ written > s + slack /\ audible + Lead < p
        BY <2>0, <2>1, <3>1, <3>4
      <4> HIDE DEF s, p
      <4>2. slack + Lead < (p - s) + unheard
        BY <2>0, <3>1, <3>2, <4>1
      <4> QED
        BY <4>2 DEF s, p
    <3> QED
      BY <3>3, <3>5 DEF SlackTooShort, unheard
  <2>3. CASE avSession = "joining"
    <3>1. present = "eof"
      BY <1>1, <2>3 DEF AvInv
    <3>2. slack < TrackLength - shownCount * Period
      <4> DEFINE s == shownCount * Period
      <4>1. s \in Int /\ written > s + slack
        BY <2>0, <2>1
      <4> HIDE DEF s
      <4>2. slack < TrackLength - s
        BY <2>0, <4>1
      <4> QED
        BY <4>2 DEF s
    <3> QED
      BY <3>1, <3>2 DEF SlackTooShort
  <2> QED
    BY <2>2, <2>3 DEF Stuck
<1> QED
  BY <1>1

\* The pump and the present loop of a session wait for each other, and the
\* report for a pump that holds, only if the hold slack is shorter than what it
\* has to make up for, whatever the periods, depths and targets:
\* media_player.cpp, audioPump and the pacing of the pictures.
THEOREM HoldsAreShortSlack == AvSpec => []StuckIsShortSlack
BY AvHolds, AvInvariant, PTL DEF AvSpec

-----------------------------------------------------------------------------
(* The calls of the player.  What is left of a call is checked against what
   its steps may rely on: a mark says, before each step, which mutexes the
   call holds, that it has told the session to stop ("told"), joined it
   ("joined") or begun one ("begun"), that it may still paint a session it does not see, what it has
   retired since shutdown() was latched, and what it knows of paused_.      *)

Marks == [held : SUBSET Mutexes, phase : {"out", "told", "joined", "begun"}, paint : BOOLEAN, latched : BOOLEAN,
          parted : BOOLEAN, none : SUBSET Workers, claim : {"any", "held", "kept"}]

Becomes(y, held, phase, paint, claim) ==
    y.held = held /\ y.phase = phase /\ y.paint = paint /\ y.claim = claim
Keeps(x, y) == y.latched = x.latched /\ y.parted = x.parted /\ y.none = x.none
Stays(x, y) == Becomes(y, x.held, x.phase, x.paint, x.claim)

\* The input poll is never joined by a call that it may be waiting for.
Open(w, x) == w \in Workers /\ (w = "input" => x.held \subseteq {"handoff"})

Plainly(st, x, y) ==
    /\ x.phase # "begun"
    /\ \/ st[1] \in {"kill", "forget"} /\ y = x
       \/ st[1] = "raise" /\ Open(st[2], x) /\ y = x
       \/ st[1] = "look" /\ x.held = {} /\ y = x
       \/ st[1] = "latch" /\ Stays(x, y) /\ y.latched = TRUE /\ y.parted = x.parted /\ y.none = x.none
       \/ st[1] = "gone" /\ x.parted /\ x.none = Workers /\ y = x
       \/ /\ st[1] \in {"retire", "joined"} /\ Open(st[2], x)
          /\ Stays(x, y) /\ y.latched = x.latched /\ y.parted = x.parted
          /\ y.none = IF x.latched THEN x.none \cup {st[2]} ELSE x.none
       \/ st[1] = "paint" /\ x.phase = "joined" /\ "life" \in x.held /\ y = x
       \/ st[1] = "paint" /\ x.paint /\ Becomes(y, x.held, x.phase, FALSE, x.claim) /\ Keeps(x, y)

Inside(st, x, y) ==
    \/ /\ st[1] = "tell" /\ "life" \in x.held /\ x.phase # "begun" /\ Keeps(x, y)
       /\ Becomes(y, x.held, "told", x.paint, x.claim)
    \/ /\ st[1] = "join" /\ x.phase = "told" /\ "life" \in x.held
       /\ Becomes(y, x.held, "joined", x.paint, x.claim)
       /\ y.latched = x.latched /\ y.parted = x.latched /\ y.none = x.none
    \/ st[1] = "begin" /\ x.phase = "joined" /\ Becomes(y, x.held, "begun", FALSE, x.claim) /\ Keeps(x, y)
    \/ /\ st[1] = "settle" /\ x.phase = "joined" /\ Keeps(x, y)
       /\ Becomes(y, x.held, "joined", "handoff" \in x.held, x.claim)
    \/ /\ x.phase # "begun" /\ "pause" \in x.held /\ Keeps(x, y)
       /\ \/ st[1] = "hold" /\ Becomes(y, x.held, x.phase, x.paint, "held")
          \/ st[1] = "freeze" /\ x.claim = "held" /\ Becomes(y, x.held, x.phase, x.paint, "kept")
          \/ st[1] = "release" /\ Becomes(y, x.held, x.phase, x.paint, "any")
          \/ st[1] = "thaw" /\ Becomes(y, x.held, x.phase, x.paint, "kept")

Locks(st, x, y) ==
    /\ Keeps(x, y)
    /\ \/ /\ st[1] = "lock" /\ st[2] \in Mutexes \ x.held /\ x.phase # "begun"
          /\ x.held \subseteq (IF st[2] = "life" THEN {"handoff"} ELSE {})
          /\ Becomes(y, x.held \cup {st[2]}, x.phase, x.paint, IF st[2] = "pause" THEN "kept" ELSE x.claim)
       \/ /\ st[1] = "unlock" /\ st[2] \in x.held
          /\ st[2] = "pause" => x.claim = "kept"
          /\ x.phase = "begun" => st[2] = "life"
          /\ Becomes(y, x.held \ {st[2]}, IF st[2] = "life" THEN "out" ELSE x.phase,
                     x.paint /\ st[2] # "handoff", IF st[2] = "pause" THEN "any" ELSE x.claim)

MayStep(st, x, y) == Plainly(st, x, y) \/ Inside(st, x, y) \/ Locks(st, x, y)

Leads(s, x, y) ==
    \E h \in [1..(Len(s) + 1) -> Marks] :
        h[1] = x /\ h[Len(s) + 1] = y /\ \A i \in 1..Len(s) : MayStep(s[i], h[i], h[i + 1])

Verbs == {"tell", "kill", "join", "begin", "settle", "forget",
          "look", "latch", "gone", "paint", "hold", "freeze", "release", "thaw"}
Grips == {"lock", "unlock", "retire", "raise"}
Steps == {<<n>> : n \in Verbs} \cup Grips \X (Workers \cup Mutexes)
Joins == {"joined"} \X Workers

LEMMA LeadsOne ==
  ASSUME NEW st, NEW x \in Marks, NEW y \in Marks, MayStep(st, x, y)
  PROVE  Leads(<<st>>, x, y)
<1> DEFINE h == [i \in 1..2 |-> IF i = 1 THEN x ELSE y]
<1>1. Len(<<st>>) = 1 /\ <<st>>[1] = st
  OBVIOUS
<1>2. h \in [1..2 -> Marks] /\ h[1] = x /\ h[2] = y
  OBVIOUS
<1>3. \A i \in 1..1 : MayStep(<<st>>[i], h[i], h[i + 1])
  <2>1. \A i \in 1..1 : i = 1
    OBVIOUS
  <2> HIDE DEF h
  <2> QED
    BY <1>1, <1>2, <2>1
<1> HIDE DEF h
<1> QED
  BY <1>1, <1>2, <1>3 DEF Leads

LEMMA LeadsOn ==
  ASSUME NEW S, NEW s \in Seq(S), NEW t \in Seq(S), NEW x, NEW y, NEW z, Leads(s, x, y), Leads(t, y, z)
  PROVE  Leads(s \o t, x, z)
<1>1. PICK g \in [1..(Len(s) + 1) -> Marks] : g[1] = x /\ g[Len(s) + 1] = y /\ \A i \in 1..Len(s) : MayStep(s[i], g[i], g[i + 1])
  BY DEF Leads
<1>2. PICK k \in [1..(Len(t) + 1) -> Marks] : k[1] = y /\ k[Len(t) + 1] = z /\ \A i \in 1..Len(t) : MayStep(t[i], k[i], k[i + 1])
  BY DEF Leads
<1> DEFINE n == Len(s)
           m == Len(t)
           h == [i \in 1..(n + m + 1) |-> IF i <= n THEN g[i] ELSE k[i - n]]
<1>3. n \in Nat /\ m \in Nat /\ Len(s \o t) = n + m /\ s \o t \in Seq(S)
  OBVIOUS
<1>4. /\ \A i \in 1..n : (s \o t)[i] = s[i]
      /\ \A i \in (n + 1)..(n + m) : (s \o t)[i] = t[i - n]
  BY <1>3
<1> HIDE DEF n, m
<1>5. h \in [1..(n + m + 1) -> Marks]
  <2> SUFFICES ASSUME NEW i \in 1..(n + m + 1) PROVE (IF i <= n THEN g[i] ELSE k[i - n]) \in Marks
    OBVIOUS
  <2>1. CASE i <= n
    BY <1>1, <1>3, <2>1 DEF n
  <2>2. CASE ~(i <= n)
    <3>1. i - n \in 1..(m + 1)
      BY <1>3, <2>2
    <3> QED
      BY <1>2, <2>2, <3>1 DEF m
  <2> QED
    BY <2>1, <2>2
<1>6. \A i \in 1..(n + m + 1) : h[i] = IF i <= n THEN g[i] ELSE k[i - n]
  OBVIOUS
<1>7. h[n + 1] = y /\ (\A i \in 1..(n + 1) : h[i] = g[i])
  <2>1. h[n + 1] = k[1]
    BY <1>3, <1>6
  <2>2. \A i \in 1..(n + 1) : i <= n \/ i = n + 1
    BY <1>3
  <2>3. \A i \in 1..n : h[i] = g[i]
    BY <1>3, <1>6
  <2>4. g[n + 1] = y
    BY <1>1 DEF n
  <2> HIDE DEF h
  <2> QED
    BY <1>2, <2>1, <2>2, <2>3, <2>4, <1>3
<1>8. \A i \in (n + 1)..(n + m + 1) : h[i] = k[i - n]
  BY <1>3, <1>6
<1> HIDE DEF h
<1>9. \A i \in 1..(n + m) : MayStep((s \o t)[i], h[i], h[i + 1])
  <2> SUFFICES ASSUME NEW i \in 1..(n + m) PROVE MayStep((s \o t)[i], h[i], h[i + 1])
    OBVIOUS
  <2>1. CASE i <= n
    <3>1. i \in 1..n /\ i \in 1..(n + 1) /\ i + 1 \in 1..(n + 1)
      BY <1>3, <2>1
    <3>2. MayStep(s[i], g[i], g[i + 1])
      BY <1>1, <3>1 DEF n
    <3> QED
      BY <1>4, <1>7, <3>1, <3>2
  <2>2. CASE ~(i <= n)
    <3>1. i \in (n + 1)..(n + m) /\ i \in (n + 1)..(n + m + 1) /\ i + 1 \in (n + 1)..(n + m + 1) /\ i - n \in 1..m
          /\ (i + 1) - n = (i - n) + 1
      BY <1>3, <2>2
    <3>2. MayStep(t[i - n], k[i - n], k[(i - n) + 1])
      BY <1>2, <3>1 DEF m
    <3>3. h[i] = k[i - n] /\ h[i + 1] = k[(i - n) + 1]
      BY <1>8, <3>1
    <3> QED
      BY <1>4, <3>1, <3>2, <3>3
  <2> QED
    BY <2>1, <2>2
<1>10. h[1] = x /\ h[n + m + 1] = z
  <2>1. h[1] = g[1]
    BY <1>3, <1>7
  <2>2. n + m + 1 \in (n + 1)..(n + m + 1) /\ (n + m + 1) - n = m + 1
    BY <1>3
  <2>3. h[n + m + 1] = k[m + 1]
    BY <1>8, <2>2
  <2> QED
    BY <1>1, <1>2, <2>1, <2>3 DEF m
<1> QED
  BY <1>3, <1>5, <1>9, <1>10 DEF Leads

LEMMA LeadsBegins ==
  ASSUME NEW S, NEW s \in Seq(S), s # <<>>, NEW x, NEW z, Leads(s, x, z)
  PROVE  \E y \in Marks : MayStep(Head(s), x, y) /\ Leads(Tail(s), y, z)
<1>1. PICK h \in [1..(Len(s) + 1) -> Marks] : h[1] = x /\ h[Len(s) + 1] = z /\ \A i \in 1..Len(s) : MayStep(s[i], h[i], h[i + 1])
  BY DEF Leads
<1> DEFINE n == Len(s)
           g == [i \in 1..n |-> h[i + 1]]
<1>2. n \in Nat /\ n > 0 /\ Head(s) = s[1] /\ Len(Tail(s)) = n - 1
  OBVIOUS
<1>3. \A i \in 1..(n - 1) : Tail(s)[i] = s[i + 1]
  OBVIOUS
<1> HIDE DEF n
<1>4. g \in [1..n -> Marks] /\ \A i \in 1..n : g[i] = h[i + 1]
  <2>1. \A i \in 1..n : i + 1 \in 1..(n + 1)
    BY <1>2
  <2>2. \A i \in 1..n : h[i + 1] \in Marks
    BY <1>1, <2>1 DEF n
  <2> QED
    BY <2>2
<1> HIDE DEF g
<1>5. MayStep(Head(s), x, h[2]) /\ h[2] \in Marks /\ g[1] = h[2]
  <2>1. 1 \in 1..n /\ 2 \in 1..(n + 1) /\ 1 + 1 = 2
    BY <1>2
  <2>2. MayStep(s[1], h[1], h[2])
    BY <1>1, <2>1 DEF n
  <2> QED
    BY <1>1, <1>2, <1>4, <2>1, <2>2 DEF n
<1>6. g[n] = z
  BY <1>1, <1>2, <1>4 DEF n
<1>7. \A i \in 1..(n - 1) : MayStep(Tail(s)[i], g[i], g[i + 1])
  <2> SUFFICES ASSUME NEW i \in 1..(n - 1) PROVE MayStep(Tail(s)[i], g[i], g[i + 1])
    OBVIOUS
  <2>1. i + 1 \in 1..n /\ i \in 1..n
    BY <1>2
  <2>2. MayStep(s[i + 1], h[i + 1], h[(i + 1) + 1])
    BY <1>1, <2>1 DEF n
  <2> QED
    BY <1>3, <1>4, <2>1, <2>2
<1>8. (n - 1) + 1 = n
  BY <1>2
<1>9. Leads(Tail(s), g[1], z)
  <2>1. g \in [1..(Len(Tail(s)) + 1) -> Marks] /\ g[Len(Tail(s)) + 1] = z
    BY <1>2, <1>4, <1>6, <1>8
  <2> QED
    BY <1>2, <1>7, <2>1 DEF Leads
<1> QED
  BY <1>5, <1>9

LEMMA LeadsFirst ==
  ASSUME NEW S, NEW s \in Seq(S), NEW st \in S, NEW x \in Marks, NEW y \in Marks, NEW z, MayStep(st, x, y), Leads(s, y, z)
  PROVE  Leads(<<st>> \o s, x, z)
<1>1. <<st>> \in Seq(S)
  OBVIOUS
<1> QED
  BY <1>1, LeadsOne, LeadsOn

LEMMA LeadsTwo ==
  ASSUME NEW s1, NEW s2, NEW x1 \in Marks, NEW x2 \in Marks, NEW x3 \in Marks,
         MayStep(s1, x1, x2), MayStep(s2, x2, x3)
  PROVE  Leads(<<s1, s2>>, x1, x3)
<1> DEFINE s == <<s1, s2>>
           h == <<x1, x2, x3>>
<1>1. Len(s) = 2 /\ s[1] = s1 /\ s[2] = s2 /\ h[1] = x1 /\ h[2] = x2 /\ h[3] = x3 /\ h \in [1..3 -> Marks]
  OBVIOUS
<1> HIDE DEF s, h
<1>2. \A i \in 1..2 : MayStep(s[i], h[i], h[i + 1])
  <2>1. \A i \in 1..2 : i = 1 \/ i = 2
    OBVIOUS
  <2> QED
    BY <1>1, <2>1
<1>3. Leads(s, x1, x3)
  BY <1>1, <1>2 DEF Leads
<1> QED
  BY <1>3 DEF s

LEMMA LeadsFour ==
  ASSUME NEW s1, NEW s2, NEW s3, NEW s4,
         NEW x1 \in Marks, NEW x2 \in Marks, NEW x3 \in Marks, NEW x4 \in Marks, NEW x5 \in Marks,
         MayStep(s1, x1, x2), MayStep(s2, x2, x3), MayStep(s3, x3, x4), MayStep(s4, x4, x5)
  PROVE  Leads(<<s1, s2, s3, s4>>, x1, x5)
<1> DEFINE s == <<s1, s2, s3, s4>>
           h == <<x1, x2, x3, x4, x5>>
<1>1. Len(s) = 4 /\ s[1] = s1 /\ s[2] = s2 /\ s[3] = s3 /\ s[4] = s4
      /\ h[1] = x1 /\ h[2] = x2 /\ h[3] = x3 /\ h[4] = x4 /\ h[5] = x5 /\ h \in [1..5 -> Marks]
  OBVIOUS
<1> HIDE DEF s, h
<1>2. \A i \in 1..4 : MayStep(s[i], h[i], h[i + 1])
  <2>1. \A i \in 1..4 : i = 1 \/ i = 2 \/ i = 3 \/ i = 4
    OBVIOUS
  <2> QED
    BY <1>1, <2>1
<1>3. Leads(s, x1, x5)
  BY <1>1, <1>2 DEF Leads
<1> QED
  BY <1>3 DEF s

LEMMA LeadsFive ==
  ASSUME NEW s1, NEW s2, NEW s3, NEW s4, NEW s5,
         NEW x1 \in Marks, NEW x2 \in Marks, NEW x3 \in Marks, NEW x4 \in Marks, NEW x5 \in Marks, NEW x6 \in Marks,
         MayStep(s1, x1, x2), MayStep(s2, x2, x3), MayStep(s3, x3, x4), MayStep(s4, x4, x5), MayStep(s5, x5, x6)
  PROVE  Leads(<<s1, s2, s3, s4, s5>>, x1, x6)
<1> DEFINE s == <<s1, s2, s3, s4, s5>>
           h == <<x1, x2, x3, x4, x5, x6>>
<1>1. Len(s) = 5 /\ s[1] = s1 /\ s[2] = s2 /\ s[3] = s3 /\ s[4] = s4 /\ s[5] = s5
      /\ h[1] = x1 /\ h[2] = x2 /\ h[3] = x3 /\ h[4] = x4 /\ h[5] = x5 /\ h[6] = x6 /\ h \in [1..6 -> Marks]
  OBVIOUS
<1> HIDE DEF s, h
<1>2. \A i \in 1..5 : MayStep(s[i], h[i], h[i + 1])
  <2>1. \A i \in 1..5 : i = 1 \/ i = 2 \/ i = 3 \/ i = 4 \/ i = 5
    OBVIOUS
  <2> QED
    BY <1>1, <2>1
<1>3. Leads(s, x1, x6)
  BY <1>1, <1>2 DEF Leads
<1> QED
  BY <1>3 DEF s

\* The steps without an object.
LEMMA DoSteps ==
  /\ \A a : Do(<<a>>) = <<<<a>>>>
  /\ \A a, b : Do(<<a, b>>) = <<<<a>>, <<b>>>>
  /\ \A a, b, c, d : Do(<<a, b, c, d>>) = <<<<a>>, <<b>>, <<c>>, <<d>>>>
  /\ \A a, b, c, d, e : Do(<<a, b, c, d, e>>) = <<<<a>>, <<b>>, <<c>>, <<d>>, <<e>>>>
<1>1. ASSUME NEW a PROVE Do(<<a>>) = <<<<a>>>>
  BY DEF Do
<1>2. ASSUME NEW a, NEW b PROVE Do(<<a, b>>) = <<<<a>>, <<b>>>>
  BY DEF Do
<1>3. ASSUME NEW a, NEW b, NEW c, NEW d PROVE Do(<<a, b, c, d>>) = <<<<a>>, <<b>>, <<c>>, <<d>>>>
  BY DEF Do
<1>4. ASSUME NEW a, NEW b, NEW c, NEW d, NEW e
      PROVE  Do(<<a, b, c, d, e>>) = <<<<a>>, <<b>>, <<c>>, <<d>>, <<e>>>>
  BY DEF Do
<1> QED
  BY <1>1, <1>2, <1>3, <1>4, Zenon

LEMMA StepsAreSteps ==
  /\ \A n \in Verbs : <<n>> \in Steps
  /\ \A w \in Workers : <<"retire", w>> \in Steps /\ <<"raise", w>> \in Steps
  /\ \A m \in Mutexes : <<"lock", m>> \in Steps /\ <<"unlock", m>> \in Steps
<1>1. \A n \in Verbs : <<n>> \in Steps
  BY DEF Steps
<1>2. \A n \in Grips, o \in Workers \cup Mutexes : <<n, o>> \in Steps
  BY DEF Steps
<1>3. {"retire", "raise", "lock", "unlock"} \subseteq Grips
  BY DEF Grips
<1> QED
  BY <1>1, <1>2, <1>3

\* A locked stretch of a call.
LEMMA LeadsLocked ==
  ASSUME NEW steps \in Seq(Steps), NEW m \in Mutexes, NEW x \in Marks, NEW y \in Marks, NEW y2 \in Marks, NEW z \in Marks,
         MayStep(<<"lock", m>>, x, y), Leads(steps, y, y2), MayStep(<<"unlock", m>>, y2, z)
  PROVE  Leads(Locked(m, steps), x, z) /\ Locked(m, steps) \in Seq(Steps)
<1>1. <<<<"lock", m>>>> \in Seq(Steps) /\ <<<<"unlock", m>>>> \in Seq(Steps)
  BY StepsAreSteps
<1>2. Leads(<<<<"lock", m>>>>, x, y) /\ Leads(<<<<"unlock", m>>>>, y2, z)
  BY LeadsOne
<1>3. Leads(<<<<"lock", m>>>> \o steps, x, y2)
  BY <1>1, <1>2, LeadsOn
<1>5. <<<<"lock", m>>>> \o steps \in Seq(Steps)
  BY <1>1
<1>4. Leads((<<<<"lock", m>>>> \o steps) \o <<<<"unlock", m>>>>, x, z)
  BY <1>1, <1>2, <1>3, <1>5, LeadsOn
<1>6. (<<<<"lock", m>>>> \o steps) \o <<<<"unlock", m>>>> \in Seq(Steps)
  BY <1>1, <1>5
<1> QED
  BY <1>4, <1>6 DEF Locked

\* The mark of a call that is inside lifeMu_ and has told, joined or begun the session.
Amid(H, ph, p) == [held |-> H, phase |-> ph, paint |-> p, latched |-> FALSE, parted |-> FALSE,
                   none |-> {}, claim |-> "any"]

Mark(H, p) == Amid(H, "out", p)

LEMMA AmidIsMark ==
  ASSUME NEW H \in SUBSET Mutexes, NEW p \in BOOLEAN, NEW ph \in {"out", "told", "joined", "begun"}
  PROVE  Amid(H, ph, p) \in Marks /\ Mark(H, p) \in Marks
BY DEF Amid, Mark, Marks

LEMMA MayRetire ==
  ASSUME NEW H, NEW p, NEW w \in Workers, w = "input" => H \subseteq {"handoff"}, NEW ph, ph # "begun"
  PROVE  /\ MayStep(<<"retire", w>>, Amid(H, ph, p), Amid(H, ph, p))
         /\ MayStep(<<"raise", w>>, Amid(H, ph, p), Amid(H, ph, p))
         /\ MayStep(<<"kill">>, Amid(H, ph, p), Amid(H, ph, p))
         /\ MayStep(<<"forget">>, Amid(H, ph, p), Amid(H, ph, p))
<1>1. <<"retire", w>>[1] = "retire" /\ <<"retire", w>>[2] = w /\ <<"raise", w>>[1] = "raise"
      /\ <<"kill">>[1] = "kill" /\ <<"forget">>[1] = "forget"
  OBVIOUS
<1> QED
  BY <1>1 DEF MayStep, Plainly, Stays, Becomes, Keeps, Amid, Open

LEMMA MayJoin ==
  ASSUME NEW H, NEW p, "life" \in H
  PROVE  /\ MayStep(<<"tell">>, Amid(H, "out", p), Amid(H, "told", p))
         /\ MayStep(<<"join">>, Amid(H, "told", p), Amid(H, "joined", p))
         /\ MayStep(<<"begin">>, Amid(H, "joined", p), Amid(H, "begun", FALSE))
         /\ MayStep(<<"settle">>, Amid(H, "joined", p), Amid(H, "joined", "handoff" \in H))
         /\ MayStep(<<"paint">>, Amid(H, "joined", p), Amid(H, "joined", p))
<1>1. <<"join">>[1] = "join" /\ <<"begin">>[1] = "begin" /\ <<"settle">>[1] = "settle" /\ <<"paint">>[1] = "paint"
      /\ <<"tell">>[1] = "tell"
  OBVIOUS
<1>6. Inside(<<"tell">>, Amid(H, "out", p), Amid(H, "told", p))
  BY <1>1 DEF Inside, Becomes, Keeps, Amid
<1>2. Inside(<<"join">>, Amid(H, "told", p), Amid(H, "joined", p))
  BY <1>1 DEF Inside, Becomes, Amid
<1>3. Inside(<<"begin">>, Amid(H, "joined", p), Amid(H, "begun", FALSE))
  BY <1>1 DEF Inside, Becomes, Keeps, Amid
<1>4. Inside(<<"settle">>, Amid(H, "joined", p), Amid(H, "joined", "handoff" \in H))
  BY <1>1 DEF Inside, Becomes, Keeps, Amid
<1>5. Plainly(<<"paint">>, Amid(H, "joined", p), Amid(H, "joined", p))
  BY <1>1 DEF Plainly, Amid
<1> QED
  BY <1>2, <1>3, <1>4, <1>5, <1>6 DEF MayStep

LEMMA MayLock ==
  ASSUME NEW H, NEW p \in BOOLEAN, NEW m \in {"life", "handoff"}, m \notin H,
         H \subseteq (IF m = "life" THEN {"handoff"} ELSE {}), NEW ph, ph = "begun" => m = "life"
  PROVE  /\ MayStep(<<"lock", m>>, Amid(H, "out", p), Amid(H \cup {m}, "out", p))
         /\ MayStep(<<"unlock", m>>, Amid(H \cup {m}, ph, p),
                    Amid(H, IF m = "life" THEN "out" ELSE ph, p /\ m # "handoff"))
<1>1. <<"lock", m>>[1] = "lock" /\ <<"lock", m>>[2] = m /\ <<"unlock", m>>[1] = "unlock" /\ <<"unlock", m>>[2] = m
  OBVIOUS
<1>2. m \in Mutexes /\ m # "pause" /\ (H \cup {m}) \ {m} = H /\ m \in H \cup {m}
  BY DEF Mutexes
<1>3. Locks(<<"lock", m>>, Amid(H, "out", p), Amid(H \cup {m}, "out", p))
  BY <1>1, <1>2 DEF Locks, Becomes, Keeps, Amid
<1>4. Locks(<<"unlock", m>>, Amid(H \cup {m}, ph, p), Amid(H, IF m = "life" THEN "out" ELSE ph, p /\ m # "handoff"))
  BY <1>1, <1>2 DEF Locks, Becomes, Keeps, Amid
<1> QED
  BY <1>3, <1>4 DEF MayStep

LEMMA LeadsThen ==
  ASSUME NEW s \in Seq(Steps), NEW t \in Seq(Steps), NEW x, NEW y, NEW z, Leads(s, x, y), Leads(t, y, z)
  PROVE  s \o t \in Seq(Steps) /\ Leads(s \o t, x, z)
<1>1. s \o t \in Seq(Steps)
  OBVIOUS
<1> QED
  BY <1>1, LeadsOn

LEMMA WorkerCalls ==
  ASSUME NEW H \in SUBSET Mutexes, NEW p \in BOOLEAN, NEW w \in Workers, NEW ph \in {"out", "told", "joined"},
         w = "input" => H \subseteq {"handoff"}
  PROVE  /\ Retiring(w) \in Seq(Steps) /\ Leads(Retiring(w), Amid(H, ph, p), Amid(H, ph, p))
         /\ Raising(w) \in Seq(Steps) /\ Leads(Raising(w), Amid(H, ph, p), Amid(H, ph, p))
<1>1. Amid(H, ph, p) \in Marks /\ ph # "begun"
  BY AmidIsMark
<1>4. <<"retire", w>> \in Steps /\ <<"raise", w>> \in Steps
  BY StepsAreSteps
<1>2. <<<<"retire", w>>>> \in Seq(Steps) /\ <<<<"raise", w>>>> \in Seq(Steps)
  BY <1>4
<1>3. MayStep(<<"retire", w>>, Amid(H, ph, p), Amid(H, ph, p)) /\ MayStep(<<"raise", w>>, Amid(H, ph, p), Amid(H, ph, p))
  BY <1>1, MayRetire
<1> QED
  BY <1>1, <1>2, <1>3, LeadsOne DEF Retiring, Raising

LEMMA DoTyped ==
  ASSUME NEW a \in Verbs, NEW b \in Verbs, NEW c \in Verbs, NEW d \in Verbs, NEW e \in Verbs
  PROVE  /\ Do(<<a>>) \in Seq(Steps) /\ Do(<<a, b>>) \in Seq(Steps)
         /\ Do(<<a, b, c, d>>) \in Seq(Steps) /\ Do(<<a, b, c, d, e>>) \in Seq(Steps)
<1>1. <<a>> \in Steps /\ <<b>> \in Steps /\ <<c>> \in Steps /\ <<d>> \in Steps /\ <<e>> \in Steps
  BY StepsAreSteps
<1> HIDE DEF Steps
<1>2. <<<<a>>>> \in Seq(Steps) /\ <<<<a>>, <<b>>>> \in Seq(Steps)
      /\ <<<<a>>, <<b>>, <<c>>, <<d>>>> \in Seq(Steps) /\ <<<<a>>, <<b>>, <<c>>, <<d>>, <<e>>>> \in Seq(Steps)
  BY <1>1
<1>3. /\ Do(<<a>>) = <<<<a>>>> /\ Do(<<a, b>>) = <<<<a>>, <<b>>>>
      /\ Do(<<a, b, c, d>>) = <<<<a>>, <<b>>, <<c>>, <<d>>>>
      /\ Do(<<a, b, c, d, e>>) = <<<<a>>, <<b>>, <<c>>, <<d>>, <<e>>>>
  BY DoSteps
<1> QED
  BY <1>2, <1>3

LEMMA PlayLeads ==
  ASSUME NEW H \in SUBSET {"handoff"}, NEW p \in BOOLEAN
  PROVE  Play \in Seq(Steps) /\ Leads(Play, Mark(H, p), Mark(H, FALSE))
<1> DEFINE G == H \cup {"life"}
           inner == Do(<<"tell", "kill", "join", "begin">>)
<1>1. G \in SUBSET Mutexes /\ H \in SUBSET Mutexes /\ "life" \notin H /\ "life" \in G /\ "life" \in Mutexes /\ "idle" \in Workers
  BY DEF Mutexes, Workers
<1>11. "tell" \in Verbs /\ "kill" \in Verbs /\ "join" \in Verbs /\ "begin" \in Verbs
  BY DEF Verbs
<1>2. inner \in Seq(Steps)
  BY <1>11, DoTyped, Zenon
<1> HIDE DEF G
<1>3. /\ Amid(G, "out", p) \in Marks /\ Amid(G, "told", p) \in Marks /\ Amid(G, "joined", p) \in Marks /\ Amid(G, "begun", FALSE) \in Marks
      /\ Mark(H, p) \in Marks /\ Mark(H, FALSE) \in Marks
  BY <1>1, AmidIsMark
<1>4. MayStep(<<"tell">>, Amid(G, "out", p), Amid(G, "told", p)) /\ MayStep(<<"kill">>, Amid(G, "told", p), Amid(G, "told", p))
  BY <1>1, MayRetire, MayJoin
<1>5. MayStep(<<"join">>, Amid(G, "told", p), Amid(G, "joined", p))
      /\ MayStep(<<"begin">>, Amid(G, "joined", p), Amid(G, "begun", FALSE))
  BY <1>1, MayJoin
<1>6. Leads(inner, Amid(G, "out", p), Amid(G, "begun", FALSE))
  <2>1. inner = <<<<"tell">>, <<"kill">>, <<"join">>, <<"begin">>>>
    BY DoSteps
  <2>2. Leads(<<<<"tell">>, <<"kill">>, <<"join">>, <<"begin">>>>, Amid(G, "out", p), Amid(G, "begun", FALSE))
    BY <1>3, <1>4, <1>5, LeadsFour, Zenon
  <2> QED
    BY <2>1, <2>2, Zenon
<1>7. MayStep(<<"lock", "life">>, Mark(H, p), Amid(G, "out", p))
  BY <1>1, MayLock DEF G, Mark
<1>8. MayStep(<<"unlock", "life">>, Amid(G, "begun", FALSE), Mark(H, FALSE))
  <2>1. (IF "life" = "life" THEN "out" ELSE "begun") = "out" /\ (FALSE /\ "life" # "handoff") = FALSE
    OBVIOUS
  <2>2. MayStep(<<"unlock", "life">>, Amid(H \cup {"life"}, "begun", FALSE),
                Amid(H, IF "life" = "life" THEN "out" ELSE "begun", FALSE /\ "life" # "handoff"))
    BY <1>1, MayLock
  <2> QED
    BY <2>2 DEF G, Mark
<1> HIDE DEF inner
<1>9. Leads(Locked("life", inner), Mark(H, p), Mark(H, FALSE)) /\ Locked("life", inner) \in Seq(Steps)
  BY <1>1, <1>2, <1>3, <1>6, <1>7, <1>8, LeadsLocked
<1>10. Retiring("idle") \in Seq(Steps) /\ Leads(Retiring("idle"), Mark(H, p), Mark(H, p))
  BY <1>1, WorkerCalls DEF Mark
<1> QED
  BY <1>9, <1>10, LeadsThen DEF Play, inner

LEMMA PaintLeads ==
  /\ Do(<<"paint">>) \in Seq(Steps)
  /\ \A H \in SUBSET Mutexes, p \in BOOLEAN :
       "life" \in H => Leads(Do(<<"paint">>), Amid(H, "joined", p), Amid(H, "joined", p))
  /\ \A H \in SUBSET Mutexes : Leads(Do(<<"paint">>), Mark(H, TRUE), Mark(H, FALSE))
<1>5. "paint" \in Verbs
  BY DEF Verbs
<1>1. Do(<<"paint">>) \in Seq(Steps)
  BY <1>5, DoTyped, Zenon
<1>2. Do(<<"paint">>) = <<<<"paint">>>>
  BY DoSteps
<1>3. ASSUME NEW H \in SUBSET Mutexes, NEW p \in BOOLEAN, "life" \in H
      PROVE  Leads(<<<<"paint">>>>, Amid(H, "joined", p), Amid(H, "joined", p))
  BY <1>3, AmidIsMark, MayJoin, LeadsOne
<1>4. ASSUME NEW H \in SUBSET Mutexes
      PROVE  Leads(<<<<"paint">>>>, Mark(H, TRUE), Mark(H, FALSE))
  <2>1. Mark(H, TRUE) \in Marks /\ Mark(H, FALSE) \in Marks
    BY AmidIsMark
  <2>2. MayStep(<<"paint">>, Mark(H, TRUE), Mark(H, FALSE))
    <3>1. <<"paint">>[1] = "paint"
      OBVIOUS
    <3> QED
      BY <3>1 DEF MayStep, Plainly, Becomes, Keeps, Mark, Amid
  <2> QED
    BY <2>1, <2>2, LeadsOne
<1> QED
  BY <1>1, <1>2, <1>3, <1>4

LEMMA StopLeads ==
  ASSUME NEW H \in SUBSET {"handoff"}, NEW p \in BOOLEAN
  PROVE  Stop \in Seq(Steps) /\ Leads(Stop, Mark(H, p), Mark(H, "handoff" \in H))
<1> DEFINE G == H \cup {"life"}
           q == "handoff" \in H
           first == Do(<<"tell", "kill", "join", "settle", "forget">>)
           J == Amid(G, "joined", q)
           s1 == first \o Retiring("osd")
           s2 == s1 \o Retiring("idle")
           s3 == s2 \o Do(<<"paint">>)
           s4 == s3 \o Raising("idle")
           s5 == s4 \o Raising("osd")
<1>1. /\ G \in SUBSET Mutexes /\ H \in SUBSET Mutexes /\ "life" \notin H /\ "life" \in G /\ "life" \in Mutexes /\ "idle" \in Workers /\ "osd" \in Workers
      /\ q \in BOOLEAN /\ q = ("handoff" \in G)
  BY DEF Mutexes, Workers
<1>2. "tell" \in Verbs /\ "kill" \in Verbs /\ "join" \in Verbs /\ "settle" \in Verbs /\ "forget" \in Verbs
  BY DEF Verbs
<1>3. first \in Seq(Steps)
  BY <1>2, DoTyped, Zenon
<1>4. first = <<<<"tell">>, <<"kill">>, <<"join">>, <<"settle">>, <<"forget">>>>
  BY DoSteps
<1>13. Stop = Locked("life", s5)
  BY DEF Stop
<1>5. MayStep(<<"lock", "life">>, Mark(H, p), Amid(G, "out", p))
  BY <1>1, MayLock DEF Mark
<1>6. MayStep(<<"unlock", "life">>, J, Mark(H, q))
  <2>1. (IF "life" = "life" THEN "out" ELSE "joined") = "out" /\ (q /\ "life" # "handoff") = q
    BY <1>1
  <2>2. MayStep(<<"unlock", "life">>, Amid(H \cup {"life"}, "joined", q),
                Amid(H, IF "life" = "life" THEN "out" ELSE "joined", q /\ "life" # "handoff"))
    BY <1>1, MayLock
  <2> QED
    BY <2>1, <2>2 DEF Mark
<1> HIDE DEF G, q
<1>7. /\ Amid(G, "out", p) \in Marks /\ Amid(G, "told", p) \in Marks /\ Amid(G, "joined", p) \in Marks /\ J \in Marks
      /\ Mark(H, p) \in Marks /\ Mark(H, q) \in Marks
  BY <1>1, AmidIsMark
<1>8. /\ MayStep(<<"tell">>, Amid(G, "out", p), Amid(G, "told", p))
      /\ MayStep(<<"kill">>, Amid(G, "told", p), Amid(G, "told", p))
      /\ MayStep(<<"join">>, Amid(G, "told", p), Amid(G, "joined", p))
      /\ MayStep(<<"forget">>, J, J)
  BY <1>1, MayRetire, MayJoin
<1>9. MayStep(<<"settle">>, Amid(G, "joined", p), J)
  <2>1. MayStep(<<"settle">>, Amid(G, "joined", p), Amid(G, "joined", "handoff" \in G))
    BY <1>1, MayJoin
  <2> QED
    BY <1>1, <2>1
<1> HIDE DEF J
<1>10. Leads(first, Amid(G, "out", p), J)
  <2> DEFINE A == Amid(G, "out", p)
             B == Amid(G, "told", p)
             C == Amid(G, "joined", p)
  <2>1. /\ MayStep(<<"tell">>, A, B) /\ MayStep(<<"kill">>, B, B) /\ MayStep(<<"join">>, B, C)
        /\ MayStep(<<"settle">>, C, J) /\ MayStep(<<"forget">>, J, J)
        /\ A \in Marks /\ B \in Marks /\ C \in Marks /\ J \in Marks
    BY <1>7, <1>8, <1>9
  <2> HIDE DEF A, B, C
  <2>2. Leads(<<<<"tell">>, <<"kill">>, <<"join">>, <<"settle">>, <<"forget">>>>, A, J)
    BY <2>1, LeadsFive
  <2> QED
    BY <1>4, <2>2 DEF A
<1>11. /\ \A w \in {"idle", "osd"} : Retiring(w) \in Seq(Steps) /\ Leads(Retiring(w), J, J)
       /\ \A w \in {"idle", "osd"} : Raising(w) \in Seq(Steps) /\ Leads(Raising(w), J, J)
       /\ Do(<<"paint">>) \in Seq(Steps) /\ Leads(Do(<<"paint">>), J, J)
  BY <1>1, WorkerCalls, PaintLeads DEF J
<1> HIDE DEF first
<1>12. s5 \in Seq(Steps) /\ Leads(s5, Amid(G, "out", p), J)
  <2>1. s1 \in Seq(Steps) /\ Leads(s1, Amid(G, "out", p), J)
    BY <1>1, <1>3, <1>10, <1>11, LeadsThen
  <2> HIDE DEF s1
  <2>2. s2 \in Seq(Steps) /\ Leads(s2, Amid(G, "out", p), J)
    BY <1>1, <1>11, <2>1, LeadsThen
  <2> HIDE DEF s2
  <2>3. s3 \in Seq(Steps) /\ Leads(s3, Amid(G, "out", p), J)
    BY <1>11, <2>2, LeadsThen
  <2> HIDE DEF s3
  <2>4. s4 \in Seq(Steps) /\ Leads(s4, Amid(G, "out", p), J)
    BY <1>1, <1>11, <2>3, LeadsThen
  <2> HIDE DEF s4
  <2> QED
    BY <1>1, <1>11, <2>4, LeadsThen
<1> HIDE DEF s5
<1>14. Stop \in Seq(Steps) /\ Leads(Stop, Mark(H, p), Mark(H, q))
  BY <1>1, <1>5, <1>6, <1>7, <1>12, <1>13, LeadsLocked
<1> QED
  BY <1>14 DEF q

LEMMA SuspendLeads ==
  ASSUME NEW H \in SUBSET {"handoff"}, NEW p \in BOOLEAN
  PROVE  Suspend \in Seq(Steps) /\ Leads(Suspend, Mark(H, p), Mark(H, p))
<1>4. H \in SUBSET Mutexes
  BY DEF Mutexes
<1>1. \A w \in Workers : Retiring(w) \in Seq(Steps) /\ Leads(Retiring(w), Mark(H, p), Mark(H, p))
  BY <1>4, WorkerCalls DEF Mark
<1>2. "idle" \in Workers /\ "osd" \in Workers /\ "input" \in Workers
  BY DEF Workers
<1>3. /\ Retiring("input") \o Retiring("osd") \in Seq(Steps)
      /\ Leads(Retiring("input") \o Retiring("osd"), Mark(H, p), Mark(H, p))
  BY <1>1, <1>2, LeadsThen
<1> QED
  BY <1>1, <1>2, <1>3, LeadsThen DEF Suspend

\* Where a call may come to: nothing is held, and nothing is left of it.
Derives(s, x) == \E y \in Marks : Leads(s, x, y) /\ y.held = {}

\* main()'s handoff around a call.
LEMMA HandoffLeads ==
  ASSUME NEW steps \in Seq(Steps), NEW p \in BOOLEAN, Leads(steps, Mark({"handoff"}, FALSE), Mark({"handoff"}, p))
  PROVE  Locked("handoff", steps) \in Seq(Steps) /\ Derives(Locked("handoff", steps), Mark({}, FALSE))
<1>1. {"handoff"} \in SUBSET Mutexes /\ {} \in SUBSET Mutexes /\ "handoff" \in Mutexes
  BY DEF Mutexes
<1>2. Mark({}, FALSE) \in Marks /\ Mark({"handoff"}, FALSE) \in Marks /\ Mark({"handoff"}, p) \in Marks
  BY <1>1, AmidIsMark
<1>3. MayStep(<<"lock", "handoff">>, Mark({}, FALSE), Mark({"handoff"}, FALSE))
  <2>1. MayStep(<<"lock", "handoff">>, Amid({}, "out", FALSE), Amid({} \cup {"handoff"}, "out", FALSE))
    BY MayLock
  <2>2. {} \cup {"handoff"} = {"handoff"}
    OBVIOUS
  <2> QED
    BY <2>1, <2>2 DEF Mark
<1>4. MayStep(<<"unlock", "handoff">>, Mark({"handoff"}, p), Mark({}, FALSE))
  <2>1. MayStep(<<"unlock", "handoff">>, Amid({} \cup {"handoff"}, "out", p),
                Amid({}, IF "handoff" = "life" THEN "out" ELSE "out", p /\ "handoff" # "handoff"))
    BY MayLock
  <2>2. {} \cup {"handoff"} = {"handoff"} /\ (p /\ "handoff" # "handoff") = FALSE
        /\ (IF "handoff" = "life" THEN "out" ELSE "out") = "out"
    OBVIOUS
  <2> QED
    BY <2>1, <2>2 DEF Mark
<1>5. Mark({}, FALSE).held = {}
  BY DEF Mark, Amid
<1> QED
  BY <1>1, <1>2, <1>3, <1>4, <1>5, LeadsLocked DEF Derives

\* The mark of pause() and resume() inside pauseControlMu_.
Within(c) == [held |-> {"pause"}, phase |-> "out", paint |-> FALSE, latched |-> FALSE, parted |-> FALSE,
              none |-> {}, claim |-> c]

LEMMA PauseLeads ==
  /\ Pause \in Seq(Steps) /\ Derives(Pause, Mark({}, FALSE))
  /\ Resume \in Seq(Steps) /\ Derives(Resume, Mark({}, FALSE))
<1>1. Within("any") \in Marks /\ Within("held") \in Marks /\ Within("kept") \in Marks
  BY DEF Within, Marks, Mutexes
<1>2. Mark({}, FALSE) \in Marks /\ "pause" \in Mutexes
  BY AmidIsMark DEF Mutexes
<1>3. MayStep(<<"lock", "pause">>, Mark({}, FALSE), Within("kept"))
  <2>1. <<"lock", "pause">>[1] = "lock" /\ <<"lock", "pause">>[2] = "pause" /\ {} \cup {"pause"} = {"pause"}
    OBVIOUS
  <2> QED
    BY <1>2, <2>1 DEF MayStep, Locks, Becomes, Keeps, Within, Mark, Amid
<1>4. MayStep(<<"unlock", "pause">>, Within("kept"), Mark({}, FALSE))
  <2>1. <<"unlock", "pause">>[1] = "unlock" /\ <<"unlock", "pause">>[2] = "pause" /\ {"pause"} \ {"pause"} = {}
    OBVIOUS
  <2> QED
    BY <1>2, <2>1 DEF MayStep, Locks, Becomes, Keeps, Within, Mark, Amid
<1>5. /\ MayStep(<<"hold">>, Within("kept"), Within("held")) /\ MayStep(<<"freeze">>, Within("held"), Within("kept"))
      /\ MayStep(<<"release">>, Within("kept"), Within("any")) /\ MayStep(<<"thaw">>, Within("any"), Within("kept"))
  <2>1. <<"hold">>[1] = "hold" /\ <<"freeze">>[1] = "freeze" /\ <<"release">>[1] = "release" /\ <<"thaw">>[1] = "thaw"
    OBVIOUS
  <2>2. Inside(<<"hold">>, Within("kept"), Within("held"))
    BY <2>1 DEF Inside, Becomes, Keeps, Within
  <2>3. Inside(<<"freeze">>, Within("held"), Within("kept"))
    BY <2>1 DEF Inside, Becomes, Keeps, Within
  <2>4. Inside(<<"release">>, Within("kept"), Within("any"))
    BY <2>1 DEF Inside, Becomes, Keeps, Within
  <2>5. Inside(<<"thaw">>, Within("any"), Within("kept"))
    BY <2>1 DEF Inside, Becomes, Keeps, Within
  <2> QED
    BY <2>2, <2>3, <2>4, <2>5 DEF MayStep
<1>6. Do(<<"hold", "freeze">>) = <<<<"hold">>, <<"freeze">>>> /\ Do(<<"release", "thaw">>) = <<<<"release">>, <<"thaw">>>>
  BY DoSteps
<1>7. "hold" \in Verbs /\ "freeze" \in Verbs /\ "release" \in Verbs /\ "thaw" \in Verbs
  BY DEF Verbs
<1>8. Do(<<"hold", "freeze">>) \in Seq(Steps) /\ Do(<<"release", "thaw">>) \in Seq(Steps)
  BY <1>7, DoTyped, Zenon
<1>9. Leads(Do(<<"hold", "freeze">>), Within("kept"), Within("kept"))
      /\ Leads(Do(<<"release", "thaw">>), Within("kept"), Within("kept"))
  BY <1>1, <1>5, <1>6, LeadsTwo
<1>10. /\ Pause \in Seq(Steps) /\ Leads(Pause, Mark({}, FALSE), Mark({}, FALSE))
       /\ Resume \in Seq(Steps) /\ Leads(Resume, Mark({}, FALSE), Mark({}, FALSE))
  BY <1>1, <1>2, <1>3, <1>4, <1>8, <1>9, LeadsLocked DEF Pause, Resume
<1>11. Mark({}, FALSE).held = {}
  BY DEF Mark, Amid
<1> QED
  BY <1>2, <1>10, <1>11 DEF Derives

\* The mark of shutdown() once it has latched.
Dying(H, ph, pt, n) == [held |-> H, phase |-> ph, paint |-> FALSE, latched |-> TRUE, parted |-> pt,
                        none |-> n, claim |-> "any"]

LEMMA ShutdownLeads ==
  Shutdown \in Seq(Steps) /\ Leads(Shutdown, Mark({}, FALSE), Dying({}, "out", TRUE, Workers))
<1> DEFINE inner == Do(<<"tell", "kill", "join", "settle">>)
           D0 == Dying({}, "out", FALSE, {})
           D1 == Dying({"life"}, "out", FALSE, {})
           DT == Dying({"life"}, "told", FALSE, {})
           D2 == Dying({"life"}, "joined", TRUE, {})
           D3 == Dying({}, "out", TRUE, {})
           D4 == Dying({}, "out", TRUE, {"input"})
           D5 == Dying({}, "out", TRUE, {"input", "osd"})
           D6 == Dying({}, "out", TRUE, Workers)
<1>1. D0 \in Marks /\ D1 \in Marks /\ DT \in Marks /\ D2 \in Marks /\ D3 \in Marks /\ D4 \in Marks /\ D5 \in Marks /\ D6 \in Marks
  BY DEF Dying, Marks, Mutexes, Workers
<1>2. Mark({}, FALSE) \in Marks /\ "life" \in Mutexes /\ "idle" \in Workers /\ "osd" \in Workers /\ "input" \in Workers
  BY AmidIsMark DEF Mutexes, Workers
<1>3. /\ "latch" \in Verbs /\ "gone" \in Verbs /\ "tell" \in Verbs /\ "kill" \in Verbs /\ "join" \in Verbs
      /\ "settle" \in Verbs
  BY DEF Verbs
<1>4. Do(<<"latch">>) \in Seq(Steps) /\ Do(<<"gone">>) \in Seq(Steps) /\ inner \in Seq(Steps)
  BY <1>3, DoTyped, Zenon
<1>5. /\ Do(<<"latch">>) = <<<<"latch">>>> /\ Do(<<"gone">>) = <<<<"gone">>>>
      /\ inner = <<<<"tell">>, <<"kill">>, <<"join">>, <<"settle">>>>
  BY DoSteps
<1>6. MayStep(<<"latch">>, Mark({}, FALSE), D0)
  <2>1. <<"latch">>[1] = "latch"
    OBVIOUS
  <2> QED
    BY <2>1 DEF MayStep, Plainly, Stays, Becomes, Dying, Mark, Amid
<1>7. MayStep(<<"lock", "life">>, D0, D1)
  <2>1. <<"lock", "life">>[1] = "lock" /\ <<"lock", "life">>[2] = "life" /\ {} \cup {"life"} = {"life"}
    OBVIOUS
  <2> QED
    BY <1>2, <2>1 DEF MayStep, Locks, Becomes, Keeps, Dying
<1>8. MayStep(<<"tell">>, D1, DT) /\ MayStep(<<"kill">>, DT, DT)
  <2>1. <<"tell">>[1] = "tell" /\ <<"kill">>[1] = "kill"
    OBVIOUS
  <2> QED
    BY <2>1 DEF MayStep, Plainly, Inside, Becomes, Keeps, Dying
<1>9. MayStep(<<"join">>, DT, D2)
  <2>1. <<"join">>[1] = "join"
    OBVIOUS
  <2> QED
    BY <2>1 DEF MayStep, Inside, Becomes, Dying
<1>10. MayStep(<<"settle">>, D2, D2)
  <2>1. <<"settle">>[1] = "settle" /\ ("handoff" \in {"life"}) = FALSE
    OBVIOUS
  <2> QED
    BY <2>1 DEF MayStep, Inside, Becomes, Keeps, Dying
<1>11. MayStep(<<"unlock", "life">>, D2, D3)
  <2>1. <<"unlock", "life">>[1] = "unlock" /\ <<"unlock", "life">>[2] = "life" /\ {"life"} \ {"life"} = {}
    OBVIOUS
  <2> QED
    BY <1>2, <2>1 DEF MayStep, Locks, Becomes, Keeps, Dying
<1>12. MayStep(<<"retire", "input">>, D3, D4) /\ MayStep(<<"retire", "osd">>, D4, D5) /\ MayStep(<<"retire", "idle">>, D5, D6)
  <2>1. \A w : <<"retire", w>>[1] = "retire" /\ <<"retire", w>>[2] = w
    OBVIOUS
  <2>2. {} \cup {"input"} = {"input"} /\ {"input"} \cup {"osd"} = {"input", "osd"} /\ {"input", "osd"} \cup {"idle"} = Workers
    BY DEF Workers
  <2>3. Plainly(<<"retire", "input">>, D3, D4)
    BY <1>2, <2>1, <2>2 DEF Plainly, Stays, Becomes, Dying, Open
  <2>4. Plainly(<<"retire", "osd">>, D4, D5)
    BY <1>2, <2>1, <2>2 DEF Plainly, Stays, Becomes, Dying, Open
  <2>5. Plainly(<<"retire", "idle">>, D5, D6)
    BY <1>2, <2>1, <2>2 DEF Plainly, Stays, Becomes, Dying, Open
  <2> QED
    BY <2>3, <2>4, <2>5 DEF MayStep
<1>13. MayStep(<<"gone">>, D6, D6)
  <2>1. <<"gone">>[1] = "gone"
    OBVIOUS
  <2> QED
    BY <2>1 DEF MayStep, Plainly, Dying
<1> HIDE DEF D0, D1, DT, D2, D3, D4, D5, D6
<1>14. \A w \in Workers : Retiring(w) \in Seq(Steps) /\ Retiring(w) = <<<<"retire", w>>>>
  <2> SUFFICES ASSUME NEW w \in Workers PROVE <<<<"retire", w>>>> \in Seq(Steps)
    BY DEF Retiring
  <2>1. <<"retire", w>> \in Steps
    BY StepsAreSteps
  <2> QED
    BY <2>1
<1>15. Leads(Retiring("input"), D3, D4) /\ Leads(Retiring("osd"), D4, D5) /\ Leads(Retiring("idle"), D5, D6)
  BY <1>1, <1>2, <1>12, <1>14, LeadsOne
<1>16. Suspend \in Seq(Steps) /\ Leads(Suspend, D3, D6)
  <2>1. Retiring("input") \o Retiring("osd") \in Seq(Steps) /\ Leads(Retiring("input") \o Retiring("osd"), D3, D5)
    BY <1>2, <1>14, <1>15, LeadsThen
  <2> QED
    BY <1>2, <1>14, <1>15, <2>1, LeadsThen DEF Suspend
<1>17. Leads(Do(<<"latch">>), Mark({}, FALSE), D0) /\ Leads(Do(<<"gone">>), D6, D6)
  BY <1>1, <1>2, <1>5, <1>6, <1>13, LeadsOne
<1>18. Leads(inner, D1, D2)
  <2>1. Leads(<<<<"tell">>, <<"kill">>, <<"join">>, <<"settle">>>>, D1, D2)
    BY <1>1, <1>8, <1>9, <1>10, LeadsFour
  <2>2. inner = <<<<"tell">>, <<"kill">>, <<"join">>, <<"settle">>>>
    BY <1>5
  <2> QED
    BY <2>1, <2>2
<1> HIDE DEF inner
<1>19. Locked("life", inner) \in Seq(Steps) /\ Leads(Locked("life", inner), D0, D3)
  BY <1>1, <1>2, <1>4, <1>7, <1>11, <1>18, LeadsLocked
<1> DEFINE s1 == Do(<<"latch">>) \o Locked("life", inner)
           s2 == s1 \o Suspend
<1>20. s1 \in Seq(Steps) /\ Leads(s1, Mark({}, FALSE), D3)
  BY <1>4, <1>17, <1>19, LeadsThen
<1>21. s2 \in Seq(Steps) /\ Leads(s2, Mark({}, FALSE), D6)
  <2> HIDE DEF s1
  <2> QED
    BY <1>16, <1>20, LeadsThen
<1>22. Shutdown = s2 \o Do(<<"gone">>)
  BY DEF Shutdown, inner
<1> HIDE DEF s2
<1>23. Shutdown \in Seq(Steps) /\ Leads(Shutdown, Mark({}, FALSE), D6)
  BY <1>4, <1>17, <1>21, <1>22, LeadsThen
<1> QED
  BY <1>23 DEF D6

\* Every call keeps to its marks, and lets go of what it held.
LEMMA ProgramDerives ==
  ASSUME NEW call \in {"seek", "stop", "castStop", "cast", "castFail", "shutdown", "pause", "resume"}
  PROVE  Program(call) \in Seq(Steps) /\ Derives(Program(call), Mark({}, FALSE))
<1> DEFINE O == Mark({}, FALSE)
           H == {"handoff"}
<1>1. H \in SUBSET {"handoff"} /\ {} \in SUBSET {"handoff"} /\ H \in SUBSET Mutexes /\ {} \in SUBSET Mutexes /\ "life" \notin H /\ "life" \notin {} /\ "handoff" \in H
      /\ "handoff" \notin {} /\ "idle" \in Workers /\ "osd" \in Workers /\ "input" \in Workers
  BY DEF Mutexes, Workers
<1>2. O \in Marks /\ O.held = {}
  BY <1>1, AmidIsMark DEF Mark, Amid
<1>3. Stop \in Seq(Steps) /\ Leads(Stop, O, O) /\ Leads(Stop, Mark(H, FALSE), Mark(H, TRUE))
  <2>1. ("handoff" \in H) = TRUE /\ ("handoff" \in {}) = FALSE
    OBVIOUS
  <2>2. Stop \in Seq(Steps) /\ Leads(Stop, Mark({}, FALSE), Mark({}, "handoff" \in {}))
    BY <1>1, StopLeads
  <2>3. Leads(Stop, Mark(H, FALSE), Mark(H, "handoff" \in H))
    BY <1>1, StopLeads
  <2> QED
    BY <2>1, <2>2, <2>3
<1>4. Play \in Seq(Steps) /\ Leads(Play, O, O) /\ Leads(Play, Mark(H, TRUE), Mark(H, FALSE))
  BY <1>1, PlayLeads
<1>5. Suspend \in Seq(Steps) /\ Leads(Suspend, Mark(H, TRUE), Mark(H, TRUE))
  BY <1>1, SuspendLeads
<1>6. \A w \in Workers : Raising(w) \in Seq(Steps) /\ Leads(Raising(w), Mark(H, FALSE), Mark(H, FALSE))
  BY <1>1, WorkerCalls DEF Mark
<1>7. CASE call = "seek"
  <2>1. "look" \in Verbs
    BY DEF Verbs
  <2>2. Do(<<"look">>) \in Seq(Steps)
    BY <2>1, DoTyped, Zenon
  <2>3. Do(<<"look">>) = <<<<"look">>>>
    BY DoSteps
  <2>4. MayStep(<<"look">>, O, O)
    <3>1. <<"look">>[1] = "look"
      OBVIOUS
    <3> QED
      BY <3>1 DEF MayStep, Plainly, Mark, Amid
  <2>5. Leads(Do(<<"look">>), O, O)
    BY <1>2, <2>3, <2>4, LeadsOne
  <2>6. Program(call) = Do(<<"look">>) \o Play
    BY <1>7 DEF Program
  <2> DEFINE look == Do(<<"look">>)
  <2> HIDE DEF look, O
  <2>8. look \o Play \in Seq(Steps) /\ Leads(look \o Play, O, O)
    BY <1>4, <2>2, <2>5, LeadsThen DEF look
  <2>7. Program(call) \in Seq(Steps) /\ Leads(Program(call), O, O)
    BY <2>6, <2>8 DEF look
  <2> QED
    BY <1>2, <2>7 DEF Derives, O
<1>8. CASE call = "stop"
  <2>1. Program(call) = Stop
    BY <1>8 DEF Program
  <2> QED
    BY <1>2, <1>3, <2>1 DEF Derives
<1>9. CASE call = "castStop"
  <2>1. Program(call) = Locked("handoff", Stop)
    BY <1>9 DEF Program
  <2> QED
    BY <1>3, <2>1, HandoffLeads
<1>10. CASE call = "cast"
  <2> DEFINE s1 == Stop \o Suspend
             s2 == s1 \o Play
             s3 == s2 \o Raising("input")
             s4 == s3 \o Raising("osd")
  <2>1. Program(call) = Locked("handoff", s4)
    BY <1>10 DEF Program
  <2>2. s1 \in Seq(Steps) /\ Leads(s1, Mark(H, FALSE), Mark(H, TRUE))
    BY <1>3, <1>5, LeadsThen
  <2> HIDE DEF s1
  <2>3. s2 \in Seq(Steps) /\ Leads(s2, Mark(H, FALSE), Mark(H, FALSE))
    BY <1>4, <2>2, LeadsThen
  <2> HIDE DEF s2
  <2>4. s3 \in Seq(Steps) /\ Leads(s3, Mark(H, FALSE), Mark(H, FALSE))
    BY <1>1, <1>6, <2>3, LeadsThen
  <2> HIDE DEF s3
  <2>5. s4 \in Seq(Steps) /\ Leads(s4, Mark(H, FALSE), Mark(H, FALSE))
    BY <1>1, <1>6, <2>4, LeadsThen
  <2> HIDE DEF s4
  <2> QED
    BY <2>1, <2>5, HandoffLeads
<1>11. CASE call = "castFail"
  <2> DEFINE s1 == Stop \o Suspend
             s2 == s1 \o Do(<<"paint">>)
             s3 == s2 \o Raising("idle")
             s4 == s3 \o Raising("input")
             s5 == s4 \o Raising("osd")
  <2>1. Program(call) = Locked("handoff", s5)
    BY <1>11 DEF Program
  <2>2. s1 \in Seq(Steps) /\ Leads(s1, Mark(H, FALSE), Mark(H, TRUE))
    BY <1>3, <1>5, LeadsThen
  <2> HIDE DEF s1
  <2>3. s2 \in Seq(Steps) /\ Leads(s2, Mark(H, FALSE), Mark(H, FALSE))
    BY <1>1, <2>2, PaintLeads, LeadsThen
  <2> HIDE DEF s2
  <2>4. s3 \in Seq(Steps) /\ Leads(s3, Mark(H, FALSE), Mark(H, FALSE))
    BY <1>1, <1>6, <2>3, LeadsThen
  <2> HIDE DEF s3
  <2>5. s4 \in Seq(Steps) /\ Leads(s4, Mark(H, FALSE), Mark(H, FALSE))
    BY <1>1, <1>6, <2>4, LeadsThen
  <2> HIDE DEF s4
  <2>6. s5 \in Seq(Steps) /\ Leads(s5, Mark(H, FALSE), Mark(H, FALSE))
    BY <1>1, <1>6, <2>5, LeadsThen
  <2> HIDE DEF s5
  <2> QED
    BY <2>1, <2>6, HandoffLeads
<1>12. CASE call = "shutdown"
  <2>1. Program(call) = Stop \o Shutdown
    BY <1>12 DEF Program
  <2>4. Stop \o Shutdown \in Seq(Steps) /\ Leads(Stop \o Shutdown, O, Dying({}, "out", TRUE, Workers))
    BY <1>3, ShutdownLeads, LeadsThen
  <2>2. Program(call) \in Seq(Steps) /\ Leads(Program(call), O, Dying({}, "out", TRUE, Workers))
    BY <2>1, <2>4
  <2>3. Dying({}, "out", TRUE, Workers) \in Marks /\ Dying({}, "out", TRUE, Workers).held = {}
    BY DEF Dying, Marks, Mutexes, Workers
  <2> QED
    BY <2>2, <2>3 DEF Derives
<1>13. CASE call = "pause"
  BY <1>13, PauseLeads DEF Program
<1>14. CASE call = "resume"
  BY <1>14, PauseLeads DEF Program
<1> QED
  BY <1>7, <1>8, <1>9, <1>10, <1>11, <1>12, <1>13, <1>14

\* What a step of a call implies.
LEMMA MayPlain ==
  ASSUME NEW st, NEW x, NEW y, MayStep(st, x, y),
         st[1] \in {"kill", "forget", "raise", "look", "gone"}
  PROVE  /\ y = x /\ (st[1] = "look" => x.held = {})
         /\ st[1] = "gone" => x.parted /\ x.none = Workers
         /\ st[1] = "raise" => Open(st[2], x)
BY DEF MayStep, Plainly, Inside, Locks

LEMMA MayLatch ==
  ASSUME NEW st, NEW x, NEW y, MayStep(st, x, y), st[1] = "latch"
  PROVE  Becomes(y, x.held, x.phase, x.paint, x.claim) /\ y.latched = TRUE /\ y.parted = x.parted /\ y.none = x.none
BY DEF MayStep, Plainly, Inside, Locks, Stays

LEMMA MayWorker ==
  ASSUME NEW st, NEW x, NEW y, MayStep(st, x, y), st[1] \in {"retire", "joined"}
  PROVE  /\ Open(st[2], x)
         /\ Becomes(y, x.held, x.phase, x.paint, x.claim) /\ y.latched = x.latched /\ y.parted = x.parted
         /\ y.none = IF x.latched THEN x.none \cup {st[2]} ELSE x.none
BY DEF MayStep, Plainly, Inside, Locks, Stays

LEMMA MayRejoin ==
  ASSUME NEW w, NEW x, NEW y, MayStep(<<"retire", w>>, x, y)
  PROVE  MayStep(<<"joined", w>>, x, y)
<1>1. /\ <<"retire", w>>[1] = "retire" /\ <<"retire", w>>[2] = w
      /\ <<"joined", w>>[1] = "joined" /\ <<"joined", w>>[2] = w
  OBVIOUS
<1>2. Plainly(<<"retire", w>>, x, y)
  BY <1>1 DEF MayStep, Inside, Locks
<1>3. Plainly(<<"joined", w>>, x, y)
  BY <1>1, <1>2 DEF Plainly
<1> QED
  BY <1>3 DEF MayStep

LEMMA MayPaint ==
  ASSUME NEW st, NEW x, NEW y, MayStep(st, x, y), st[1] = "paint"
  PROVE  \/ x.phase = "joined" /\ "life" \in x.held /\ y = x
         \/ x.paint /\ Becomes(y, x.held, x.phase, FALSE, x.claim) /\ Keeps(x, y)
BY DEF MayStep, Plainly, Inside, Locks

LEMMA MayEnter ==
  ASSUME NEW st, NEW x, NEW y, MayStep(st, x, y)
  PROVE  /\ st[1] = "tell" => /\ "life" \in x.held /\ Keeps(x, y)
                              /\ Becomes(y, x.held, "told", x.paint, x.claim)
         /\ st[1] = "join" => /\ "life" \in x.held /\ x.phase = "told" /\ Becomes(y, x.held, "joined", x.paint, x.claim)
                              /\ y.latched = x.latched /\ y.parted = x.latched /\ y.none = x.none
         /\ st[1] = "begin" => /\ x.phase = "joined" /\ Becomes(y, x.held, "begun", FALSE, x.claim) /\ Keeps(x, y)
         /\ st[1] = "settle" => /\ x.phase = "joined" /\ Keeps(x, y)
                                /\ Becomes(y, x.held, "joined", "handoff" \in x.held, x.claim)
<1>1. CASE st[1] = "join"
  BY <1>1 DEF MayStep, Plainly, Inside, Locks
<1>2. CASE st[1] = "begin"
  BY <1>2 DEF MayStep, Plainly, Inside, Locks
<1>3. CASE st[1] = "settle"
  BY <1>3 DEF MayStep, Plainly, Inside, Locks
<1>4. CASE st[1] = "tell"
  BY <1>4 DEF MayStep, Plainly, Inside, Locks
<1> QED
  BY <1>1, <1>2, <1>3, <1>4

LEMMA MayHold ==
  ASSUME NEW st, NEW x, NEW y, MayStep(st, x, y), st[1] \in {"hold", "freeze", "release", "thaw"}
  PROVE  /\ "pause" \in x.held /\ Keeps(x, y)
         /\ st[1] = "hold" => Becomes(y, x.held, x.phase, x.paint, "held")
         /\ st[1] = "freeze" => x.claim = "held" /\ Becomes(y, x.held, x.phase, x.paint, "kept")
         /\ st[1] = "release" => Becomes(y, x.held, x.phase, x.paint, "any")
         /\ st[1] = "thaw" => Becomes(y, x.held, x.phase, x.paint, "kept")
<1>1. CASE st[1] = "hold"
  BY <1>1 DEF MayStep, Plainly, Inside, Locks
<1>2. CASE st[1] = "freeze"
  BY <1>2 DEF MayStep, Plainly, Inside, Locks
<1>3. CASE st[1] = "release"
  BY <1>3 DEF MayStep, Plainly, Inside, Locks
<1>4. CASE st[1] = "thaw"
  BY <1>4 DEF MayStep, Plainly, Inside, Locks
<1> QED
  BY <1>1, <1>2, <1>3, <1>4

LEMMA MayMutex ==
  ASSUME NEW st, NEW x, NEW y, MayStep(st, x, y), st[1] \in {"lock", "unlock"}
  PROVE  /\ Keeps(x, y)
         /\ st[1] = "lock" =>
              /\ st[2] \in Mutexes \ x.held /\ x.phase # "begun"
              /\ x.held \subseteq (IF st[2] = "life" THEN {"handoff"} ELSE {})
              /\ Becomes(y, x.held \cup {st[2]}, x.phase, x.paint, IF st[2] = "pause" THEN "kept" ELSE x.claim)
         /\ st[1] = "unlock" =>
              /\ st[2] \in x.held /\ (st[2] = "pause" => x.claim = "kept") /\ (x.phase = "begun" => st[2] = "life")
              /\ Becomes(y, x.held \ {st[2]}, IF st[2] = "life" THEN "out" ELSE x.phase,
                         x.paint /\ st[2] # "handoff", IF st[2] = "pause" THEN "any" ELSE x.claim)
<1>1. CASE st[1] = "lock"
  BY <1>1 DEF MayStep, Plainly, Inside, Locks
<1>2. CASE st[1] = "unlock"
  BY <1>2 DEF MayStep, Plainly, Inside, Locks
<1> QED
  BY <1>1, <1>2

LEMMA LeadsNowhere ==
  /\ \A x \in Marks : Leads(<<>>, x, x)
  /\ \A x, y : Leads(<<>>, x, y) => x = y
<1>1. ASSUME NEW x \in Marks PROVE Leads(<<>>, x, x)
  <2> DEFINE h == [i \in 1..1 |-> x]
  <2>1. Len(<<>>) = 0 /\ h \in [1..(0 + 1) -> Marks] /\ h[1] = x /\ h[0 + 1] = x /\ (\A i \in 1..0 : FALSE)
    OBVIOUS
  <2> HIDE DEF h
  <2> QED
    BY <2>1 DEF Leads
<1>2. ASSUME NEW x, NEW y, Leads(<<>>, x, y) PROVE x = y
  BY <1>2 DEF Leads
<1> QED
  BY <1>1, <1>2

-----------------------------------------------------------------------------
\* What a call knows while it runs.
Knows(a, x) ==
    /\ \A m \in Mutexes : m \in x.held <=> mu[m] = a
    /\ x.phase = "joined" => "life" \in x.held /\ session = "none"
    /\ x.phase = "begun" => "life" \in x.held
    /\ x.phase = "told" => "life" \in x.held /\ stop
    /\ x.paint => "handoff" \in x.held
    /\ x.latched => shuttingDown
    /\ x.parted => x.latched /\ (session = "none" \/ late)
    /\ x.none # {} => x.latched
    /\ \A w \in x.none : thread[w] = "none"
    /\ x.claim # "any" => "pause" \in x.held
    /\ x.claim = "held" => paused \/ crossed
    /\ x.claim = "kept" => (child.frozen => paused \/ crossed)

\* A step that leaves b what it knows.
Harmless(b) ==
    /\ \A m \in Mutexes : mu'[m] = b <=> mu[m] = b
    /\ session = "none" /\ session' # "none" => mu["life"] # b /\ (shuttingDown => late')
    /\ stop /\ ~stop' => mu["life"] # b
    /\ late => late'
    /\ shuttingDown => shuttingDown' /\ \A w \in Workers : thread[w] = "none" => thread'[w] = "none"
    /\ mu["pause"] = b => /\ paused \/ crossed => paused' \/ crossed'
                          /\ child'.frozen => child.frozen \/ paused' \/ crossed'

LEMMA StillKnows ==
  ASSUME NEW b, NEW x \in Marks, Knows(b, x), Harmless(b)
  PROVE  Knows(b, x)'
<1>1. x.held \subseteq Mutexes /\ x.none \subseteq Workers
  BY DEF Marks
<1>2. "life" \in Mutexes /\ "pause" \in Mutexes
  BY DEF Mutexes
<1>3. \A m \in Mutexes : m \in x.held <=> mu'[m] = b
  BY DEF Knows, Harmless
<1>4. /\ x.phase = "joined" => "life" \in x.held /\ session' = "none"
      /\ x.phase = "begun" => "life" \in x.held
      /\ x.phase = "told" => "life" \in x.held /\ stop'
      /\ x.paint => "handoff" \in x.held
  BY <1>2 DEF Knows, Harmless
<1>5. /\ x.latched => shuttingDown'
      /\ x.parted => x.latched /\ (session' = "none" \/ late')
      /\ x.none # {} => x.latched
  BY DEF Knows, Harmless
<1>6. \A w \in x.none : thread'[w] = "none"
  BY <1>1 DEF Knows, Harmless
<1>7. /\ x.claim # "any" => "pause" \in x.held
      /\ x.claim = "held" => paused' \/ crossed'
      /\ x.claim = "kept" => (child'.frozen => paused' \/ crossed')
  BY <1>2 DEF Knows, Harmless
<1> QED
  BY <1>3, <1>4, <1>5, <1>6, <1>7 DEF Knows

\* What holds of the session, its decoder and the screen.
Sane ==
    /\ WorkersTypeOK
    /\ thread["input"] # "paint"
    /\ child.alive => session \in {"publish", "play", "kill"}
    /\ child.alive /\ session \in {"play", "kill"} => child.known
    /\ child.known => session \in {"play", "kill"}
    /\ child.frozen => child.known
    /\ playing => session \in {"fork", "publish", "play", "kill"}
    /\ ~orphan /\ (terminate => late) /\ stale <= 3
    /\ mu["pause"] = Nobody => (child.frozen => paused \/ crossed)

\* The idle pictures that were painted over a session, or are on their way.
One(b) == IF b THEN 1 ELSE 0
Due == stale + One(thread["idle"] = "paint") + One(thread["osd"] = "paint")
Paid(p, q) == playing' => stale' = 0 \/ (playing /\ Due' + One(q) <= Due + One(p))

\* What a step of a's call, from mark x to mark y, does to the rest.
Carries(a, x, y) ==
    Sane' /\ Knows(a, y)' /\ (\A b \in Agents \ {a} : Harmless(b)) /\ Paid(x.paint, y.paint)

LEMMA DueNumber == Sane => Due \in Int /\ stale \in Int
BY DEF Sane, WorkersTypeOK, Due, One

LEMMA PaidSame ==
  ASSUME NEW p, NEW q, Sane, thread' = thread, stale' = stale, playing' = playing, q => p
  PROVE  Paid(p, q)
<1>1. Due \in Int /\ Due' = Due
  BY DueNumber DEF Due
<1>2. One(q) <= One(p) /\ One(q) \in Int /\ One(p) \in Int
  BY DEF One
<1> HIDE DEF Due, One
<1> QED
  BY <1>1, <1>2 DEF Paid

LEMMA HarmlessSame ==
  ASSUME NEW b, mu' = mu, stop' = stop, session' = session, late' = late, shuttingDown' = shuttingDown, thread' = thread,
         paused' = paused, crossed' = crossed, child' = child
  PROVE  Harmless(b)
BY DEF Harmless

LEMMA NobodyApart == Nobody \notin Agents
BY WorkersAssumption DEF Agents, Nobody

LEMMA TellTakes ==
  ASSUME NEW a \in Agents, NEW x \in Marks, NEW y \in Marks, Sane, Knows(a, x), MayStep(Head(todo[a]), x, y),
         Tell(a)
  PROVE  Carries(a, x, y)
<1>1. Head(todo[a])[1] = "tell"
  BY DEF Tell, At
<1>2. "life" \in x.held /\ Keeps(x, y) /\ Becomes(y, x.held, "told", x.paint, x.claim)
  BY <1>1, MayEnter
<1>3. /\ mu' = mu /\ session' = session /\ late' = late /\ shuttingDown' = shuttingDown /\ thread' = thread
      /\ paused' = paused /\ crossed' = crossed /\ child' = child /\ playing' = playing /\ stale' = stale
      /\ orphan' = orphan /\ terminate' = terminate /\ stop'
  BY DEF Tell
<1>4. Sane'
  BY <1>3 DEF Sane, WorkersTypeOK
<1>5. \A b : Harmless(b)
  BY <1>3 DEF Harmless
<1>6. Knows(a, y)'
  BY <1>2, <1>3 DEF Knows, Becomes, Keeps
<1>7. Paid(x.paint, y.paint)
  BY <1>2, <1>3, PaidSame DEF Becomes
<1> QED
  BY <1>4, <1>5, <1>6, <1>7 DEF Carries

LEMMA LookTakes ==
  ASSUME NEW a \in Agents, NEW x \in Marks, NEW y \in Marks, Sane, Knows(a, x), MayStep(Head(todo[a]), x, y),
         Look(a)
  PROVE  Carries(a, x, y)
<1>1. Head(todo[a])[1] \in {"forget", "look"}
  BY DEF Look, At
<1>2. y = x
  BY <1>1, MayPlain
<1>3. /\ mu' = mu /\ stop' = stop /\ session' = session /\ late' = late /\ shuttingDown' = shuttingDown /\ thread' = thread
      /\ paused' = paused /\ crossed' = crossed /\ child' = child /\ playing' = playing /\ stale' = stale
      /\ orphan' = orphan /\ terminate' = terminate
  BY DEF Look
<1>4. Sane'
  BY <1>3 DEF Sane, WorkersTypeOK
<1> QED
  BY <1>2, <1>3, <1>4, PaidSame, HarmlessSame, StillKnows DEF Carries

LEMMA KillTakes ==
  ASSUME NEW a \in Agents, NEW x \in Marks, NEW y \in Marks, Sane, Knows(a, x), MayStep(Head(todo[a]), x, y),
         Kill(a)
  PROVE  Carries(a, x, y)
<1>1. Head(todo[a])[1] = "kill"
  BY DEF Kill, At
<1>2. y = x
  BY <1>1, MayPlain
<1>3. /\ mu' = mu /\ stop' = stop /\ session' = session /\ late' = late /\ shuttingDown' = shuttingDown /\ thread' = thread
      /\ paused' = paused /\ crossed' = crossed /\ child' = Reaped(child) /\ playing' = playing /\ stale' = stale
      /\ orphan' = orphan /\ terminate' = terminate
  BY DEF Kill
<1>4. child' = child \/ (~child'.alive /\ ~child'.known /\ ~child'.frozen /\ child' \in [alive : BOOLEAN, frozen : BOOLEAN, known : BOOLEAN])
  BY <1>3 DEF Reaped
<1>5. Sane'
  BY <1>3, <1>4 DEF Sane, WorkersTypeOK
<1>6. \A b : Harmless(b)
  BY <1>3, <1>4 DEF Harmless
<1> QED
  BY <1>2, <1>3, <1>5, <1>6, PaidSame, StillKnows DEF Carries

LEMMA LatchTakes ==
  ASSUME NEW a \in Agents, NEW x \in Marks, NEW y \in Marks, Sane, Knows(a, x), MayStep(Head(todo[a]), x, y),
         Latch(a)
  PROVE  Carries(a, x, y)
<1>1. Head(todo[a])[1] = "latch"
  BY DEF Latch, At
<1>2. Becomes(y, x.held, x.phase, x.paint, x.claim) /\ y.latched = TRUE /\ y.parted = x.parted /\ y.none = x.none
  BY <1>1, MayLatch
<1>3. /\ mu' = mu /\ stop' = stop /\ session' = session /\ late' = late /\ shuttingDown' = TRUE /\ thread' = thread
      /\ paused' = paused /\ crossed' = crossed /\ child' = child /\ playing' = playing /\ stale' = stale
      /\ orphan' = orphan /\ terminate' = terminate
  BY DEF Latch
<1>4. Sane'
  BY <1>3 DEF Sane, WorkersTypeOK
<1>5. \A b : Harmless(b)
  BY <1>3 DEF Harmless
<1>6. Knows(a, y)'
  BY <1>2, <1>3 DEF Knows, Becomes
<1>7. Paid(x.paint, y.paint)
  BY <1>2, <1>3, PaidSame DEF Becomes
<1> QED
  BY <1>4, <1>5, <1>6, <1>7 DEF Carries

LEMMA GoneTakes ==
  ASSUME NEW a \in Agents, NEW x \in Marks, NEW y \in Marks, Sane, Knows(a, x), MayStep(Head(todo[a]), x, y),
         Gone(a)
  PROVE  Carries(a, x, y)
<1>1. Head(todo[a])[1] = "gone"
  BY DEF Gone, At
<1>2. y = x /\ x.parted /\ x.none = Workers
  BY <1>1, MayPlain
<1>3. /\ mu' = mu /\ stop' = stop /\ session' = session /\ late' = late /\ shuttingDown' = shuttingDown /\ thread' = thread
      /\ paused' = paused /\ crossed' = crossed /\ child' = child /\ playing' = playing /\ stale' = stale
      /\ orphan' = orphan
  BY DEF Gone
<1>4. terminate' => late
  <2>1. (session = "none" \/ late) /\ \A w \in Workers : thread[w] = "none"
    BY <1>2 DEF Knows
  <2>2. terminate' => terminate \/ session # "none" \/ \E w \in Workers : thread[w] # "none"
    BY DEF Gone
  <2> QED
    BY <2>1, <2>2 DEF Sane
<1>5. Sane'
  BY <1>3, <1>4 DEF Sane, WorkersTypeOK
<1> QED
  BY <1>2, <1>3, <1>5, PaidSame, HarmlessSame, StillKnows DEF Carries

LEMMA JoinTakes ==
  ASSUME NEW a \in Agents, NEW x \in Marks, NEW y \in Marks, Sane, Knows(a, x), MayStep(Head(todo[a]), x, y),
         Join(a)
  PROVE  Carries(a, x, y)
<1>1. Head(todo[a])[1] = "join" /\ session \in {"none", "exited"}
  BY DEF Join, At, Finished
<1>2. /\ "life" \in x.held /\ Becomes(y, x.held, "joined", x.paint, x.claim)
      /\ y.latched = x.latched /\ y.parted = x.latched /\ y.none = x.none
  BY <1>1, MayEnter
<1>3. /\ mu' = mu /\ stop' = stop /\ session' = "none" /\ late' = late /\ shuttingDown' = shuttingDown /\ thread' = thread
      /\ paused' = paused /\ crossed' = crossed /\ child' = child /\ playing' = playing /\ stale' = stale
      /\ orphan' = orphan /\ terminate' = terminate
  BY DEF Join
<1>4. Sane'
  BY <1>1, <1>3 DEF Sane, WorkersTypeOK
<1>5. \A b : Harmless(b)
  BY <1>3 DEF Harmless
<1>6. Knows(a, y)'
  BY <1>2, <1>3 DEF Knows, Becomes
<1>7. Paid(x.paint, y.paint)
  BY <1>2, <1>3, PaidSame DEF Becomes
<1> QED
  BY <1>4, <1>5, <1>6, <1>7 DEF Carries

LEMMA BeginTakes ==
  ASSUME NEW a \in Agents, NEW x \in Marks, NEW y \in Marks, Sane, Knows(a, x), MayStep(Head(todo[a]), x, y),
         Begin(a)
  PROVE  Carries(a, x, y)
<1>1. Head(todo[a])[1] = "begin"
  BY DEF Begin, At
<1>2. x.phase = "joined" /\ Becomes(y, x.held, "begun", FALSE, x.claim) /\ Keeps(x, y)
  BY <1>1, MayEnter
<1>3. "life" \in x.held /\ session = "none" /\ mu["life"] = a
  <2>1. "life" \in Mutexes
    BY DEF Mutexes
  <2> QED
    BY <1>2, <2>1 DEF Knows
<1>4. /\ mu' = mu /\ ~stop' /\ session' = "fork" /\ late' = (late \/ shuttingDown) /\ shuttingDown' = shuttingDown
      /\ thread' = thread /\ ~paused' /\ crossed' = (crossed \/ mu["pause"] # Nobody) /\ child' = child
      /\ playing' /\ stale' = 0
      /\ orphan' = (orphan \/ child.alive) /\ terminate' = (terminate \/ session # "none")
  BY DEF Begin
<1>5. ~child.alive /\ ~child.known /\ ~child.frozen
  BY <1>3 DEF Sane
<1>6. Sane'
  BY <1>3, <1>4, <1>5 DEF Sane, WorkersTypeOK
<1>7. \A b \in Agents \ {a} : Harmless(b)
  <2> SUFFICES ASSUME NEW b \in Agents, b # a PROVE Harmless(b)
    OBVIOUS
  <2>1. mu["pause"] = b => crossed'
    BY <1>4, NobodyApart
  <2> QED
    BY <1>3, <1>4, <2>1 DEF Harmless
<1>8. Knows(a, y)'
  <2>1. x.claim = "held" => paused' \/ crossed'
    <3>1. x.claim = "held" => mu["pause"] = a
      BY DEF Knows, Mutexes
    <3> QED
      BY <1>4, <3>1, NobodyApart
  <2>2. x.parted => shuttingDown
    BY DEF Knows
  <2> QED
    BY <1>2, <1>3, <1>4, <1>5, <2>1, <2>2 DEF Knows, Becomes, Keeps
<1>9. Paid(x.paint, y.paint)
  BY <1>4 DEF Paid
<1> QED
  BY <1>6, <1>7, <1>8, <1>9 DEF Carries

LEMMA SettleTakes ==
  ASSUME NEW a \in Agents, NEW x \in Marks, NEW y \in Marks, Sane, Knows(a, x), MayStep(Head(todo[a]), x, y),
         Settle(a)
  PROVE  Carries(a, x, y)
<1>1. Head(todo[a])[1] = "settle"
  BY DEF Settle, At
<1>2. x.phase = "joined" /\ Keeps(x, y) /\ Becomes(y, x.held, "joined", "handoff" \in x.held, x.claim)
  BY <1>1, MayEnter
<1>3. "life" \in x.held /\ session = "none"
  BY <1>2 DEF Knows
<1>4. /\ mu' = mu /\ stop' = stop /\ session' = session /\ late' = late /\ shuttingDown' = shuttingDown
      /\ thread' = thread /\ ~paused' /\ crossed' = (crossed \/ mu["pause"] # Nobody) /\ child' = child
      /\ ~playing' /\ stale' = stale /\ orphan' = orphan /\ terminate' = terminate
  BY DEF Settle
<1>5. ~child.frozen
  BY <1>3 DEF Sane
<1>6. Sane'
  BY <1>3, <1>4, <1>5 DEF Sane, WorkersTypeOK
<1>7. ASSUME NEW b \in Agents, mu["pause"] = b PROVE crossed'
  BY <1>4, <1>7, NobodyApart
<1>8. \A b \in Agents : Harmless(b)
  BY <1>4, <1>7 DEF Harmless
<1>9. Knows(a, y)'
  <2>1. x.claim = "held" => paused' \/ crossed'
    <3>1. x.claim = "held" => mu["pause"] = a
      BY DEF Knows, Mutexes
    <3> QED
      BY <1>7, <3>1
  <2> QED
    BY <1>2, <1>3, <1>4, <1>5, <2>1 DEF Knows, Becomes, Keeps
<1>10. Paid(x.paint, y.paint)
  BY <1>4 DEF Paid
<1> QED
  BY <1>6, <1>8, <1>9, <1>10 DEF Carries

LEMMA LockTakes ==
  ASSUME NEW a \in Agents, NEW x \in Marks, NEW y \in Marks, Sane, Knows(a, x), MayStep(Head(todo[a]), x, y),
         NEW m \in Mutexes, Lock(a, m)
  PROVE  Carries(a, x, y)
<1>1. /\ stop' = stop /\ session' = session /\ late' = late /\ shuttingDown' = shuttingDown
      /\ thread' = thread /\ paused' = paused /\ crossed' = crossed /\ child' = child
      /\ playing' = playing /\ stale' = stale /\ orphan' = orphan /\ terminate' = terminate
  BY DEF Lock
<1>2. mu \in [Mutexes -> Agents \cup {Nobody}]
  BY DEF Sane, WorkersTypeOK
<1>3. CASE Head(todo[a]) = <<"lock", m>> /\ mu[m] = Nobody /\ mu' = [mu EXCEPT ![m] = a]
  <2>1. Head(todo[a])[1] = "lock" /\ Head(todo[a])[2] = m
    BY <1>3
  <2>2. /\ Keeps(x, y) /\ m \in Mutexes \ x.held /\ x.phase # "begun"
        /\ Becomes(y, x.held \cup {m}, x.phase, x.paint, IF m = "pause" THEN "kept" ELSE x.claim)
    <3> DEFINE st == Head(todo[a])
    <3> HIDE DEF st
    <3>1. MayStep(st, x, y) /\ st[1] = "lock" /\ st[2] = m
      BY <2>1 DEF st
    <3>2. /\ Keeps(x, y) /\ st[2] \in Mutexes \ x.held /\ x.phase # "begun"
          /\ Becomes(y, x.held \cup {st[2]}, x.phase, x.paint, IF st[2] = "pause" THEN "kept" ELSE x.claim)
      BY <3>1, MayMutex
    <3> QED
      BY <3>1, <3>2
  <2>3. mu' \in [Mutexes -> Agents \cup {Nobody}] /\ mu'[m] = a /\ \A k \in Mutexes \ {m} : mu'[k] = mu[k]
    BY <1>2, <1>3
  <2>4. Sane'
    BY <1>1, <1>3, <2>3, NobodyApart DEF Sane, WorkersTypeOK, Mutexes
  <2>5. \A b \in Agents \ {a} : Harmless(b)
    <3> SUFFICES ASSUME NEW b \in Agents \ {a} PROVE Harmless(b)
      OBVIOUS
    <3>1. \A k \in Mutexes : mu'[k] = b <=> mu[k] = b
      BY <1>3, <2>3, NobodyApart
    <3> QED
      BY <1>1, <3>1 DEF Harmless
  <2>6. Knows(a, y)'
    <3>1. \A k \in Mutexes : k \in y.held <=> mu'[k] = a
      BY <2>2, <2>3 DEF Knows, Becomes
    <3>2. /\ y.phase = "joined" => "life" \in y.held /\ session' = "none"
          /\ y.phase = "begun" => "life" \in y.held
          /\ y.phase = "told" => "life" \in y.held /\ stop'
          /\ y.paint => "handoff" \in y.held
      BY <1>1, <2>2 DEF Knows, Becomes
    <3>3. /\ y.latched => shuttingDown'
          /\ y.parted => y.latched /\ (session' = "none" \/ late')
          /\ y.none # {} => y.latched
          /\ \A w \in y.none : thread'[w] = "none"
      BY <1>1, <2>2 DEF Knows, Keeps
    <3>4. /\ y.claim # "any" => "pause" \in y.held
          /\ y.claim = "held" => paused' \/ crossed'
          /\ y.claim = "kept" => (child'.frozen => paused' \/ crossed')
      <4>1. CASE m = "pause"
        <5>1. y.claim = "kept" /\ "pause" \in y.held
          BY <2>2, <4>1 DEF Becomes
        <5>2. child.frozen => paused \/ crossed
          BY <1>3, <4>1 DEF Sane
        <5> QED
          BY <1>1, <5>1, <5>2
      <4>2. CASE m # "pause"
        BY <1>1, <2>2, <4>2 DEF Knows, Becomes
      <4> QED
        BY <4>1, <4>2
    <3> QED
      BY <3>1, <3>2, <3>3, <3>4 DEF Knows
  <2>7. Paid(x.paint, y.paint)
    BY <1>1, <2>2, PaidSame DEF Becomes
  <2> QED
    BY <2>4, <2>5, <2>6, <2>7 DEF Carries
<1>4. CASE Head(todo[a]) = <<"unlock", m>> /\ mu' = [mu EXCEPT ![m] = Nobody]
  <2>1. Head(todo[a])[1] = "unlock" /\ Head(todo[a])[2] = m
    BY <1>4
  <2>2. /\ Keeps(x, y) /\ m \in x.held /\ (m = "pause" => x.claim = "kept") /\ (x.phase = "begun" => m = "life")
        /\ Becomes(y, x.held \ {m}, IF m = "life" THEN "out" ELSE x.phase,
                   x.paint /\ m # "handoff", IF m = "pause" THEN "any" ELSE x.claim)
    <3> DEFINE st == Head(todo[a])
    <3> HIDE DEF st
    <3>1. MayStep(st, x, y) /\ st[1] = "unlock" /\ st[2] = m
      BY <2>1 DEF st
    <3>2. /\ Keeps(x, y) /\ st[2] \in x.held /\ (st[2] = "pause" => x.claim = "kept") /\ (x.phase = "begun" => st[2] = "life")
          /\ Becomes(y, x.held \ {st[2]}, IF st[2] = "life" THEN "out" ELSE x.phase,
                     x.paint /\ st[2] # "handoff", IF st[2] = "pause" THEN "any" ELSE x.claim)
      BY <3>1, MayMutex
    <3> QED
      BY <3>1, <3>2
  <2>3. /\ mu' \in [Mutexes -> Agents \cup {Nobody}] /\ mu'[m] = Nobody /\ \A k \in Mutexes \ {m} : mu'[k] = mu[k]
        /\ mu[m] = a
    BY <1>2, <1>4, <2>2 DEF Knows
  <2>4. Sane'
    <3>1. mu'["pause"] = Nobody => (child.frozen => paused \/ crossed)
      <4>1. CASE m = "pause"
        BY <2>2, <4>1 DEF Knows
      <4>2. CASE m # "pause"
        BY <2>3, <4>2 DEF Sane, Mutexes
      <4> QED
        BY <4>1, <4>2
    <3> QED
      BY <1>1, <2>3, <3>1 DEF Sane, WorkersTypeOK
  <2>5. \A b \in Agents \ {a} : Harmless(b)
    <3> SUFFICES ASSUME NEW b \in Agents \ {a} PROVE Harmless(b)
      OBVIOUS
    <3>1. \A k \in Mutexes : mu'[k] = b <=> mu[k] = b
      BY <2>3, NobodyApart
    <3> QED
      BY <1>1, <3>1 DEF Harmless
  <2>6. Knows(a, y)'
    <3>1. \A k \in Mutexes : k \in y.held <=> mu'[k] = a
      BY <2>2, <2>3, NobodyApart DEF Knows, Becomes
    <3>2. /\ y.phase = "joined" => "life" \in y.held /\ session' = "none"
          /\ y.phase = "begun" => "life" \in y.held
          /\ y.phase = "told" => "life" \in y.held /\ stop'
          /\ y.paint => "handoff" \in y.held
      BY <1>1, <2>2 DEF Knows, Becomes
    <3>3. /\ y.latched => shuttingDown'
          /\ y.parted => y.latched /\ (session' = "none" \/ late')
          /\ y.none # {} => y.latched
          /\ \A w \in y.none : thread'[w] = "none"
      BY <1>1, <2>2 DEF Knows, Keeps
    <3>4. /\ y.claim # "any" => "pause" \in y.held
          /\ y.claim = "held" => paused' \/ crossed'
          /\ y.claim = "kept" => (child'.frozen => paused' \/ crossed')
      BY <1>1, <2>2 DEF Knows, Becomes
    <3> QED
      BY <3>1, <3>2, <3>3, <3>4 DEF Knows
  <2>7. Paid(x.paint, y.paint)
    BY <1>1, <2>2, PaidSame DEF Becomes
  <2> QED
    BY <2>4, <2>5, <2>6, <2>7 DEF Carries
<1> QED
  BY <1>3, <1>4 DEF Lock

LEMMA PauseTakes ==
  ASSUME NEW a \in Agents, NEW x \in Marks, NEW y \in Marks, Sane, Knows(a, x), MayStep(Head(todo[a]), x, y),
         Pausing(a)
  PROVE  Carries(a, x, y)
<1>1. /\ mu' = mu /\ stop' = stop /\ session' = session /\ late' = late /\ shuttingDown' = shuttingDown
      /\ thread' = thread /\ crossed' = crossed
      /\ playing' = playing /\ stale' = stale /\ orphan' = orphan /\ terminate' = terminate
  BY DEF Pausing
<1>2. /\ Head(todo[a])[1] \in {"hold", "freeze", "release", "thaw"}
      /\ Head(todo[a])[1] \in {"hold", "release"} => paused' = (Head(todo[a])[1] = "hold") /\ child' = child
      /\ Head(todo[a])[1] \in {"freeze", "thaw"} =>
           paused' = paused
           /\ child' = IF child.known THEN [child EXCEPT !.frozen = (Head(todo[a])[1] = "freeze")] ELSE child
  <2>1. CASE At(a, "hold")
    BY <2>1 DEF Pausing, At
  <2>2. CASE At(a, "release")
    BY <2>2 DEF Pausing, At
  <2>3. CASE At(a, "freeze")
    BY <2>3 DEF Pausing, At
  <2>4. CASE At(a, "thaw")
    BY <2>4 DEF Pausing, At
  <2> QED
    BY <2>1, <2>2, <2>3, <2>4 DEF Pausing
<1> DEFINE verb == Head(todo[a])[1]
<1>3. /\ "pause" \in x.held /\ Keeps(x, y)
      /\ verb = "hold" => Becomes(y, x.held, x.phase, x.paint, "held")
      /\ verb = "freeze" => x.claim = "held" /\ Becomes(y, x.held, x.phase, x.paint, "kept")
      /\ verb = "release" => Becomes(y, x.held, x.phase, x.paint, "any")
      /\ verb = "thaw" => Becomes(y, x.held, x.phase, x.paint, "kept")
  BY <1>2, MayHold
<1>4. mu["pause"] = a /\ mu["pause"] # Nobody
  BY <1>3, NobodyApart DEF Knows, Mutexes
<1>5. /\ child' \in [alive : BOOLEAN, frozen : BOOLEAN, known : BOOLEAN]
      /\ child'.alive = child.alive /\ child'.known = child.known
      /\ verb \in {"hold", "release"} => child' = child
      /\ verb = "freeze" => (child'.frozen => child'.known)
      /\ verb = "thaw" => ~child'.frozen
  <2>1. child \in [alive : BOOLEAN, frozen : BOOLEAN, known : BOOLEAN] /\ (child.frozen => child.known)
    BY DEF Sane, WorkersTypeOK
  <2> HIDE DEF verb
  <2>2. CASE verb = "hold" \/ verb = "release"
    BY <1>2, <2>1, <2>2 DEF verb
  <2>3. CASE verb = "freeze"
    <3>1. child' = IF child.known THEN [child EXCEPT !.frozen = TRUE] ELSE child
      BY <1>2, <2>3 DEF verb
    <3> QED
      BY <2>1, <2>3, <3>1
  <2>4. CASE verb = "thaw"
    <3>1. child' = IF child.known THEN [child EXCEPT !.frozen = FALSE] ELSE child
      BY <1>2, <2>4 DEF verb
    <3> QED
      BY <2>1, <2>4, <3>1
  <2> QED
    BY <1>2, <2>2, <2>3, <2>4 DEF verb
<1>6. verb \in {"hold", "freeze", "release", "thaw"}
  BY <1>2
<1> HIDE DEF verb
<1>7. Sane'
  <2>1. child'.frozen => child'.known
    BY <1>5, <1>6 DEF Sane
  <2> QED
    BY <1>1, <1>4, <1>5, <2>1 DEF Sane, WorkersTypeOK
<1>8. \A b \in Agents \ {a} : Harmless(b)
  BY <1>1, <1>4 DEF Harmless
<1>9. Knows(a, y)'
  <2>1. /\ y.held = x.held /\ y.phase = x.phase /\ y.paint = x.paint /\ y.latched = x.latched
        /\ y.parted = x.parted /\ y.none = x.none
    BY <1>3, <1>6 DEF Becomes, Keeps
  <2>2. /\ y.claim = "held" => paused'
        /\ y.claim = "kept" => (child'.frozen => paused' \/ crossed')
    <3>1. CASE verb = "hold"
      BY <1>2, <1>3, <3>1 DEF Becomes, verb
    <3>2. CASE verb = "freeze"
      <4>1. paused \/ crossed
        BY <1>3, <3>2 DEF Knows
      <4>2. paused' = paused /\ y.claim = "kept"
        BY <1>2, <1>3, <3>2 DEF Becomes, verb
      <4> QED
        BY <1>1, <4>1, <4>2
    <3>3. CASE verb = "release"
      BY <1>3, <3>3 DEF Becomes
    <3>4. CASE verb = "thaw"
      BY <1>3, <1>5, <3>4 DEF Becomes
    <3> QED
      BY <1>6, <3>1, <3>2, <3>3, <3>4
  <2> QED
    BY <1>1, <1>3, <2>1, <2>2 DEF Knows
<1>10. Paid(x.paint, y.paint)
  <2>1. y.paint = x.paint
    BY <1>3, <1>6 DEF Becomes
  <2> QED
    BY <1>1, <2>1, PaidSame
<1> QED
  BY <1>7, <1>8, <1>9, <1>10 DEF Carries

LEMMA PaintTakes ==
  ASSUME NEW a \in Agents, NEW x \in Marks, NEW y \in Marks, Sane, Knows(a, x), MayStep(Head(todo[a]), x, y),
         PaintNow(a), x.paint /\ playing => Due + 1 <= 3
  PROVE  Carries(a, x, y)
<1>1. Head(todo[a])[1] = "paint"
  BY DEF PaintNow, At
<1>2. /\ mu' = mu /\ stop' = stop /\ session' = session /\ late' = late /\ shuttingDown' = shuttingDown
      /\ thread' = thread /\ paused' = paused /\ crossed' = crossed /\ child' = child
      /\ playing' = playing /\ orphan' = orphan /\ terminate' = terminate
      /\ stale' \in {stale, IF playing THEN stale + 1 ELSE stale}
  BY DEF PaintNow, paintIdle
<1>3. \A b : Harmless(b)
  BY <1>2, HarmlessSame
<1>4. stale \in Nat /\ stale <= 3 /\ Due \in Int /\ stale <= Due
  BY DEF Sane, WorkersTypeOK, Due, One
<1>5. CASE ~playing
  <2>1. stale' = stale
    BY <1>2, <1>5
  <2>2. Sane'
    BY <1>2, <2>1 DEF Sane, WorkersTypeOK
  <2>3. Paid(x.paint, y.paint)
    BY <1>2, <1>5 DEF Paid
  <2>4. Knows(a, y)'
    <3>1. CASE y = x
      BY <1>3, <3>1, StillKnows
    <3>2. CASE Becomes(y, x.held, x.phase, FALSE, x.claim) /\ Keeps(x, y)
      BY <1>2, <3>2 DEF Knows, Becomes, Keeps
    <3> QED
      BY <1>1, <3>1, <3>2, MayPaint
  <2> QED
    BY <1>3, <2>2, <2>3, <2>4 DEF Carries
<1>6. CASE playing
  <2>1. x.phase # "joined"
    BY <1>6 DEF Knows, Sane
  <2>2. x.paint /\ Becomes(y, x.held, x.phase, FALSE, x.claim) /\ Keeps(x, y)
    BY <1>1, <2>1, MayPaint
  <2>3. stale' \in Nat /\ stale' <= stale + 1 /\ stale' <= 3
    BY <1>2, <1>4, <1>6, <2>2
  <2>4. Sane'
    BY <1>2, <2>3 DEF Sane, WorkersTypeOK
  <2>5. Knows(a, y)'
    BY <1>2, <2>2 DEF Knows, Becomes, Keeps
  <2>6. Paid(x.paint, y.paint)
    <3>1. Due' = stale' + One(thread["idle"] = "paint") + One(thread["osd"] = "paint")
      BY <1>2 DEF Due
    <3>2. Due' <= Due + 1 /\ Due' \in Int
      <4>1. \A b : One(b) \in Int
        BY DEF One
      <4> QED
        BY <1>4, <2>3, <3>1, <4>1 DEF Due
    <3>3. One(x.paint) = 1 /\ One(y.paint) = 0
      BY <2>2 DEF One, Becomes
    <3> HIDE DEF Due, One
    <3>5. ASSUME NEW d \in Int, NEW e \in Int, NEW u, NEW v, e <= d + 1, u = 1, v = 0 PROVE e + v <= d + u
      BY <3>5
    <3>4. Due' + One(y.paint) <= Due + One(x.paint)
      BY <1>4, <3>2, <3>3, <3>5, Zenon
    <3> QED
      BY <1>6, <3>4 DEF Paid
  <2> QED
    BY <1>3, <2>4, <2>5, <2>6 DEF Carries
<1> QED
  BY <1>5, <1>6

LEMMA RetireTakes ==
  ASSUME NEW a \in Agents, NEW x \in Marks, Sane, Knows(a, x), NEW w \in Workers, Retire(a, w)
  PROVE  Carries(a, x, x)
<1>1. /\ mu' = mu /\ stop' = stop /\ session' = session /\ late' = late /\ shuttingDown' = shuttingDown /\ thread' = thread
      /\ paused' = paused /\ crossed' = crossed /\ child' = child /\ playing' = playing /\ stale' = stale
      /\ orphan' = orphan /\ terminate' = terminate
  BY DEF Retire
<1>2. Sane'
  BY <1>1 DEF Sane, WorkersTypeOK
<1> QED
  BY <1>1, <1>2, PaidSame, HarmlessSame, StillKnows DEF Carries

\* Threads that leave the paint, or do not enter it, owe no more than before.
LEMMA PaidLess ==
  ASSUME NEW p, NEW q, Sane, stale' = stale, playing' = playing, q => p,
         \A w \in {"idle", "osd"} : thread'[w] = "paint" => thread[w] = "paint"
  PROVE  Paid(p, q)
<1> DEFINE i == One(thread["idle"] = "paint")
           o == One(thread["osd"] = "paint")
           j == One(thread'["idle"] = "paint")
           k == One(thread'["osd"] = "paint")
<1>1. Due \in Int /\ stale \in Int
  BY DueNumber
<1>2. Due = stale + i + o /\ Due' = stale + j + k
  BY DEF Due
<1>3. i \in Int /\ o \in Int /\ j \in Int /\ k \in Int /\ j <= i /\ k <= o
  BY DEF One
<1>4. One(q) <= One(p) /\ One(q) \in Int /\ One(p) \in Int
  BY DEF One
<1> HIDE DEF i, o, j, k
<1>5. ASSUME NEW d \in Int, NEW e \in Int, NEW u \in Int, NEW v \in Int, e <= d, v <= u PROVE e + v <= d + u
  BY <1>5
<1>6. Due' <= Due /\ Due' \in Int
  BY <1>1, <1>2, <1>3
<1>7. Due' + One(q) <= Due + One(p)
  BY <1>1, <1>4, <1>5, <1>6, Zenon
<1> QED
  BY <1>7 DEF Paid

LEMMA RetiredTakes ==
  ASSUME NEW a \in Agents, NEW x \in Marks, NEW y \in Marks, Sane, Knows(a, x), MayStep(Head(todo[a]), x, y),
         NEW w \in Workers, Retired(a, w)
  PROVE  Carries(a, x, y)
<1>1. Head(todo[a])[1] = "joined" /\ Head(todo[a])[2] = w
  BY DEF Retired
<1>2. /\ Becomes(y, x.held, x.phase, x.paint, x.claim) /\ y.latched = x.latched /\ y.parted = x.parted
      /\ y.none = IF x.latched THEN x.none \cup {w} ELSE x.none
  <2> DEFINE st == Head(todo[a])
  <2> HIDE DEF st
  <2>1. MayStep(st, x, y) /\ st[1] = "joined" /\ st[2] = w
    BY <1>1 DEF st
  <2>2. /\ Becomes(y, x.held, x.phase, x.paint, x.claim) /\ y.latched = x.latched /\ y.parted = x.parted
        /\ y.none = IF x.latched THEN x.none \cup {st[2]} ELSE x.none
    BY <2>1, MayWorker
  <2> QED
    BY <2>1, <2>2
<1>3. /\ mu' = mu /\ stop' = stop /\ session' = session /\ late' = late /\ shuttingDown' = shuttingDown
      /\ paused' = paused /\ crossed' = crossed /\ child' = child /\ playing' = playing /\ stale' = stale
      /\ orphan' = orphan /\ terminate' = terminate /\ thread' = [thread EXCEPT ![w] = "none"]
  BY DEF Retired
<1>4. /\ thread' \in [Workers -> {"none", "check", "paint", "call", "exited"}] /\ thread'[w] = "none"
      /\ \A v \in Workers \ {w} : thread'[v] = thread[v]
  BY <1>3 DEF Sane, WorkersTypeOK
<1>5. "input" \in Workers /\ "idle" \in Workers /\ "osd" \in Workers
  BY DEF Workers
<1>6. Sane'
  BY <1>3, <1>4, <1>5 DEF Sane, WorkersTypeOK
<1>7. \A b : Harmless(b)
  BY <1>3, <1>4 DEF Harmless
<1>8. Knows(a, y)'
  <2>1. \A v \in y.none : thread'[v] = "none"
    <3>1. x.none \subseteq Workers
      BY DEF Marks
    <3> QED
      BY <1>2, <1>4, <3>1 DEF Knows
  <2>2. y.none # {} => y.latched
    BY <1>2 DEF Knows
  <2> QED
    BY <1>2, <1>3, <2>1, <2>2 DEF Knows, Becomes
<1>9. Paid(x.paint, y.paint)
  BY <1>2, <1>3, <1>4, <1>5, PaidLess DEF Becomes
<1> QED
  BY <1>6, <1>7, <1>8, <1>9 DEF Carries

\* startIdle and its like leave a worker that has ended, and one that was
\* retired after shutdown() began, as it is, and never put it at its paint.
LEMMA RaisedKeeps ==
  ASSUME NEW w \in Workers, Sane, Raised(w), shuttingDown' = shuttingDown
  PROVE  /\ thread' \in [Workers -> {"none", "check", "paint", "call", "exited"}]
         /\ terminate' = terminate
         /\ \A v \in Workers : thread'[v] = "paint" => thread[v] = "paint"
         /\ shuttingDown => \A v \in Workers : thread[v] = "none" => thread'[v] = "none"
<1>1. thread \in [Workers -> {"none", "check", "paint", "call", "exited"}]
  BY DEF Sane, WorkersTypeOK
<1>2. CASE (shuttingDown \/ run[w]) /\ UNCHANGED <<run, thread, terminate>>
  BY <1>1, <1>2
<1>3. CASE /\ ~shuttingDown /\ thread' = [thread EXCEPT ![w] = "check"] /\ UNCHANGED terminate
  BY <1>1, <1>3
<1> QED
  BY <1>2, <1>3 DEF Raised

LEMMA RaiseTakes ==
  ASSUME NEW a \in Agents, NEW x \in Marks, NEW y \in Marks, Sane, Knows(a, x), MayStep(Head(todo[a]), x, y),
         NEW w \in Workers, Raise(a, w)
  PROVE  Carries(a, x, y)
<1>1. Head(todo[a])[1] = "raise"
  BY DEF Raise
<1>2. y = x
  BY <1>1, MayPlain
<1>3. /\ mu' = mu /\ stop' = stop /\ session' = session /\ late' = late /\ shuttingDown' = shuttingDown
      /\ paused' = paused /\ crossed' = crossed /\ child' = child /\ playing' = playing /\ stale' = stale
      /\ orphan' = orphan /\ Raised(w)
  BY DEF Raise
<1>4. "input" \in Workers /\ "idle" \in Workers /\ "osd" \in Workers
  BY DEF Workers
<1>5. /\ thread' \in [Workers -> {"none", "check", "paint", "call", "exited"}]
      /\ terminate' = terminate
      /\ \A v \in Workers : thread'[v] = "paint" => thread[v] = "paint"
      /\ shuttingDown => \A v \in Workers : thread[v] = "none" => thread'[v] = "none"
  BY <1>3, RaisedKeeps
<1>6. Sane'
  BY <1>3, <1>4, <1>5 DEF Sane, WorkersTypeOK
<1>7. \A b : Harmless(b)
  BY <1>3, <1>5 DEF Harmless
<1>8. Paid(x.paint, x.paint)
  BY <1>3, <1>4, <1>5, PaidLess
<1> QED
  BY <1>2, <1>6, <1>7, <1>8, StillKnows DEF Carries

\* A play that cannot have the screen leaves its call as it was, but for the
\* paint it may owe.
LEMMA FailsTakes ==
  ASSUME NEW a \in Agents, NEW x \in Marks, NEW y \in Marks, Sane, Knows(a, x), MayStep(Head(todo[a]), x, y),
         BeginFails(a), NEW z \in Marks, z.paint => "handoff" \in x.held,
         z.held = x.held, z.phase \in {x.phase, "begun"}, z.claim = x.claim, Keeps(x, z)
  PROVE  Carries(a, x, z) /\ x.phase = "joined" /\ Becomes(y, x.held, "begun", FALSE, x.claim) /\ Keeps(x, y)
<1>1. Head(todo[a])[1] = "begin"
  BY DEF BeginFails, At
<1>2. x.phase = "joined" /\ Becomes(y, x.held, "begun", FALSE, x.claim) /\ Keeps(x, y)
  BY <1>1, MayEnter
<1>3. "life" \in x.held /\ session = "none"
  BY <1>2 DEF Knows
<1>4. ~playing
  BY <1>3 DEF Sane
<1>5. /\ mu' = mu /\ stop' = stop /\ session' = session /\ late' = late /\ shuttingDown' = shuttingDown /\ thread' = thread
      /\ paused' = paused /\ crossed' = crossed /\ child' = child /\ playing' = playing /\ stale' = stale
      /\ orphan' = orphan /\ terminate' = terminate
  BY DEF BeginFails
<1>6. Sane'
  BY <1>5 DEF Sane, WorkersTypeOK
<1>7. Knows(a, z)'
  BY <1>3, <1>5 DEF Knows, Keeps
<1>8. Paid(x.paint, z.paint)
  BY <1>4, <1>5 DEF Paid
<1> QED
  BY <1>2, <1>5, <1>6, <1>7, <1>8, HarmlessSame DEF Carries

-----------------------------------------------------------------------------
Budget(X) == playing => Due + One(\E a \in Agents : X[a].paint) <= 3

\* Of the steps that are left only the first can be the join of a worker.
Lined(s) == s \in Seq(Steps \cup Joins) /\ (s # <<>> => Tail(s) \in Seq(Steps))

OnCourse(X) ==
    /\ Budget(X)
    /\ \A a \in Agents : Knows(a, X[a]) /\ Lined(todo[a]) /\ Derives(todo[a], X[a])

WorkersInv ==
    /\ Sane
    /\ DOMAIN todo = Agents
    /\ \E X \in [Agents -> Marks] : OnCourse(X)

LEMMA StepsLined ==
  /\ \A s \in Seq(Steps) : Lined(s)
  /\ \A s \in Seq(Steps), w \in Workers : Lined(<<<<"joined", w>>>> \o s)
<1>1. ASSUME NEW s \in Seq(Steps) PROVE Lined(s)
  <2>1. s \in Seq(Steps \cup Joins)
    OBVIOUS
  <2> HIDE DEF Steps, Joins
  <2>2. s # <<>> => Tail(s) \in Seq(Steps)
    OBVIOUS
  <2> QED
    BY <2>1, <2>2 DEF Lined
<1>2. ASSUME NEW s \in Seq(Steps), NEW w \in Workers PROVE Lined(<<<<"joined", w>>>> \o s)
  <2> DEFINE j == <<"joined", w>>
  <2>1. j \in Joins
    BY DEF Joins
  <2> HIDE DEF j
  <2>2. s \in Seq(Steps \cup Joins) /\ <<j>> \in Seq(Steps \cup Joins)
    BY <2>1
  <2>3. <<j>> \o s \in Seq(Steps \cup Joins) /\ Tail(<<j>> \o s) = s
    BY <2>2
  <2>4. Lined(<<j>> \o s)
    BY <2>3 DEF Lined
  <2> QED
    BY <2>4 DEF j
<1> QED
  BY <1>1, <1>2

\* Only the call that holds playHandoffMu owes a paint.
LEMMA OneOwes ==
  ASSUME NEW X \in [Agents -> Marks], OnCourse(X), NEW a \in Agents, NEW b \in Agents, X[a].paint, X[b].paint
  PROVE  a = b
<1>1. "handoff" \in Mutexes
  BY DEF Mutexes
<1>2. "handoff" \in X[a].held /\ "handoff" \in X[b].held
  BY DEF OnCourse, Knows
<1> QED
  BY <1>1, <1>2 DEF OnCourse, Knows

LEMMA BudgetKept ==
  ASSUME NEW X \in [Agents -> Marks], OnCourse(X), Sane, Sane', NEW a \in Agents, NEW z \in Marks,
         Paid(X[a].paint, z.paint), NEW Y \in [Agents -> Marks], Y[a] = z, \A b \in Agents \ {a} : Y[b] = X[b]
  PROVE  Budget(Y)'
<1> DEFINE p == \E b \in Agents : X[b].paint
           q == \E b \in Agents : Y[b].paint
<1>1. SUFFICES ASSUME playing' PROVE Due' + One(q) <= 3
  BY DEF Budget
<1>2. Due' \in Int /\ Due \in Int
  <2>1. (Sane => Due \in Int /\ stale \in Int)'
    BY DueNumber, PTL
  <2> QED
    BY <2>1, DueNumber
<1>3. CASE stale' = 0
  BY <1>3 DEF Due, One
<1>4. CASE playing /\ Due' + One(z.paint) <= Due + One(X[a].paint)
  <2>1. Due + One(p) <= 3
    BY <1>4 DEF OnCourse, Budget
  <2>2. One(q) - One(z.paint) <= One(p) - One(X[a].paint)
    <3>1. CASE X[a].paint
      <4>1. \A b \in Agents \ {a} : ~Y[b].paint
        BY <3>1, OneOwes
      <4>2. p /\ (q <=> z.paint)
        BY <3>1, <4>1
      <4> HIDE DEF p, q
      <4> QED
        BY <3>1, <4>2 DEF One
    <3>2. CASE ~X[a].paint
      <4>1. CASE p
        BY <3>2, <4>1 DEF One
      <4>2. CASE ~p
        <5>1. q <=> z.paint
          BY <4>2
        <5> HIDE DEF p, q
        <5> QED
          BY <3>2, <4>2, <5>1 DEF One
      <4> QED
        BY <4>1, <4>2
    <3> QED
      BY <3>1, <3>2
  <2>3. One(p) \in Int /\ One(q) \in Int /\ One(z.paint) \in Int /\ One(X[a].paint) \in Int
    BY DEF One
  <2> DEFINE d == Due
             e == Due'
             i == One(p)
             j == One(q)
             k == One(z.paint)
             l == One(X[a].paint)
  <2>4. /\ e + k <= d + l /\ d + i <= 3 /\ j - k <= i - l
        /\ d \in Int /\ e \in Int /\ i \in Int /\ j \in Int /\ k \in Int /\ l \in Int
    BY <1>2, <1>4, <2>1, <2>2, <2>3
  <2>5. e + j <= 3
    <3> HIDE DEF d, e, i, j, k, l
    <3> QED
      BY <2>4
  <2> QED
    BY <2>5
<1> QED
  BY <1>1, <1>3, <1>4 DEF Paid

LEMMA CallsOn ==
  ASSUME Sane, NEW X \in [Agents -> Marks], OnCourse(X), DOMAIN todo = Agents, NEW a \in Agents,
         NEW z \in Marks, Carries(a, X[a], z),
         NEW rest, Lined(rest), todo' = [todo EXCEPT ![a] = rest], Derives(rest, z)
  PROVE  WorkersInv'
<1> DEFINE Y == [X EXCEPT ![a] = z]
<1>1. Y \in [Agents -> Marks] /\ Y[a] = z /\ \A b \in Agents \ {a} : Y[b] = X[b]
  OBVIOUS
<1>2. DOMAIN todo' = Agents /\ todo'[a] = rest /\ \A b \in Agents \ {a} : todo'[b] = todo[b]
  OBVIOUS
<1> HIDE DEF Y
<1>3. Sane' /\ Knows(a, z)' /\ (\A b \in Agents \ {a} : Harmless(b)) /\ Paid(X[a].paint, z.paint)
  BY DEF Carries
<1>4. Budget(Y)'
  BY <1>1, <1>3, BudgetKept
<1>5. \A b \in Agents : Knows(b, Y[b])'
  <2> SUFFICES ASSUME NEW b \in Agents PROVE Knows(b, Y[b])'
    OBVIOUS
  <2>1. CASE b = a
    BY <1>1, <1>3, <2>1
  <2>2. CASE b # a
    <3>1. Knows(b, X[b]) /\ Harmless(b) /\ X[b] \in Marks
      BY <1>3, <2>2 DEF OnCourse
    <3>2. Knows(b, X[b])'
      BY <3>1, StillKnows
    <3> QED
      BY <1>1, <2>2, <3>2
  <2> QED
    BY <2>1, <2>2
<1>6. \A b \in Agents : Lined(todo'[b]) /\ Derives(todo'[b], Y[b])
  BY <1>1, <1>2 DEF OnCourse
<1>7. OnCourse(Y)'
  BY <1>4, <1>5, <1>6 DEF OnCourse
<1> QED
  BY <1>1, <1>2, <1>3, <1>7 DEF WorkersInv

LEMMA OthersOn ==
  ASSUME WorkersInv, todo' = todo, \A b \in Agents : Harmless(b), Sane', Paid(FALSE, FALSE)
  PROVE  WorkersInv'
<1>1. PICK X \in [Agents -> Marks] : OnCourse(X)
  BY DEF WorkersInv
<1>2. "input" \in Agents
  BY DEF Agents
<1>3. Paid(X["input"].paint, X["input"].paint)
  <2>1. Due \in Int /\ Due' \in Int
    <3>1. (Sane => Due \in Int /\ stale \in Int)'
      BY DueNumber, PTL
    <3> QED
      BY <3>1, DueNumber DEF WorkersInv
  <2>2. One(FALSE) = 0 /\ One(X["input"].paint) \in Int
    BY DEF One
  <2>3. ASSUME NEW d \in Int, NEW e \in Int, NEW i \in Int, e + 0 <= d + 0 PROVE e + i <= d + i
    BY <2>3
  <2>4. playing' => stale' = 0 \/ (playing /\ Due' + 0 <= Due + 0)
    BY <2>2 DEF Paid
  <2>5. CASE Due' + 0 <= Due + 0
    <3>1. Due' + One(X["input"].paint) <= Due + One(X["input"].paint)
      BY <2>1, <2>2, <2>3, <2>5, Zenon
    <3> QED
      BY <2>4, <3>1 DEF Paid
  <2>6. CASE ~(Due' + 0 <= Due + 0)
    BY <2>4, <2>6 DEF Paid
  <2> QED
    BY <2>5, <2>6
<1>4. Budget(X)'
  BY <1>1, <1>2, <1>3, BudgetKept DEF WorkersInv
<1>5. \A b \in Agents : Knows(b, X[b])'
  BY <1>1, StillKnows DEF OnCourse
<1>6. OnCourse(X)'
  BY <1>1, <1>4, <1>5 DEF OnCourse
<1> QED
  BY <1>6 DEF WorkersInv

\* A call begins where nothing is left of the last one, so nothing is held.
LEMMA CallBegins ==
  ASSUME WorkersInv, NEW a \in Agents, NEW call \in {"seek", "stop", "castStop", "cast", "castFail", "shutdown", "pause", "resume"},
         Called(a, call), \A b \in Agents : Harmless(b), Sane', Paid(FALSE, FALSE)
  PROVE  WorkersInv'
<1>1. PICK X \in [Agents -> Marks] : OnCourse(X)
  BY DEF WorkersInv
<1> DEFINE z == Mark({}, FALSE)
<1>2. z \in Marks
  BY AmidIsMark
<1>3. Program(call) \in Seq(Steps) /\ Derives(Program(call), z)
  BY ProgramDerives
<1>4. todo[a] = <<>> /\ todo' = [todo EXCEPT ![a] = Program(call)]
  BY DEF Called
<1>5. X[a].held = {}
  <2>1. Derives(<<>>, X[a])
    BY <1>1, <1>4 DEF OnCourse
  <2> QED
    BY <2>1, LeadsNowhere DEF Derives
<1>6. Knows(a, z)
  <2>1. \A m \in Mutexes : mu[m] # a
    BY <1>1, <1>5 DEF OnCourse, Knows
  <2> QED
    BY <2>1 DEF Knows, Mark, Amid
<1>7. Knows(a, z)'
  BY <1>2, <1>6, StillKnows
<1>8. Paid(X[a].paint, z.paint)
  <2>1. z.paint = FALSE
    BY DEF Mark, Amid
  <2>2. X[a].paint = FALSE
    <3>1. ~X[a].paint /\ X[a].paint \in BOOLEAN
      BY <1>1, <1>5 DEF OnCourse, Knows, Marks
    <3> QED
      BY <3>1
  <2> QED
    BY <2>1, <2>2
<1> HIDE DEF z
<1>9. Carries(a, X[a], z)
  BY <1>7, <1>8 DEF Carries
<1> QED
  BY <1>1, <1>2, <1>3, <1>4, <1>9, CallsOn, StepsLined DEF WorkersInv

\* After a play that has begun, a call can only let go of lifeMu_.
LEMMA BegunUnlocks ==
  ASSUME NEW st, NEW x, NEW y, MayStep(st, x, y), x.phase = "begun"
  PROVE  /\ st[1] = "unlock" /\ st[2] = "life" /\ "life" \in x.held /\ Keeps(x, y)
         /\ Becomes(y, x.held \ {"life"}, "out", x.paint /\ "life" # "handoff", x.claim)
BY DEF MayStep, Plainly, Inside, Locks

\* A cast whose play cannot have the screen resumes the workers with the idle
\* painter.
LEMMA FailsOn ==
  ASSUME Sane, NEW X \in [Agents -> Marks], OnCourse(X), DOMAIN todo = Agents, NEW a \in Agents, todo[a] # <<>>,
         BeginFails(a)
  PROVE  WorkersInv'
<1> DEFINE x == X[a]
           s == todo[a]
<1>1. x \in Marks /\ Knows(a, x) /\ s \in Seq(Steps \cup Joins) /\ Tail(s) \in Seq(Steps) /\ Derives(s, x)
  BY DEF OnCourse, Lined
<1>2. PICK z \in Marks : Leads(s, x, z) /\ z.held = {}
  BY <1>1 DEF Derives
<1>3. PICK y \in Marks : MayStep(Head(s), x, y) /\ Leads(Tail(s), y, z)
  BY <1>1, <1>2, LeadsBegins
<1>4. Tail(s) \in Seq(Steps) /\ Derives(Tail(s), y)
  BY <1>1, <1>2, <1>3 DEF Derives
<1>5. Head(s)[1] = "begin"
  BY DEF BeginFails, At
<1>6. x.phase = "joined" /\ Becomes(y, x.held, "begun", FALSE, x.claim) /\ Keeps(x, y)
  BY <1>3, <1>5, MayEnter
<1>7. CASE mu["handoff"] # a
  <2>1. todo' = [todo EXCEPT ![a] = Tail(s)]
    BY <1>7 DEF BeginFails
  <2>2. Carries(a, x, y)
    <3>1. (y.paint => "handoff" \in x.held) /\ y.held = x.held /\ y.phase \in {x.phase, "begun"} /\ y.claim = x.claim
      BY <1>6 DEF Becomes
    <3> QED
      BY <1>1, <1>3, <1>6, <3>1, FailsTakes
  <2> HIDE DEF x, s
  <2> QED
    BY <1>4, <2>1, <2>2, CallsOn, StepsLined DEF x
<1>8. CASE mu["handoff"] = a
  <2> DEFINE t == Tail(s)
  <2>1. "life" \in y.held /\ "handoff" \in x.held
    <3>1. "handoff" \in Mutexes
      BY DEF Mutexes
    <3>2. "life" \in x.held
      BY <1>1, <1>6 DEF Knows
    <3> QED
      BY <1>1, <1>6, <1>8, <3>1, <3>2 DEF Knows, Becomes
  <2>2. t # <<>>
    <3> SUFFICES ASSUME t = <<>> PROVE FALSE
      OBVIOUS
    <3>1. Leads(<<>>, y, z)
      BY <1>3
    <3>2. y = z
      BY <3>1, LeadsNowhere
    <3> QED
      BY <1>2, <2>1, <3>2
  <2> HIDE DEF t
  <2>3. t \in Seq(Steps) /\ Leads(t, y, z)
    BY <1>3, <1>4 DEF t
  <2>4. PICK y2 \in Marks : MayStep(Head(t), y, y2) /\ Leads(Tail(t), y2, z)
    BY <2>2, <2>3, LeadsBegins
  <2>5. /\ Head(t)[1] = "unlock" /\ Head(t)[2] = "life" /\ Keeps(y, y2)
        /\ Becomes(y2, x.held \ {"life"}, "out", FALSE, x.claim) /\ "life" \in x.held
    <3>1. y.phase = "begun" /\ y.held = x.held /\ y.paint = FALSE /\ y.claim = x.claim
      BY <1>6 DEF Becomes
    <3>2. /\ Head(t)[1] = "unlock" /\ Head(t)[2] = "life" /\ "life" \in y.held /\ Keeps(y, y2)
          /\ Becomes(y2, y.held \ {"life"}, "out", y.paint /\ "life" # "handoff", y.claim)
      BY <2>4, <3>1, BegunUnlocks
    <3> QED
      BY <3>1, <3>2 DEF Becomes
  <2> DEFINE u == [held |-> x.held, phase |-> "begun", paint |-> TRUE, latched |-> x.latched,
                   parted |-> x.parted, none |-> x.none, claim |-> x.claim]
             y3 == [held |-> x.held \ {"life"}, phase |-> "out", paint |-> TRUE, latched |-> x.latched,
                    parted |-> x.parted, none |-> x.none, claim |-> x.claim]
  <2>6. u \in Marks /\ y3 \in Marks
    BY <1>1 DEF Marks
  <2>7. Carries(a, x, u)
    <3>1. (u.paint => "handoff" \in x.held) /\ u.held = x.held /\ u.phase \in {x.phase, "begun"} /\ u.claim = x.claim
          /\ Keeps(x, u)
      BY <2>1 DEF Keeps
    <3> HIDE DEF u
    <3> QED
      BY <1>1, <1>3, <2>6, <3>1, FailsTakes
  <2>8. MayStep(Head(t), u, y3)
    <3>1. Locks(Head(t), u, y3)
      <4>1. Keeps(u, y3) /\ "life" \in u.held /\ u.paint = TRUE /\ u.held = x.held /\ u.claim = x.claim
        BY <2>5 DEF Keeps
      <4>2. Becomes(y3, x.held \ {"life"}, "out", TRUE, x.claim)
        BY DEF Becomes
      <4> HIDE DEF u, y3
      <4> QED
        BY <2>5, <4>1, <4>2 DEF Locks, Becomes
    <3> QED
      BY <3>1 DEF MayStep
  <2>9. MayStep(<<"paint">>, y3, y2)
    <3>1. <<"paint">>[1] = "paint"
      OBVIOUS
    <3>2. Keeps(y3, y2)
      BY <1>6, <2>5 DEF Keeps
    <3>3. y3.phase = "out" /\ y3.paint = TRUE /\ Becomes(y2, y3.held, y3.phase, FALSE, y3.claim)
      BY <2>5
    <3> HIDE DEF y3
    <3> QED
      BY <3>1, <3>2, <3>3 DEF MayStep, Plainly
  <2>10. MayStep(<<"raise", "idle">>, y2, y2)
    <3>1. <<"raise", "idle">>[1] = "raise"
      OBVIOUS
    <3>2. y2.phase # "begun"
      BY <2>5 DEF Becomes
    <3>3. Open("idle", y2)
      BY DEF Open, Workers
    <3> QED
      BY <3>1, <3>2, <3>3 DEF MayStep, Plainly
  <2> HIDE DEF u, y3
  <2> DEFINE first == <<Head(t)>>
             paints == Do(<<"paint">>)
             rest == first \o paints \o Raising("idle") \o Tail(t)
  <2>11. first \in Seq(Steps) /\ Leads(first, u, y3) /\ Tail(t) \in Seq(Steps)
    <3>1. Head(t) \in Steps /\ Tail(t) \in Seq(Steps)
      BY <2>2, <2>3
    <3>2. <<Head(t)>> \in Seq(Steps)
      BY <3>1
    <3> QED
      BY <2>6, <2>8, <3>1, <3>2, LeadsOne
  <2>12. paints \in Seq(Steps) /\ Leads(paints, y3, y2)
    <3>1. paints \in Seq(Steps) /\ paints = <<<<"paint">>>>
      BY PaintLeads, DoSteps
    <3> QED
      BY <2>4, <2>6, <2>9, <3>1, LeadsOne
  <2>13. Raising("idle") \in Seq(Steps) /\ Leads(Raising("idle"), y2, y2)
    <3>1. <<"raise", "idle">> \in Steps
      BY StepsAreSteps DEF Workers
    <3>2. <<<<"raise", "idle">>>> \in Seq(Steps)
      BY <3>1
    <3> QED
      BY <2>4, <2>10, <3>2, LeadsOne DEF Raising
  <2>14. todo' = [todo EXCEPT ![a] = rest]
    <3>1. s[2] = Head(t)
      BY <1>1, <2>2 DEF t
    <3>2. todo' = [todo EXCEPT ![a] = <<s[2]>> \o Do(<<"paint">>) \o Raising("idle") \o Tail(Tail(s))]
      BY <1>8 DEF BeginFails
    <3> QED
      BY <3>1, <3>2 DEF t
  <2> HIDE DEF first, paints
  <2>15. first \o paints \in Seq(Steps) /\ Leads(first \o paints, u, y2)
    BY <2>11, <2>12, LeadsThen
  <2> DEFINE two == first \o paints
  <2> HIDE DEF two
  <2>16. two \o Raising("idle") \in Seq(Steps) /\ Leads(two \o Raising("idle"), u, y2)
    BY <2>13, <2>15, LeadsThen DEF two
  <2> DEFINE three == two \o Raising("idle")
  <2> HIDE DEF three
  <2>17. three \o Tail(t) \in Seq(Steps) /\ Leads(three \o Tail(t), u, z)
    BY <2>4, <2>11, <2>16, LeadsThen DEF three
  <2>18. rest \in Seq(Steps) /\ Derives(rest, u)
    BY <1>2, <2>17 DEF three, two, Derives
  <2> HIDE DEF rest
  <2> HIDE DEF x
  <2> QED
    BY <2>6, <2>7, <2>14, <2>18, CallsOn, StepsLined DEF x
<1> QED
  BY <1>7, <1>8

\* Every step of a call keeps the invariant.
LEMMA StepKeeps ==
  ASSUME WorkersInv, NEW a \in Agents, Step(a)
  PROVE  WorkersInv'
<1>1. PICK X \in [Agents -> Marks] : OnCourse(X)
  BY DEF WorkersInv
<1>2. Sane /\ DOMAIN todo = Agents /\ todo[a] # <<>>
  BY DEF WorkersInv, Step
<1> DEFINE x == X[a]
           s == todo[a]
<1>3. x \in Marks /\ Knows(a, x) /\ s \in Seq(Steps \cup Joins) /\ Tail(s) \in Seq(Steps) /\ Derives(s, x)
  BY <1>1, <1>2 DEF OnCourse, Lined
<1>4. PICK z \in Marks : Leads(s, x, z) /\ z.held = {}
  BY <1>3 DEF Derives
<1>5. PICK y \in Marks : MayStep(Head(s), x, y) /\ Leads(Tail(s), y, z)
  BY <1>2, <1>3, <1>4, LeadsBegins
<1>6. Tail(s) \in Seq(Steps) /\ Derives(Tail(s), y)
  BY <1>2, <1>3, <1>4, <1>5 DEF Derives
<1>7. ASSUME Carries(a, x, y), todo' = [todo EXCEPT ![a] = Tail(s)]
      PROVE  WorkersInv'
  <2> HIDE DEF x, s
  <2> QED
    BY <1>1, <1>2, <1>5, <1>6, <1>7, CallsOn, StepsLined DEF x
<1>8. ASSUME NEW m \in Mutexes, Lock(a, m) PROVE WorkersInv'
  <2>1. Carries(a, x, y)
    BY <1>2, <1>3, <1>5, <1>8, LockTakes
  <2>2. todo' = [todo EXCEPT ![a] = Tail(s)]
    BY <1>8 DEF Lock, Advance
  <2> QED
    BY <1>7, <2>1, <2>2
<1>9. CASE Tell(a)
  <2>1. Carries(a, x, y)
    BY <1>2, <1>3, <1>5, <1>9, TellTakes
  <2>2. todo' = [todo EXCEPT ![a] = Tail(s)]
    BY <1>9 DEF Tell, Advance
  <2> QED
    BY <1>7, <2>1, <2>2
<1>10. CASE Kill(a)
  <2>1. Carries(a, x, y)
    BY <1>2, <1>3, <1>5, <1>10, KillTakes
  <2>2. todo' = [todo EXCEPT ![a] = Tail(s)]
    BY <1>10 DEF Kill, Advance
  <2> QED
    BY <1>7, <2>1, <2>2
<1>11. CASE Join(a)
  <2>1. Carries(a, x, y)
    BY <1>2, <1>3, <1>5, <1>11, JoinTakes
  <2>2. todo' = [todo EXCEPT ![a] = Tail(s)]
    BY <1>11 DEF Join, Advance
  <2> QED
    BY <1>7, <2>1, <2>2
<1>12. CASE Begin(a)
  <2>1. Carries(a, x, y)
    BY <1>2, <1>3, <1>5, <1>12, BeginTakes
  <2>2. todo' = [todo EXCEPT ![a] = Tail(s)]
    BY <1>12 DEF Begin, Advance
  <2> QED
    BY <1>7, <2>1, <2>2
<1>13. CASE BeginFails(a)
  BY <1>1, <1>2, <1>13, FailsOn
<1>14. CASE Settle(a)
  <2>1. Carries(a, x, y)
    BY <1>2, <1>3, <1>5, <1>14, SettleTakes
  <2>2. todo' = [todo EXCEPT ![a] = Tail(s)]
    BY <1>14 DEF Settle, Advance
  <2> QED
    BY <1>7, <2>1, <2>2
<1>15. CASE Look(a)
  <2>1. Carries(a, x, y)
    BY <1>2, <1>3, <1>5, <1>15, LookTakes
  <2>2. CASE Advance(a)
    <3>1. todo' = [todo EXCEPT ![a] = Tail(s)]
      BY <2>2 DEF Advance
    <3> QED
      BY <1>7, <2>1, <3>1
  <2>3. CASE At(a, "look") /\ todo' = [todo EXCEPT ![a] = <<>>]
    <3>1. Head(s)[1] = "look"
      BY <2>3 DEF At
    <3>2. y = x /\ x.held = {}
      BY <1>5, <3>1, MayPlain
    <3>3. <<>> \in Seq(Steps) /\ Derives(<<>>, y)
      BY <1>5, <3>2, LeadsNowhere DEF Derives
    <3> HIDE DEF x
    <3> QED
      BY <1>1, <1>2, <1>5, <2>1, <2>3, <3>3, CallsOn, StepsLined DEF x
  <2> QED
    BY <1>15, <2>2, <2>3 DEF Look
<1>16. CASE Latch(a)
  <2>1. Carries(a, x, y)
    BY <1>2, <1>3, <1>5, <1>16, LatchTakes
  <2>2. todo' = [todo EXCEPT ![a] = Tail(s)]
    BY <1>16 DEF Latch, Advance
  <2> QED
    BY <1>7, <2>1, <2>2
<1>17. CASE Gone(a)
  <2>1. Carries(a, x, y)
    BY <1>2, <1>3, <1>5, <1>17, GoneTakes
  <2>2. todo' = [todo EXCEPT ![a] = Tail(s)]
    BY <1>17 DEF Gone, Advance
  <2> QED
    BY <1>7, <2>1, <2>2
<1>18. ASSUME NEW w \in Workers, Retire(a, w) PROVE WorkersInv'
  <2>1. Carries(a, x, x)
    BY <1>2, <1>3, <1>18, RetireTakes
  <2>2. MayStep(<<"joined", w>>, x, y)
    <3>1. Head(s) = <<"retire", w>>
      BY <1>18 DEF Retire
    <3>2. MayStep(<<"retire", w>>, x, y)
      BY <1>5, <3>1
    <3> QED
      BY <3>2, MayRejoin
  <2> DEFINE rest == <<<<"joined", w>>>> \o Tail(s)
  <2>3. <<"joined", w>> \in Steps \cup Joins
    BY DEF Joins
  <2>4. Lined(rest)
    BY <1>6, StepsLined
  <2>8. Tail(s) \in Seq(Steps \cup Joins)
    BY <1>6
  <2>5. Leads(rest, x, z)
    BY <1>3, <1>5, <2>2, <2>3, <2>8, LeadsFirst
  <2>6. todo' = [todo EXCEPT ![a] = rest]
    BY <1>18 DEF Retire
  <2>7. Derives(rest, x)
    BY <1>4, <2>5 DEF Derives
  <2> HIDE DEF x, rest
  <2> QED
    BY <1>1, <1>2, <1>3, <2>1, <2>4, <2>6, <2>7, CallsOn DEF x
<1>19. ASSUME NEW w \in Workers, Retired(a, w) PROVE WorkersInv'
  <2>1. Carries(a, x, y)
    BY <1>2, <1>3, <1>5, <1>19, RetiredTakes
  <2>2. todo' = [todo EXCEPT ![a] = Tail(s)]
    BY <1>19 DEF Retired, Advance
  <2> QED
    BY <1>7, <2>1, <2>2
<1>20. ASSUME NEW w \in Workers, Raise(a, w) PROVE WorkersInv'
  <2>1. Carries(a, x, y)
    BY <1>2, <1>3, <1>5, <1>20, RaiseTakes
  <2>2. todo' = [todo EXCEPT ![a] = Tail(s)]
    BY <1>20 DEF Raise, Advance
  <2> QED
    BY <1>7, <2>1, <2>2
<1>21. CASE Pausing(a)
  <2>1. Carries(a, x, y)
    BY <1>2, <1>3, <1>5, <1>21, PauseTakes
  <2>2. todo' = [todo EXCEPT ![a] = Tail(s)]
    BY <1>21 DEF Pausing, Advance
  <2> QED
    BY <1>7, <2>1, <2>2
<1>22. CASE PaintNow(a)
  <2>1. x.paint /\ playing => Due + 1 <= 3
    <3>1. ASSUME x.paint, playing PROVE Due + 1 <= 3
      <4>1. Due + One(\E b \in Agents : X[b].paint) <= 3
        BY <1>1, <3>1 DEF OnCourse, Budget
      <4>2. \E b \in Agents : X[b].paint
        BY <3>1
      <4>3. One(\E b \in Agents : X[b].paint) = 1
        BY <4>2 DEF One
      <4> QED
        BY <4>1, <4>3
    <3> QED
      BY <3>1
  <2>2. Carries(a, x, y)
    BY <1>2, <1>3, <1>5, <1>22, <2>1, PaintTakes
  <2>3. todo' = [todo EXCEPT ![a] = Tail(s)]
    BY <1>22 DEF PaintNow, Advance
  <2> QED
    BY <1>7, <2>2, <2>3
<1> HIDE DEF x, s
<1> QED
  BY <1>8, <1>9, <1>10, <1>11, <1>12, <1>13, <1>14, <1>15, <1>16, <1>17, <1>18, <1>19, <1>20, <1>21, <1>22, Zenon DEF Step

LEMMA SessionKeeps ==
  ASSUME WorkersInv, \/ SessionForks \/ SessionFails \/ SessionPublishes \/ SessionLeaves \/ SessionKills
                     \/ SessionPaints \/ SessionRaisesIdle
  PROVE  WorkersInv'
<1>1. Sane /\ todo' = todo
  BY DEF WorkersInv, SessionForks, SessionFails, SessionPublishes, SessionLeaves, SessionKills, SessionPaints,
         SessionRaisesIdle
<1>2. ASSUME SessionRaisesIdle PROVE Sane' /\ (\A b \in Agents : Harmless(b)) /\ Paid(FALSE, FALSE)
  <2>1. "input" \in Workers /\ "idle" \in Workers /\ "osd" \in Workers
    BY DEF Workers
  <2>2. /\ session = "raise" /\ session' = "exited" /\ Raised("idle") /\ mu' = mu /\ stop' = stop /\ child' = child
        /\ playing' = playing /\ paused' = paused /\ shuttingDown' = shuttingDown /\ stale' = stale
        /\ crossed' = crossed /\ orphan' = orphan /\ late' = late
    BY <1>2 DEF SessionRaisesIdle, Session
  <2>3. /\ thread' \in [Workers -> {"none", "check", "paint", "call", "exited"}]
        /\ terminate' = terminate
        /\ \A v \in Workers : thread'[v] = "paint" => thread[v] = "paint"
        /\ shuttingDown => \A v \in Workers : thread[v] = "none" => thread'[v] = "none"
    BY <1>1, <2>1, <2>2, RaisedKeeps
  <2>4. Sane'
    BY <1>1, <2>1, <2>2, <2>3 DEF Sane, WorkersTypeOK
  <2>5. \A b \in Agents : Harmless(b)
    BY <2>2, <2>3 DEF Harmless
  <2>6. Paid(FALSE, FALSE)
    BY <1>1, <2>1, <2>2, <2>3, PaidLess
  <2> QED
    BY <2>4, <2>5, <2>6
<1>3. ASSUME \/ SessionForks \/ SessionFails \/ SessionPublishes \/ SessionLeaves \/ SessionKills \/ SessionPaints
      PROVE  Sane' /\ (\A b \in Agents : Harmless(b)) /\ Paid(FALSE, FALSE)
  <2>1. /\ mu' = mu /\ stop' = stop /\ thread' = thread /\ paused' = paused /\ shuttingDown' = shuttingDown /\ stale' = stale
        /\ crossed' = crossed /\ orphan' = orphan /\ late' = late /\ terminate' = terminate
        /\ session # "none"
    BY <1>3 DEF SessionForks, SessionFails, SessionPublishes, SessionLeaves, SessionKills, SessionPaints, Session
  <2>2. child \in [alive : BOOLEAN, frozen : BOOLEAN, known : BOOLEAN]
    BY <1>1 DEF Sane, WorkersTypeOK
  <2>3. CASE SessionForks
    <3>1. /\ session = "fork" /\ session' = "publish" /\ playing' = playing
          /\ child' = [alive |-> TRUE, frozen |-> FALSE, known |-> FALSE]
      BY <2>3 DEF SessionForks, Session
    <3>2. Sane'
      BY <1>1, <2>1, <3>1 DEF Sane, WorkersTypeOK
    <3> QED
      BY <1>1, <2>1, <3>1, <3>2, PaidSame DEF Harmless
  <2>4. CASE SessionFails
    <3>1. session = "fork" /\ session' = "exited" /\ ~playing' /\ child' = Reaped(child)
      BY <2>4 DEF SessionFails, Session
    <3>2. child' = child
      BY <1>1, <3>1 DEF Sane, Reaped
    <3>3. Sane'
      BY <1>1, <2>1, <3>1, <3>2 DEF Sane, WorkersTypeOK
    <3> QED
      BY <2>1, <3>1, <3>2, <3>3 DEF Harmless, Paid
  <2>5. CASE SessionPublishes
    <3>1. session = "publish" /\ session' = "play" /\ playing' = playing /\ child' = [child EXCEPT !.known = TRUE]
      BY <2>5 DEF SessionPublishes, Session
    <3>2. child' \in [alive : BOOLEAN, frozen : BOOLEAN, known : BOOLEAN] /\ child'.known /\ ~child'.frozen
      BY <1>1, <2>2, <3>1 DEF Sane
    <3>3. Sane'
      BY <1>1, <2>1, <3>1, <3>2 DEF Sane, WorkersTypeOK
    <3> QED
      BY <1>1, <2>1, <3>1, <3>2, <3>3, PaidSame DEF Harmless
  <2>6. CASE SessionLeaves
    <3>1. session = "play" /\ session' = "kill" /\ playing' = playing /\ child' = child
      BY <2>6 DEF SessionLeaves, Session
    <3>2. Sane'
      BY <1>1, <2>1, <3>1 DEF Sane, WorkersTypeOK
    <3> QED
      BY <1>1, <2>1, <3>1, <3>2, PaidSame DEF Harmless
  <2>7. CASE SessionKills
    <3>1. session = "kill" /\ session' = "paint" /\ ~playing' /\ child' = Reaped(child)
      BY <2>7 DEF SessionKills, Session
    <3>2. child' \in [alive : BOOLEAN, frozen : BOOLEAN, known : BOOLEAN] /\ ~child'.known /\ ~child'.frozen /\ ~child'.alive
      <4>1. CASE child.known
        BY <3>1, <4>1 DEF Reaped
      <4>2. CASE ~child.known
        BY <1>1, <2>2, <3>1, <4>2 DEF Reaped, Sane
      <4> QED
        BY <4>1, <4>2
    <3>3. Sane'
      BY <1>1, <2>1, <3>1, <3>2 DEF Sane, WorkersTypeOK
    <3> QED
      BY <2>1, <3>1, <3>2, <3>3 DEF Harmless, Paid
  <2>8. CASE SessionPaints
    <3>1. session = "paint" /\ session' = "raise" /\ playing' = playing /\ child' = child
      BY <2>8 DEF SessionPaints, Session
    <3>2. Sane'
      BY <1>1, <2>1, <3>1 DEF Sane, WorkersTypeOK
    <3> QED
      BY <1>1, <2>1, <3>1, <3>2, PaidSame DEF Harmless
  <2> QED
    BY <1>3, <2>3, <2>4, <2>5, <2>6, <2>7, <2>8
<1> QED
  BY <1>1, <1>2, <1>3, OthersOn

LEMMA WorkersKeep ==
  ASSUME WorkersInv, NEW w \in Workers, WorkerChecks(w) \/ WorkerPaints(w)
  PROVE  WorkersInv'
<1>1. Sane /\ todo' = todo
  BY DEF WorkersInv, WorkerChecks, WorkerPaints
<1>2. /\ mu' = mu /\ stop' = stop /\ session' = session /\ child' = child /\ playing' = playing /\ paused' = paused
      /\ shuttingDown' = shuttingDown /\ crossed' = crossed /\ orphan' = orphan /\ late' = late
      /\ terminate' = terminate /\ thread[w] # "none" /\ thread[w] # "exited"
  BY DEF WorkerChecks, WorkerPaints
<1>3. PICK to \in {"exited", "paint", "check"} :
        /\ thread' = [thread EXCEPT ![w] = to]
        /\ to = "paint" => WorkerChecks(w) /\ ~playing /\ w # "input"
        /\ to = "exited" => WorkerChecks(w)
        /\ to = "check" => WorkerPaints(w)
  BY DEF WorkerChecks, WorkerPaints
<1>4. thread \in [Workers -> {"none", "check", "paint", "call", "exited"}]
  BY <1>1 DEF Sane, WorkersTypeOK
<1>5. /\ thread' \in [Workers -> {"none", "check", "paint", "call", "exited"}]
      /\ thread'[w] = to /\ \A v \in Workers \ {w} : thread'[v] = thread[v]
  BY <1>3, <1>4
<1>6. "input" \in Workers /\ "idle" \in Workers /\ "osd" \in Workers /\ Workers = {"idle", "osd", "input"}
  BY DEF Workers
<1>7. thread'["input"] # "paint"
  BY <1>1, <1>3, <1>5, <1>6 DEF Sane
<1>8. \A b \in Agents : Harmless(b)
  BY <1>2, <1>5 DEF Harmless
<1>9. CASE WorkerChecks(w)
  <2>1. stale' = stale /\ to # "check"
    <3>1. thread[w] = "check" /\ thread'[w] # "check"
      BY <1>4, <1>9 DEF WorkerChecks
    <3> QED
      BY <1>5, <1>9, <3>1 DEF WorkerChecks
  <2>2. Sane'
    BY <1>1, <1>2, <1>5, <1>7, <2>1 DEF Sane, WorkersTypeOK
  <2>3. Paid(FALSE, FALSE)
    <3>1. CASE to = "paint"
      BY <1>2, <1>3, <3>1 DEF Paid
    <3>2. CASE to = "exited"
      BY <1>1, <1>2, <1>5, <1>6, <2>1, <3>2, PaidLess
    <3> QED
      BY <2>1, <3>1, <3>2
  <2> QED
    BY <1>1, <1>8, <2>2, <2>3, OthersOn
<1>10. CASE WorkerPaints(w)
  <2>1. thread[w] = "paint" /\ thread' = [thread EXCEPT ![w] = "check"]
        /\ stale' \in {stale, IF playing THEN stale + 1 ELSE stale}
    BY <1>10 DEF WorkerPaints, paintIdle
  <2>2. w \in {"idle", "osd"} /\ thread'[w] = "check"
    BY <1>1, <1>4, <1>6, <2>1 DEF Sane
  <2>3. stale \in Nat /\ stale <= 3 /\ Due \in Int
    BY <1>1, DueNumber DEF Sane, WorkersTypeOK
  <2>4. playing => Due <= 3
    <3>1. PICK X \in [Agents -> Marks] : OnCourse(X)
      BY DEF WorkersInv
    <3>2. One(\E a \in Agents : X[a].paint) \in Nat
      BY DEF One
    <3>3. playing => Due + One(\E a \in Agents : X[a].paint) <= 3
      BY <3>1 DEF OnCourse, Budget
    <3> DEFINE u == One(\E a \in Agents : X[a].paint)
               d == Due
    <3>4. u \in Nat /\ d \in Int /\ (playing => d + u <= 3)
      BY <2>3, <3>2, <3>3
    <3>5. playing => d <= 3
      <4> HIDE DEF u, d
      <4> QED
        BY <3>4
    <3> QED
      BY <3>5
  <2>5. Due' <= Due /\ stale' \in Nat /\ (playing => stale + 1 <= Due)
    <3> DEFINE i == One(thread["idle"] = "paint")
               o == One(thread["osd"] = "paint")
               j == One(thread'["idle"] = "paint")
               k == One(thread'["osd"] = "paint")
    <3>1. Due = stale + i + o /\ Due' = stale' + j + k
      BY DEF Due
    <3>2. i \in Nat /\ o \in Nat /\ j \in Nat /\ k \in Nat /\ j + k + 1 = i + o
      <4>1. CASE w = "idle"
        BY <1>5, <1>6, <2>1, <2>2, <4>1 DEF One
      <4>2. CASE w = "osd"
        BY <1>5, <1>6, <2>1, <2>2, <4>2 DEF One
      <4> QED
        BY <2>2, <4>1, <4>2
    <3> HIDE DEF i, o, j, k
    <3>3. stale' \in Nat /\ stale' <= stale + 1
      BY <2>1, <2>3
    <3> DEFINE d == Due
               e == Due'
    <3>4. d = stale + i + o /\ e = stale' + j + k
      BY <3>1
    <3>5. e <= d /\ stale + 1 <= d
      <4>1. ASSUME NEW f \in Nat, NEW g \in Nat, NEW p \in Nat, NEW q \in Nat, NEW r \in Nat, NEW v \in Nat,
                   r + v + 1 = p + q, g <= f + 1
            PROVE  g + r + v <= f + p + q /\ f + 1 <= f + p + q
        BY <4>1
      <4> HIDE DEF d, e
      <4> QED
        BY <2>3, <3>2, <3>3, <3>4, <4>1, Zenon
    <3> QED
      BY <3>3, <3>5
  <2>6. stale' <= 3
    <3>1. CASE playing
      <4>1. stale' <= stale + 1
        BY <2>1, <2>3
      <4> QED
        BY <2>3, <2>4, <2>5, <3>1, <4>1
    <3>2. CASE ~playing
      BY <2>1, <2>3, <3>2
    <3> QED
      BY <3>1, <3>2
  <2>7. Sane'
    BY <1>1, <1>2, <1>5, <1>7, <2>5, <2>6 DEF Sane, WorkersTypeOK
  <2>8. Paid(FALSE, FALSE)
    <3>1. One(FALSE) = 0
      BY DEF One
    <3>2. Due' \in Int
      <4>1. (Sane => Due \in Int /\ stale \in Int)'
        BY DueNumber, PTL
      <4> QED
        BY <2>7, <4>1
    <3> DEFINE d == Due
               e == Due'
               u == One(FALSE)
    <3>3. e <= d /\ d \in Int /\ e \in Int /\ u = 0
      BY <2>3, <2>5, <3>1, <3>2
    <3>4. e + u <= d + u
      <4> HIDE DEF d, e, u
      <4> QED
        BY <3>3
    <3> QED
      BY <1>2, <3>4 DEF Paid
  <2> QED
    BY <1>1, <1>8, <2>7, <2>8, OthersOn
<1> QED
  BY <1>9, <1>10

LEMMA CallsKeep ==
  ASSUME WorkersInv, (\E c \in Callers : Begun(c)) \/ InputCallsPlayer \/ InputReturns
  PROVE  WorkersInv'
<1>1. Sane
  BY DEF WorkersInv
<1>2. /\ mu' = mu /\ stop' = stop /\ session' = session /\ late' = late /\ shuttingDown' = shuttingDown
      /\ paused' = paused /\ crossed' = crossed /\ child' = child /\ playing' = playing /\ stale' = stale
      /\ orphan' = orphan /\ terminate' = terminate
  BY DEF Begun, InputCallsPlayer, InputReturns
<1>3. "input" \in Workers /\ "idle" \in Workers /\ "osd" \in Workers
  BY DEF Workers
<1>4. thread \in [Workers -> {"none", "check", "paint", "call", "exited"}]
  BY <1>1 DEF Sane, WorkersTypeOK
<1>5. /\ thread' \in [Workers -> {"none", "check", "paint", "call", "exited"}]
      /\ \A v \in Workers : thread'[v] = "paint" => thread[v] = "paint"
      /\ \A v \in Workers : thread[v] = "none" => thread'[v] = "none"
  <2>1. CASE thread' = thread
    BY <1>4, <2>1
  <2>2. CASE InputCallsPlayer
    <3>1. thread' = [thread EXCEPT !["input"] = "call"] /\ thread["input"] = "check"
      BY <2>2 DEF InputCallsPlayer
    <3> QED
      BY <1>3, <1>4, <3>1
  <2>3. CASE InputReturns
    <3>1. thread' = [thread EXCEPT !["input"] = "check"] /\ thread["input"] = "call"
      BY <2>3 DEF InputReturns
    <3> QED
      BY <1>3, <1>4, <3>1
  <2>4. CASE \E c \in Callers : Begun(c)
    BY <2>1, <2>4 DEF Begun
  <2> QED
    BY <2>2, <2>3, <2>4
<1>6. Sane'
  BY <1>1, <1>2, <1>3, <1>5 DEF Sane, WorkersTypeOK
<1>7. \A b \in Agents : Harmless(b)
  BY <1>2, <1>5 DEF Harmless
<1>8. Paid(FALSE, FALSE)
  BY <1>1, <1>2, <1>3, <1>5, PaidLess
<1>9. ASSUME NEW c \in Callers, Begun(c) PROVE WorkersInv'
  <2>1. PICK call \in Calls : Called(c, call)
    BY <1>9 DEF Begun
  <2>2. c \in Agents /\ call \in {"seek", "stop", "castStop", "cast", "castFail", "shutdown", "pause", "resume"}
    BY WorkersAssumption DEF Agents
  <2> QED
    BY <1>6, <1>7, <1>8, <2>1, <2>2, CallBegins
<1>10. CASE InputCallsPlayer
  <2>1. PICK call \in MappedCommands : Called("input", call)
    BY <1>10 DEF InputCallsPlayer
  <2>2. /\ "input" \in Agents
        /\ call \in {"seek", "stop", "castStop", "cast", "castFail", "shutdown", "pause", "resume"}
    BY DEF Agents, MappedCommands
  <2> QED
    BY <1>6, <1>7, <1>8, <2>1, <2>2, CallBegins
<1>11. CASE InputReturns
  <2>1. todo' = todo
    BY <1>11 DEF InputReturns
  <2> QED
    BY <1>6, <1>7, <1>8, <2>1, OthersOn
<1> QED
  BY <1>9, <1>10, <1>11

LEMMA WorkersInvariant == WorkersInit /\ [][WorkersNext]_workerVars => []WorkersInv
<1>1. WorkersInit => WorkersInv
  <2> SUFFICES ASSUME WorkersInit PROVE WorkersInv
    OBVIOUS
  <2>1. /\ mu = [m \in Mutexes |-> Nobody] /\ thread = [w \in Workers |-> "check"] /\ session = "none"
        /\ child = [alive |-> FALSE, frozen |-> FALSE, known |-> FALSE] /\ ~playing /\ ~terminate /\ ~orphan
        /\ stale = 0 /\ todo = [a \in Agents |-> <<>>]
    BY DEF WorkersInit
  <2>2. "input" \in Workers
    BY DEF Workers
  <2>3. Sane
    BY <2>1, <2>2 DEF Sane, WorkersTypeOK
  <2> DEFINE X == [a \in Agents |-> Mark({}, FALSE)]
             z == Mark({}, FALSE)
  <2>4. z \in Marks /\ z.held = {}
    BY AmidIsMark DEF Mark, Amid
  <2>5. X \in [Agents -> Marks] /\ \A a \in Agents : X[a] = z
    BY <2>4
  <2>6. \A a \in Agents : Knows(a, z)
    <3>1. \A a \in Agents, m \in Mutexes : mu[m] # a
      BY <2>1, NobodyApart
    <3> QED
      BY <3>1 DEF Knows, Mark, Amid
  <2>7. \A a \in Agents : todo[a] = <<>> /\ Lined(todo[a])
    <3>1. Lined(<<>>)
      <4>1. <<>> \in Seq(Steps)
        OBVIOUS
      <4> QED
        BY <4>1, StepsLined
    <3> QED
      BY <2>1, <3>1
  <2>8. Derives(<<>>, z)
    BY <2>4, LeadsNowhere DEF Derives
  <2> HIDE DEF X, z
  <2>9. OnCourse(X)
    BY <2>1, <2>5, <2>6, <2>7, <2>8 DEF OnCourse, Budget
  <2> QED
    BY <2>1, <2>3, <2>5, <2>9 DEF WorkersInv
<1>2. WorkersInv /\ [WorkersNext]_workerVars => WorkersInv'
  <2> SUFFICES ASSUME WorkersInv, [WorkersNext]_workerVars PROVE WorkersInv'
    OBVIOUS
  <2>1. CASE WorkersNext
    <3>1. CASE (\E c \in Callers : Begun(c)) \/ InputCallsPlayer \/ InputReturns
      BY <3>1, CallsKeep
    <3>2. CASE \E a \in Agents : Step(a)
      BY <3>2, StepKeeps
    <3>3. CASE SessionForks \/ SessionFails \/ SessionPublishes \/ SessionLeaves \/ SessionKills
               \/ SessionPaints \/ SessionRaisesIdle
      BY <3>3, SessionKeeps
    <3>4. CASE \E w \in Workers : WorkerChecks(w) \/ WorkerPaints(w)
      BY <3>4, WorkersKeep
    <3> QED
      BY <2>1, <3>1, <3>2, <3>3, <3>4 DEF WorkersNext
  <2>2. CASE workerVars' = workerVars
    <3>1. /\ mu' = mu /\ stop' = stop /\ session' = session /\ late' = late /\ shuttingDown' = shuttingDown /\ todo' = todo
          /\ paused' = paused /\ crossed' = crossed /\ child' = child /\ playing' = playing /\ stale' = stale
          /\ orphan' = orphan /\ terminate' = terminate /\ thread' = thread
      BY <2>2 DEF workerVars
    <3>2. Sane /\ Sane'
      BY <3>1 DEF WorkersInv, Sane, WorkersTypeOK
    <3>3. Paid(FALSE, FALSE)
      BY <3>1, <3>2, PaidSame
    <3> QED
      BY <3>1, <3>2, <3>3, HarmlessSame, OthersOn
  <2> QED
    BY <2>1, <2>2
<1> QED
  BY <1>1, <1>2, PTL

\* Sessions and workers are started and joined one at a time, no decoder
\* outlives the session it was made for, and of the idle pictures at most three
\* fall into a session, with any number of threads calling the player:
\* media_player.cpp, play(), stop(), shutdown(), startIdle() and its like, and
\* FpgaWorkerHandoff of main.cpp.
THEOREM ScreenAlwaysOwned == WorkersSpec => []ScreenOwned
<1>1. WorkersInv => ScreenOwned
  BY DEF WorkersInv, Sane, ScreenOwned, SessionsApart, IdleYields
<1> QED
  BY <1>1, WorkersInvariant, PTL DEF WorkersSpec

\* The decoder is stopped while playback is not paused only if a pause or a
\* resume ran across the start or the end of a session: media_player.cpp,
\* pause(), resume(), play() and stop().
THEOREM FrozenOnlyPaused == WorkersSpec => []FrozenMeansPaused
<1>1. WorkersInv => FrozenMeansPaused
  BY DEF WorkersInv, Sane, FrozenMeansPaused
<1> QED
  BY <1>1, WorkersInvariant, PTL DEF WorkersSpec

\* The mutexes, threads and the decoder keep their shape.
THEOREM WorkersTypeCorrect == WorkersSpec => []WorkersTypeOK
<1>1. WorkersInv => WorkersTypeOK
  BY DEF WorkersInv, Sane
<1> QED
  BY <1>1, WorkersInvariant, PTL DEF WorkersSpec

-----------------------------------------------------------------------------
(* Who waits for whom.                                                     *)

AtJoined(a, w) == todo[a] # <<>> /\ Head(todo[a]) = <<"joined", w>>

\* What the input poll calls does not join the input poll, and takes no handoff.
PollSteps == {st \in Steps : /\ st # <<"lock", "handoff">>
                             /\ st \notin {"retire", "raise"} \X {"input"}}
Polled(s) == /\ s \in Seq(PollSteps \cup Joins)
             /\ s # <<>> => Tail(s) \in Seq(PollSteps) /\ Head(s) # <<"joined", "input">>

\* A worker's mutex is held by the call that joins it, and a worker that is told
\* to stop is gone once the mutex is free.
WaitsInv ==
    /\ WorkersInv
    /\ \A w \in Workers : workerMu[w] # Nobody => ~run[w] /\ \E a \in Agents : workerMu[w] = a /\ AtJoined(a, w)
    /\ \A w \in Workers : workerMu[w] = Nobody /\ ~run[w] => thread[w] = "none"
    /\ \A a \in Agents, w \in Workers : AtJoined(a, w) => workerMu[w] = a
    /\ Polled(todo["input"]) /\ mu["handoff"] # "input"
    /\ thread["idle"] # "call" /\ thread["osd"] # "call"
    /\ run \in [Workers -> BOOLEAN] /\ workerMu \in [Workers -> Agents \cup {Nobody}]

LEMMA PolledSteps ==
  /\ \A s \in Seq(PollSteps) : Polled(s)
  /\ \A s \in Seq(PollSteps), w \in Workers : w # "input" => Polled(<<<<"joined", w>>>> \o s)
<1>3. \A w : <<"joined", w>> \notin Steps
  <2>1. "joined" \notin Grips
    BY DEF Grips
  <2>2. \A w, n : <<"joined", w>> # <<n>>
    OBVIOUS
  <2>3. \A w : <<"joined", w>> \notin Grips \X (Workers \cup Mutexes)
    BY <2>1
  <2>4. \A w : <<"joined", w>> \notin {<<n>> : n \in Verbs}
    BY <2>2
  <2> QED
    BY <2>3, <2>4 DEF Steps
<1>1. ASSUME NEW s \in Seq(PollSteps) PROVE Polled(s)
  <2>1. <<"joined", "input">> \notin PollSteps
    BY <1>3 DEF PollSteps
  <2> HIDE DEF PollSteps, Joins
  <2>2. s \in Seq(PollSteps \cup Joins)
    OBVIOUS
  <2>3. s # <<>> => Tail(s) \in Seq(PollSteps) /\ Head(s) \in PollSteps
    OBVIOUS
  <2> QED
    BY <2>1, <2>2, <2>3 DEF Polled
<1>2. ASSUME NEW s \in Seq(PollSteps), NEW w \in Workers, w # "input" PROVE Polled(<<<<"joined", w>>>> \o s)
  <2> DEFINE j == <<"joined", w>>
  <2>1. j \in Joins /\ j # <<"joined", "input">>
    BY <1>2 DEF Joins
  <2> HIDE DEF j, PollSteps, Joins
  <2>2. s \in Seq(PollSteps \cup Joins) /\ <<j>> \in Seq(PollSteps \cup Joins)
    BY <2>1
  <2>3. <<j>> \o s \in Seq(PollSteps \cup Joins) /\ Tail(<<j>> \o s) = s /\ Head(<<j>> \o s) = j
    BY <2>2
  <2>4. Polled(<<j>> \o s)
    BY <2>1, <2>3 DEF Polled
  <2> QED
    BY <2>4 DEF j
<1> QED
  BY <1>1, <1>2

\* The steps of a seek, a stop, a pause and a resume.
LEMMA PollCalls ==
  ASSUME NEW call \in {"stop", "seek", "pause", "resume"}
  PROVE  Program(call) \in Seq(PollSteps)
<1> DEFINE N == {"tell", "kill", "join", "begin", "settle", "forget", "look", "paint", "hold", "freeze", "release", "thaw"}
<1>1. \A n \in N : <<n>> \in PollSteps
  <2>1. \A n \in N : <<n>> \in Steps
    BY StepsAreSteps DEF Verbs
  <2>2. \A n \in N : <<n>> # <<"lock", "handoff">> /\ <<n>> \notin {"retire", "raise"} \X {"input"}
    OBVIOUS
  <2> QED
    BY <2>1, <2>2 DEF PollSteps
<1>2. \A w \in {"idle", "osd"} : <<"retire", w>> \in PollSteps /\ <<"raise", w>> \in PollSteps
  <2>1. \A w \in {"idle", "osd"} : <<"retire", w>> \in Steps /\ <<"raise", w>> \in Steps
    BY StepsAreSteps DEF Workers
  <2> QED
    BY <2>1 DEF PollSteps
<1>3. \A m \in {"life", "pause"} : <<"lock", m>> \in PollSteps /\ <<"unlock", m>> \in PollSteps
  <2>1. \A m \in {"life", "pause"} : <<"lock", m>> \in Steps /\ <<"unlock", m>> \in Steps
    BY StepsAreSteps DEF Mutexes
  <2> QED
    BY <2>1 DEF PollSteps
<1>4. \A w \in {"idle", "osd"} : Retiring(w) \in Seq(PollSteps) /\ Raising(w) \in Seq(PollSteps)
  <2> SUFFICES ASSUME NEW w \in {"idle", "osd"}
               PROVE  <<<<"retire", w>>>> \in Seq(PollSteps) /\ <<<<"raise", w>>>> \in Seq(PollSteps)
    BY DEF Retiring, Raising
  <2>1. <<"retire", w>> \in PollSteps /\ <<"raise", w>> \in PollSteps
    BY <1>2
  <2> HIDE DEF PollSteps
  <2> QED
    BY <2>1
<1>5. \A m \in {"life", "pause"}, s \in Seq(PollSteps) : Locked(m, s) \in Seq(PollSteps)
  <2> SUFFICES ASSUME NEW m \in {"life", "pause"}, NEW s \in Seq(PollSteps)
               PROVE  <<<<"lock", m>>>> \o s \o <<<<"unlock", m>>>> \in Seq(PollSteps)
    BY DEF Locked
  <2>1. <<"lock", m>> \in PollSteps /\ <<"unlock", m>> \in PollSteps
    BY <1>3
  <2> HIDE DEF PollSteps
  <2>2. <<<<"lock", m>>>> \in Seq(PollSteps) /\ <<<<"unlock", m>>>> \in Seq(PollSteps)
    BY <2>1
  <2> QED
    BY <2>2
<1>6. /\ Do(<<"look">>) \in Seq(PollSteps) /\ Do(<<"paint">>) \in Seq(PollSteps)
      /\ Do(<<"hold", "freeze">>) \in Seq(PollSteps) /\ Do(<<"release", "thaw">>) \in Seq(PollSteps)
      /\ Do(<<"tell", "kill", "join", "begin">>) \in Seq(PollSteps)
      /\ Do(<<"tell", "kill", "join", "settle", "forget">>) \in Seq(PollSteps)
  <2>1. /\ <<"look">> \in PollSteps /\ <<"paint">> \in PollSteps /\ <<"hold">> \in PollSteps /\ <<"freeze">> \in PollSteps
        /\ <<"release">> \in PollSteps /\ <<"thaw">> \in PollSteps /\ <<"tell">> \in PollSteps /\ <<"kill">> \in PollSteps
        /\ <<"join">> \in PollSteps /\ <<"begin">> \in PollSteps /\ <<"settle">> \in PollSteps /\ <<"forget">> \in PollSteps
    BY <1>1
  <2> HIDE DEF PollSteps
  <2>2. /\ <<<<"look">>>> \in Seq(PollSteps) /\ <<<<"paint">>>> \in Seq(PollSteps)
        /\ <<<<"hold">>, <<"freeze">>>> \in Seq(PollSteps) /\ <<<<"release">>, <<"thaw">>>> \in Seq(PollSteps)
        /\ <<<<"tell">>, <<"kill">>, <<"join">>, <<"begin">>>> \in Seq(PollSteps)
        /\ <<<<"tell">>, <<"kill">>, <<"join">>, <<"settle">>, <<"forget">>>> \in Seq(PollSteps)
    BY <2>1
  <2>3. /\ Do(<<"look">>) = <<<<"look">>>> /\ Do(<<"paint">>) = <<<<"paint">>>>
        /\ Do(<<"hold", "freeze">>) = <<<<"hold">>, <<"freeze">>>>
        /\ Do(<<"release", "thaw">>) = <<<<"release">>, <<"thaw">>>>
        /\ Do(<<"tell", "kill", "join", "begin">>) = <<<<"tell">>, <<"kill">>, <<"join">>, <<"begin">>>>
        /\ Do(<<"tell", "kill", "join", "settle", "forget">>)
             = <<<<"tell">>, <<"kill">>, <<"join">>, <<"settle">>, <<"forget">>>>
    BY DoSteps
  <2> QED
    BY <2>2, <2>3
<1>7. Play \in Seq(PollSteps) /\ Pause \in Seq(PollSteps) /\ Resume \in Seq(PollSteps)
  <2>1. Locked("life", Do(<<"tell", "kill", "join", "begin">>)) \in Seq(PollSteps)
    BY <1>5, <1>6
  <2>2. Retiring("idle") \in Seq(PollSteps)
    BY <1>4
  <2>3. Play \in Seq(PollSteps)
    BY <2>1, <2>2 DEF Play
  <2>4. Pause \in Seq(PollSteps) /\ Resume \in Seq(PollSteps)
    BY <1>5, <1>6 DEF Pause, Resume
  <2> QED
    BY <2>3, <2>4
<1>8. Stop \in Seq(PollSteps)
  <2> DEFINE f == Do(<<"tell", "kill", "join", "settle", "forget">>)
             p == Do(<<"paint">>)
             t == f \o Retiring("osd") \o Retiring("idle") \o p \o Raising("idle") \o Raising("osd")
  <2>1. f \in Seq(PollSteps) /\ p \in Seq(PollSteps)
    BY <1>6
  <2>2. /\ Retiring("osd") \in Seq(PollSteps) /\ Retiring("idle") \in Seq(PollSteps)
        /\ Raising("idle") \in Seq(PollSteps) /\ Raising("osd") \in Seq(PollSteps)
    BY <1>4
  <2>3. Stop = Locked("life", t)
    BY DEF Stop
  <2> HIDE DEF f, p, PollSteps
  <2>4. t \in Seq(PollSteps)
    BY <2>1, <2>2
  <2> HIDE DEF t
  <2> QED
    BY <1>5, <2>3, <2>4
<1>9. CASE call = "seek"
  <2>1. Program(call) = Do(<<"look">>) \o Play
    BY <1>9 DEF Program
  <2> DEFINE l == Do(<<"look">>)
  <2>2. l \in Seq(PollSteps)
    BY <1>6
  <2> HIDE DEF l, PollSteps
  <2>3. l \o Play \in Seq(PollSteps)
    BY <1>7, <2>2
  <2> QED
    BY <2>1, <2>3 DEF l
<1>10. CASE call # "seek"
  <2>1. Program(call) \in {Stop, Pause, Resume}
    BY <1>10 DEF Program
  <2> QED
    BY <1>7, <1>8, <2>1
<1> QED
  BY <1>9, <1>10

\* What a step may do to a worker whose mutex it has not taken or given back.
Orderly(w) ==
    /\ run'[w] = run[w] \/ (workerMu[w] = Nobody /\ run'[w])
    /\ workerMu[w] = Nobody /\ ~run'[w] => thread'[w] = thread[w]
    /\ thread'[w] = "call" => thread[w] = "call" \/ w = "input"

LEMMA JoinedIsNoStep ==
  /\ \A w : \A s \in Seq(Steps) : s # <<>> => Head(s) # <<"joined", w>>
  /\ \A a \in Agents, w \in Workers : WorkersInv /\ AtJoined(a, w) => Tail(todo[a]) \in Seq(Steps)
<1>1. \A w : <<"joined", w>> \notin Steps
  <2>1. "joined" \notin Grips
    BY DEF Grips
  <2>2. \A w, n : <<"joined", w>> # <<n>>
    OBVIOUS
  <2>3. \A w : <<"joined", w>> \notin Grips \X (Workers \cup Mutexes)
    BY <2>1
  <2>4. \A w : <<"joined", w>> \notin {<<n>> : n \in Verbs}
    BY <2>2
  <2> QED
    BY <2>3, <2>4 DEF Steps
<1>2. ASSUME NEW s \in Seq(Steps), s # <<>> PROVE Head(s) \in Steps
  <2> HIDE DEF Steps
  <2> QED
    BY <1>2
<1>3. ASSUME NEW a \in Agents, NEW w \in Workers, WorkersInv, AtJoined(a, w) PROVE Tail(todo[a]) \in Seq(Steps)
  BY <1>3 DEF WorkersInv, OnCourse, Lined, AtJoined
<1> QED
  BY <1>1, <1>2, <1>3

\* A step of a call that is not at the join of a worker.
LEMMA WaitsOn ==
  ASSUME WaitsInv, WorkersInv', NEW a \in Agents, NEW rest \in Seq(Steps), todo' = [todo EXCEPT ![a] = rest],
         a = "input" => rest \in Seq(PollSteps), \A w \in Workers : ~AtJoined(a, w),
         workerMu' = workerMu, \A w \in Workers : Orderly(w), run' \in [Workers -> BOOLEAN], mu'["handoff"] # "input"
  PROVE  WaitsInv'
<1>1. todo'[a] = rest /\ \A b \in Agents \ {a} : todo'[b] = todo[b]
  BY DEF WaitsInv, WorkersInv
<1>2. \A b \in Agents, w \in Workers : AtJoined(b, w)' <=> AtJoined(b, w)
  BY <1>1, JoinedIsNoStep DEF AtJoined
<1>3. \A w \in Workers : workerMu'[w] # Nobody => ~run'[w] /\ \E b \in Agents : workerMu'[w] = b /\ AtJoined(b, w)'
  BY <1>2 DEF WaitsInv, Orderly
<1>4. \A w \in Workers : workerMu'[w] = Nobody /\ ~run'[w] => thread'[w] = "none"
  BY DEF WaitsInv, Orderly
<1>5. \A b \in Agents, w \in Workers : AtJoined(b, w)' => workerMu'[w] = b
  BY <1>2 DEF WaitsInv
<1>6. Polled(todo'["input"])
  <2>1. "input" \in Agents
    BY DEF Agents
  <2> QED
    BY <1>1, <2>1, PolledSteps DEF WaitsInv
<1>7. thread'["idle"] # "call" /\ thread'["osd"] # "call"
  BY DEF WaitsInv, Orderly, Workers
<1> QED
  BY <1>3, <1>4, <1>5, <1>6, <1>7 DEF WaitsInv

LEMMA WaitsStay ==
  ASSUME WaitsInv, WorkersInv', todo' = todo, workerMu' = workerMu, mu' = mu, \A w \in Workers : Orderly(w),
         run' \in [Workers -> BOOLEAN]
  PROVE  WaitsInv'
<1>2. \A b, w : AtJoined(b, w)' <=> AtJoined(b, w)
  BY DEF AtJoined
<1>3. \A w \in Workers : workerMu'[w] # Nobody => ~run'[w] /\ \E b \in Agents : workerMu'[w] = b /\ AtJoined(b, w)'
  BY <1>2 DEF WaitsInv, Orderly
<1>4. \A w \in Workers : workerMu'[w] = Nobody /\ ~run'[w] => thread'[w] = "none"
  BY DEF WaitsInv, Orderly
<1>5. \A b \in Agents, w \in Workers : AtJoined(b, w)' => workerMu'[w] = b
  BY <1>2 DEF WaitsInv
<1>7. thread'["idle"] # "call" /\ thread'["osd"] # "call"
  BY DEF WaitsInv, Orderly, Workers
<1> QED
  BY <1>3, <1>4, <1>5, <1>7 DEF WaitsInv

LEMMA RetireWaits ==
  ASSUME WaitsInv, WorkersInv', NEW a \in Agents, NEW w \in Workers, todo[a] # <<>>, Retire(a, w)
  PROVE  WaitsInv'
<1> DEFINE rest == <<<<"joined", w>>>> \o Tail(todo[a])
<1>1. /\ Head(todo[a]) = <<"retire", w>> /\ workerMu[w] = Nobody /\ a # w
      /\ workerMu' = [workerMu EXCEPT ![w] = a] /\ run' = [run EXCEPT ![w] = FALSE]
      /\ todo' = [todo EXCEPT ![a] = rest] /\ mu' = mu /\ thread' = thread
  BY DEF Retire
<1>2. Tail(todo[a]) \in Seq(Steps)
  BY DEF WaitsInv, WorkersInv, OnCourse, Lined
<1>3. rest # <<>> /\ Head(rest) = <<"joined", w>>
  BY <1>2
<1> HIDE DEF rest
<1>4. todo'[a] = rest /\ \A b \in Agents \ {a} : todo'[b] = todo[b]
  BY <1>1 DEF WaitsInv, WorkersInv
<1>5. \A v : <<"retire", w>> # <<"joined", v>>
  OBVIOUS
<1>6. /\ \A b \in Agents \ {a}, v \in Workers : AtJoined(b, v)' <=> AtJoined(b, v)
      /\ \A v \in Workers : ~AtJoined(a, v)
      /\ \A v \in Workers : AtJoined(a, v)' <=> v = w
  BY <1>1, <1>3, <1>4, <1>5 DEF AtJoined
<1>7. /\ workerMu' \in [Workers -> Agents \cup {Nobody}] /\ run' \in [Workers -> BOOLEAN]
      /\ workerMu'[w] = a /\ ~run'[w] /\ \A v \in Workers \ {w} : workerMu'[v] = workerMu[v] /\ run'[v] = run[v]
  BY <1>1 DEF WaitsInv
<1>8. \A v \in Workers : workerMu'[v] # Nobody => ~run'[v] /\ \E b \in Agents : workerMu'[v] = b /\ AtJoined(b, v)'
  <2> SUFFICES ASSUME NEW v \in Workers, workerMu'[v] # Nobody
               PROVE  ~run'[v] /\ \E b \in Agents : workerMu'[v] = b /\ AtJoined(b, v)'
    OBVIOUS
  <2>1. CASE v = w
    BY <1>6, <1>7, <2>1
  <2>2. CASE v # w
    <3>1. PICK b \in Agents : ~run[v] /\ workerMu[v] = b /\ AtJoined(b, v)
      BY <1>7, <2>2 DEF WaitsInv
    <3>2. b # a
      BY <1>6, <3>1
    <3> QED
      BY <1>6, <1>7, <2>2, <3>1, <3>2
  <2> QED
    BY <2>1, <2>2
<1>9. \A v \in Workers : workerMu'[v] = Nobody /\ ~run'[v] => thread'[v] = "none"
  BY <1>1, <1>7, NobodyApart DEF WaitsInv
<1>10. \A b \in Agents, v \in Workers : AtJoined(b, v)' => workerMu'[v] = b
  <2> SUFFICES ASSUME NEW b \in Agents, NEW v \in Workers, AtJoined(b, v)' PROVE workerMu'[v] = b
    OBVIOUS
  <2>1. CASE b = a
    BY <1>6, <1>7, <2>1
  <2>2. CASE b # a
    <3>1. AtJoined(b, v) /\ workerMu[v] = b
      BY <1>6, <2>2 DEF WaitsInv
    <3> QED
      BY <1>1, <1>7, <3>1, NobodyApart
  <2> QED
    BY <2>1, <2>2
<1>11. Polled(todo'["input"])
  <2>1. CASE a = "input"
    <3>1. Tail(todo["input"]) \in Seq(PollSteps)
      BY <2>1 DEF WaitsInv, Polled
    <3> QED
      BY <1>1, <1>4, <2>1, <3>1, PolledSteps DEF rest
  <2>2. CASE a # "input"
    BY <1>4, <2>2 DEF WaitsInv, Agents
  <2> QED
    BY <2>1, <2>2
<1> QED
  BY <1>1, <1>7, <1>8, <1>9, <1>10, <1>11 DEF WaitsInv

LEMMA RetiredWaits ==
  ASSUME WaitsInv, WorkersInv', NEW a \in Agents, NEW w \in Workers, todo[a] # <<>>, Retired(a, w)
  PROVE  WaitsInv'
<1> DEFINE rest == Tail(todo[a])
<1>1. /\ AtJoined(a, w) /\ workerMu' = [workerMu EXCEPT ![w] = Nobody] /\ run' = run
      /\ todo' = [todo EXCEPT ![a] = rest] /\ mu' = mu /\ thread' = [thread EXCEPT ![w] = "none"]
  BY DEF Retired, AtJoined, Advance
<1>2. rest \in Seq(Steps) /\ workerMu[w] = a
  BY <1>1, JoinedIsNoStep DEF WaitsInv
<1>3. rest # <<>> => \A v : Head(rest) # <<"joined", v>>
  BY <1>2, JoinedIsNoStep
<1>12. Polled(todo["input"]) /\ a = "input" => rest \in Seq(PollSteps)
  BY DEF Polled
<1> HIDE DEF rest
<1>4. todo'[a] = rest /\ \A b \in Agents \ {a} : todo'[b] = todo[b]
  BY <1>1 DEF WaitsInv, WorkersInv
<1>5. \A v : <<"joined", w>> = <<"joined", v>> => v = w
  OBVIOUS
<1>6. /\ \A b \in Agents \ {a}, v \in Workers : AtJoined(b, v)' <=> AtJoined(b, v)
      /\ \A v \in Workers : AtJoined(a, v) => v = w
      /\ \A v \in Workers : ~AtJoined(a, v)'
  BY <1>1, <1>3, <1>4, <1>5 DEF AtJoined
<1>13. thread \in [Workers -> {"none", "check", "paint", "call", "exited"}]
  BY DEF WaitsInv, WorkersInv, Sane, WorkersTypeOK
<1>7. /\ workerMu' \in [Workers -> Agents \cup {Nobody}] /\ workerMu'[w] = Nobody /\ thread'[w] = "none"
      /\ \A v \in Workers \ {w} : workerMu'[v] = workerMu[v] /\ thread'[v] = thread[v]
  BY <1>1, <1>13 DEF WaitsInv
<1>8. \A v \in Workers : workerMu'[v] # Nobody => ~run'[v] /\ \E b \in Agents : workerMu'[v] = b /\ AtJoined(b, v)'
  <2> SUFFICES ASSUME NEW v \in Workers, workerMu'[v] # Nobody
               PROVE  ~run'[v] /\ \E b \in Agents : workerMu'[v] = b /\ AtJoined(b, v)'
    OBVIOUS
  <2>1. v # w
    BY <1>7
  <2>2. PICK b \in Agents : ~run[v] /\ workerMu[v] = b /\ AtJoined(b, v)
    BY <1>7, <2>1 DEF WaitsInv
  <2>3. b # a
    BY <1>6, <2>1, <2>2
  <2> QED
    BY <1>1, <1>6, <1>7, <2>1, <2>2, <2>3
<1>9. \A v \in Workers : workerMu'[v] = Nobody /\ ~run'[v] => thread'[v] = "none"
  BY <1>1, <1>7 DEF WaitsInv
<1>10. \A b \in Agents, v \in Workers : AtJoined(b, v)' => workerMu'[v] = b
  <2> SUFFICES ASSUME NEW b \in Agents, NEW v \in Workers, AtJoined(b, v)' PROVE workerMu'[v] = b
    OBVIOUS
  <2>1. b # a
    BY <1>6
  <2>2. AtJoined(b, v) /\ workerMu[v] = b
    BY <1>6, <2>1 DEF WaitsInv
  <2> QED
    BY <1>2, <1>7, <2>1, <2>2
<1>11. Polled(todo'["input"])
  BY <1>4, <1>12, PolledSteps DEF WaitsInv, Agents
<1>14. thread'["idle"] # "call" /\ thread'["osd"] # "call"
  BY <1>7 DEF WaitsInv, Workers
<1> QED
  BY <1>1, <1>7, <1>8, <1>9, <1>10, <1>11, <1>14 DEF WaitsInv

\* A call that begins a session still has to let go of lifeMu_.
LEMMA BeginUnlocks ==
  ASSUME WorkersInv, NEW a \in Agents, todo[a] # <<>>, At(a, "begin")
  PROVE  Tail(todo[a]) # <<>> /\ Tail(todo[a]) \in Seq(Steps) /\ todo[a][2] \in Steps
<1>1. PICK X \in [Agents -> Marks] : OnCourse(X)
  BY DEF WorkersInv
<1> DEFINE s == todo[a]
           x == X[a]
           t == Tail(s)
<1>2. s \in Seq(Steps \cup Joins) /\ t \in Seq(Steps) /\ x \in Marks /\ Knows(a, x)
  BY <1>1 DEF OnCourse, Lined
<1>3. PICK z \in Marks : Leads(s, x, z) /\ z.held = {}
  BY <1>1 DEF OnCourse, Derives
<1>4. PICK y \in Marks : MayStep(Head(s), x, y) /\ Leads(Tail(s), y, z)
  BY <1>2, <1>3, LeadsBegins
<1>5. x.phase = "joined" /\ Becomes(y, x.held, "begun", FALSE, x.claim)
  <2>1. Head(s)[1] = "begin"
    BY DEF At
  <2> QED
    BY <1>4, <2>1, MayEnter
<1>6. "life" \in y.held
  BY <1>2, <1>5 DEF Knows, Becomes
<1>7. t # <<>>
  <2> SUFFICES ASSUME t = <<>> PROVE FALSE
    OBVIOUS
  <2>1. Leads(<<>>, y, z)
    BY <1>4
  <2>2. y = z
    BY <2>1, LeadsNowhere
  <2> QED
    BY <1>3, <1>6, <2>2
<1>8. s[2] \in Steps
  <2> HIDE DEF Steps
  <2>1. Len(t) >= 1 /\ t[1] = s[2] /\ t[1] \in Steps
    BY <1>2, <1>7
  <2> QED
    BY <2>1
<1> QED
  BY <1>2, <1>7, <1>8

LEMMA RaisedOrderly ==
  ASSUME WaitsInv, NEW w \in Workers, workerMu[w] = Nobody, Raised(w)
  PROVE  run' \in [Workers -> BOOLEAN] /\ \A v \in Workers : Orderly(v)
<1>1. run \in [Workers -> BOOLEAN] /\ thread \in [Workers -> {"none", "check", "paint", "call", "exited"}]
  BY DEF WaitsInv, WorkersInv, Sane, WorkersTypeOK
<1>2. CASE run' = run /\ thread' = thread
  BY <1>1, <1>2 DEF Orderly
<1>3. CASE run' = [run EXCEPT ![w] = TRUE] /\ thread' = [thread EXCEPT ![w] = "check"]
  <2>1. /\ run'[w] = TRUE /\ thread'[w] = "check" /\ run' \in [Workers -> BOOLEAN]
        /\ \A v \in Workers \ {w} : run'[v] = run[v] /\ thread'[v] = thread[v]
    BY <1>1, <1>3
  <2>2. Orderly(w)
    BY <2>1 DEF Orderly
  <2>3. \A v \in Workers \ {w} : Orderly(v)
    BY <2>1 DEF Orderly
  <2> QED
    BY <2>1, <2>2, <2>3
<1> QED
  BY <1>2, <1>3 DEF Raised

LEMMA SameOrderly ==
  ASSUME WaitsInv, run' = run, thread' = thread
  PROVE  run' \in [Workers -> BOOLEAN] /\ \A v \in Workers : Orderly(v)
BY DEF WaitsInv, Orderly

LEMMA StepWaits ==
  ASSUME WaitsInv, WorkersInv', NEW a \in Agents, Step(a)
  PROVE  WaitsInv'
<1> DEFINE s == todo[a]
<1>1. todo[a] # <<>> /\ WorkersInv /\ mu["handoff"] # "input"
  BY DEF Step, WaitsInv
<1>2. Tail(s) \in Seq(Steps) /\ (a = "input" => Tail(s) \in Seq(PollSteps))
  BY <1>1 DEF WaitsInv, WorkersInv, OnCourse, Lined, Polled
<1>3. ASSUME Head(s)[1] # "joined" PROVE \A w \in Workers : ~AtJoined(a, w)
  <2>1. \A w : <<"joined", w>>[1] = "joined"
    OBVIOUS
  <2> QED
    BY <1>3, <2>1 DEF AtJoined
<1>4. ASSUME Head(s)[1] # "joined", todo' = [todo EXCEPT ![a] = Tail(s)], workerMu' = workerMu,
             run' \in [Workers -> BOOLEAN], \A w \in Workers : Orderly(w), mu'["handoff"] # "input"
      PROVE  WaitsInv'
  <2>1. \A w \in Workers : ~AtJoined(a, w)
    BY <1>3, <1>4
  <2> HIDE DEF s
  <2> QED
    BY <1>2, <1>4, <2>1, WaitsOn
<1>5. ASSUME NEW m \in Mutexes, Lock(a, m) PROVE WaitsInv'
  <2>1. Head(s)[1] \in {"lock", "unlock"} /\ todo' = [todo EXCEPT ![a] = Tail(s)] /\ workerMu' = workerMu
        /\ run' = run /\ thread' = thread
    BY <1>5 DEF Lock, Advance
  <2>2. mu'["handoff"] # "input"
    <3>1. mu \in [Mutexes -> Agents \cup {Nobody}] /\ "handoff" \in Mutexes
      BY <1>1 DEF WorkersInv, Sane, WorkersTypeOK, Mutexes
    <3>2. CASE Head(s) = <<"lock", m>> /\ mu' = [mu EXCEPT ![m] = a]
      <4>1. ASSUME a = "input" PROVE m # "handoff"
        <5>1. s \in Seq(PollSteps \cup Joins) /\ s # <<>>
          BY <1>1, <4>1 DEF WaitsInv, Polled
        <5>2. Head(s) \in PollSteps \cup Joins
          <6> HIDE DEF s, PollSteps, Joins
          <6> QED
            BY <5>1
        <5>3. <<"lock", "handoff">> \notin Joins /\ <<"lock", "handoff">> \notin PollSteps
          BY DEF Joins, PollSteps
        <5> QED
          BY <3>2, <5>2, <5>3
      <4> QED
        BY <1>1, <3>1, <3>2, <4>1
    <3>3. CASE mu' = [mu EXCEPT ![m] = Nobody]
      BY <1>1, <3>1, <3>3 DEF Nobody
    <3> QED
      BY <1>5, <3>2, <3>3 DEF Lock
  <2> QED
    BY <1>4, <2>1, <2>2, SameOrderly
<1>6. CASE Tell(a) \/ Kill(a) \/ Join(a) \/ Begin(a) \/ Settle(a) \/ Latch(a) \/ Gone(a) \/ Pausing(a) \/ PaintNow(a)
  <2>1. Head(s)[1] # "joined" /\ todo' = [todo EXCEPT ![a] = Tail(s)] /\ workerMu' = workerMu
        /\ run' = run /\ thread' = thread /\ mu' = mu
    BY <1>6 DEF Tell, Kill, Join, Begin, Settle, Latch, Gone, Pausing, PaintNow, At, Advance
  <2> QED
    BY <1>1, <1>4, <2>1, SameOrderly
<1>7. CASE Look(a)
  <2>1. Head(s)[1] # "joined" /\ workerMu' = workerMu /\ run' = run /\ thread' = thread /\ mu' = mu
        /\ \/ todo' = [todo EXCEPT ![a] = Tail(s)]
           \/ todo' = [todo EXCEPT ![a] = <<>>]
    BY <1>7 DEF Look, At, Advance
  <2>2. CASE todo' = [todo EXCEPT ![a] = Tail(s)]
    BY <1>1, <1>4, <2>1, <2>2, SameOrderly
  <2>3. CASE todo' = [todo EXCEPT ![a] = <<>>]
    <3>1. <<>> \in Seq(Steps) /\ <<>> \in Seq(PollSteps)
      OBVIOUS
    <3>2. \A w \in Workers : ~AtJoined(a, w)
      BY <1>3, <2>1
    <3> HIDE DEF s
    <3> QED
      BY <1>1, <2>1, <2>3, <3>1, <3>2, SameOrderly, WaitsOn
  <2> QED
    BY <2>1, <2>2, <2>3
<1>8. CASE BeginFails(a)
  <2>1. Head(s)[1] # "joined" /\ workerMu' = workerMu /\ run' = run /\ thread' = thread /\ mu' = mu
        /\ At(a, "begin")
    BY <1>8 DEF BeginFails, At
  <2>2. CASE mu["handoff"] # a
    <3>1. todo' = [todo EXCEPT ![a] = Tail(s)]
      BY <1>8, <2>2 DEF BeginFails
    <3> QED
      BY <1>1, <1>4, <2>1, <3>1, SameOrderly
  <2>3. CASE mu["handoff"] = a
    <3> DEFINE t == Tail(s)
               p == Do(<<"paint">>)
               r == Raising("idle")
               u == s[2]
    <3>1. todo' = [todo EXCEPT ![a] = <<u>> \o p \o r \o Tail(t)]
      BY <1>8, <2>3 DEF BeginFails
    <3>2. t # <<>> /\ t \in Seq(Steps) /\ u \in Steps
      BY <1>1, <2>1, BeginUnlocks
    <3>3. p \in Seq(Steps)
      BY PaintLeads
    <3>4. r \in Seq(Steps)
      <4>1. <<"raise", "idle">> \in Steps
        BY StepsAreSteps DEF Workers
      <4>2. <<<<"raise", "idle">>>> \in Seq(Steps)
        BY <4>1
      <4> QED
        BY <4>2 DEF Raising
    <3>5. \A w \in Workers : ~AtJoined(a, w)
      BY <1>3, <2>1
    <3> HIDE DEF t, p, r, u, Steps
    <3> DEFINE rest == <<u>> \o p \o r \o Tail(t)
    <3>6. rest \in Seq(Steps)
      BY <3>2, <3>3, <3>4
    <3> HIDE DEF rest
    <3>7. a # "input" /\ todo' = [todo EXCEPT ![a] = rest]
      BY <1>1, <2>3, <3>1 DEF rest
    <3> QED
      BY <1>1, <2>1, <3>5, <3>6, <3>7, SameOrderly, WaitsOn
  <2> QED
    BY <2>2, <2>3
<1>9. ASSUME NEW w \in Workers, Raise(a, w) PROVE WaitsInv'
  <2>1. Head(s)[1] = "raise" /\ todo' = [todo EXCEPT ![a] = Tail(s)] /\ workerMu' = workerMu /\ mu' = mu
        /\ workerMu[w] = Nobody /\ Raised(w)
    BY <1>9 DEF Raise, Advance
  <2>2. run' \in [Workers -> BOOLEAN] /\ \A v \in Workers : Orderly(v)
    BY <2>1, RaisedOrderly
  <2> QED
    BY <1>1, <1>4, <2>1, <2>2
<1>10. ASSUME NEW w \in Workers, Retire(a, w) \/ Retired(a, w) PROVE WaitsInv'
  BY <1>1, <1>10, RetireWaits, RetiredWaits
<1> QED
  BY <1>5, <1>6, <1>7, <1>8, <1>9, <1>10, Zenon DEF Step

\* A call that begins, and what the session and the workers do by themselves.
LEMMA CallWaits ==
  ASSUME WaitsInv, WorkersInv', NEW a \in Agents,
         NEW call \in {"seek", "stop", "castStop", "cast", "castFail", "shutdown", "pause", "resume"},
         a = "input" => call \in {"stop", "seek", "pause", "resume"},
         Called(a, call), mu' = mu, workerMu' = workerMu, run' \in [Workers -> BOOLEAN], \A w \in Workers : Orderly(w)
  PROVE  WaitsInv'
<1> DEFINE rest == Program(call)
<1>1. todo[a] = <<>> /\ todo' = [todo EXCEPT ![a] = rest]
  BY DEF Called
<1>2. rest \in Seq(Steps) /\ (a = "input" => rest \in Seq(PollSteps))
  BY ProgramDerives, PollCalls
<1>3. \A w \in Workers : ~AtJoined(a, w)
  BY <1>1 DEF AtJoined
<1>4. mu'["handoff"] # "input"
  BY DEF WaitsInv
<1> HIDE DEF rest
<1> QED
  BY <1>1, <1>2, <1>3, <1>4, WaitsOn

LEMMA OthersWait ==
  ASSUME WaitsInv, WorkersInv', WorkersNext, ~\E a \in Agents : Step(a)
  PROVE  WaitsInv'
<1>1. /\ run \in [Workers -> BOOLEAN] /\ thread \in [Workers -> {"none", "check", "paint", "call", "exited"}]
      /\ \A w \in Workers : workerMu[w] = Nobody /\ ~run[w] => thread[w] = "none"
  BY DEF WaitsInv, WorkersInv, Sane, WorkersTypeOK
<1>2. ASSUME NEW c \in Callers, Begun(c) PROVE WaitsInv'
  <2>1. PICK call \in Calls : Called(c, call)
    BY <1>2 DEF Begun
  <2>2. /\ c \in Agents /\ c # "input"
        /\ call \in {"seek", "stop", "castStop", "cast", "castFail", "shutdown", "pause", "resume"}
    BY WorkersAssumption DEF Agents
  <2>3. mu' = mu /\ workerMu' = workerMu /\ run' = run /\ thread' = thread
    BY <1>2 DEF Begun
  <2> QED
    BY <2>1, <2>2, <2>3, SameOrderly, CallWaits
<1>3. CASE SessionForks \/ SessionFails \/ SessionPublishes \/ SessionLeaves \/ SessionKills \/ SessionPaints
  <2>1. todo' = todo /\ mu' = mu /\ workerMu' = workerMu /\ run' = run /\ thread' = thread
    BY <1>3 DEF SessionForks, SessionFails, SessionPublishes, SessionLeaves, SessionKills, SessionPaints
  <2> QED
    BY <2>1, SameOrderly, WaitsStay
<1>4. CASE SessionRaisesIdle
  <2>1. todo' = todo /\ mu' = mu /\ workerMu' = workerMu /\ workerMu["idle"] = Nobody /\ Raised("idle") /\ "idle" \in Workers
    BY <1>4 DEF SessionRaisesIdle, Workers
  <2>2. run' \in [Workers -> BOOLEAN] /\ \A v \in Workers : Orderly(v)
    BY <2>1, RaisedOrderly
  <2> QED
    BY <2>1, <2>2, WaitsStay
<1>5. ASSUME NEW w \in Workers, WorkerChecks(w) \/ WorkerPaints(w) PROVE WaitsInv'
  <2>1. todo' = todo /\ mu' = mu /\ workerMu' = workerMu /\ run' = run /\ thread[w] # "none"
    BY <1>5 DEF WorkerChecks, WorkerPaints
  <2>2. \A v \in Workers \ {w} : thread'[v] = thread[v]
    BY <1>1, <1>5 DEF WorkerChecks, WorkerPaints
  <2>3. thread'[w] # "call"
    BY <1>1, <1>5 DEF WorkerChecks, WorkerPaints
  <2>4. \A v \in Workers : Orderly(v)
    BY <1>1, <2>1, <2>2, <2>3 DEF Orderly
  <2> QED
    BY <1>1, <2>1, <2>4, WaitsStay
<1>6. CASE InputCallsPlayer
  <2>1. PICK call \in MappedCommands : Called("input", call)
    BY <1>6 DEF InputCallsPlayer
  <2>2. /\ "input" \in Agents /\ call \in {"stop", "seek", "pause", "resume"}
        /\ call \in {"seek", "stop", "castStop", "cast", "castFail", "shutdown", "pause", "resume"}
    BY DEF Agents, MappedCommands
  <2>3. /\ mu' = mu /\ workerMu' = workerMu /\ run' = run /\ thread["input"] = "check"
        /\ \A v \in Workers \ {"input"} : thread'[v] = thread[v]
    BY <1>6 DEF InputCallsPlayer
  <2>4. \A v \in Workers : Orderly(v)
    BY <1>1, <2>3 DEF Orderly
  <2> QED
    BY <1>1, <2>1, <2>2, <2>3, <2>4, CallWaits
<1>7. CASE InputReturns
  <2>1. /\ todo' = todo /\ mu' = mu /\ workerMu' = workerMu /\ run' = run /\ thread["input"] = "call"
        /\ thread' = [thread EXCEPT !["input"] = "check"]
    BY <1>7 DEF InputReturns
  <2>2. \A v \in Workers : Orderly(v)
    BY <1>1, <2>1 DEF Orderly, Workers
  <2> QED
    BY <1>1, <2>1, <2>2, WaitsStay
<1> QED
  BY <1>2, <1>3, <1>4, <1>5, <1>6, <1>7 DEF WorkersNext

LEMMA WaitsInvariant == WorkersInit /\ [][WorkersNext]_workerVars => []WaitsInv
<1>1. WorkersInit /\ WorkersInv => WaitsInv
  <2> SUFFICES ASSUME WorkersInit, WorkersInv PROVE WaitsInv
    OBVIOUS
  <2>1. /\ todo = [a \in Agents |-> <<>>] /\ mu = [m \in Mutexes |-> Nobody]
        /\ workerMu = [w \in Workers |-> Nobody] /\ run = [w \in Workers |-> TRUE]
        /\ thread = [w \in Workers |-> "check"]
    BY DEF WorkersInit
  <2>2. \A w : \A a \in Agents : ~AtJoined(a, w)
    BY <2>1 DEF AtJoined
  <2>3. Polled(todo["input"])
    <3>1. todo["input"] = <<>>
      BY <2>1 DEF Agents
    <3>2. <<>> \in Seq(PollSteps)
      OBVIOUS
    <3> QED
      BY <3>1, <3>2, PolledSteps
  <2>4. mu["handoff"] # "input" /\ thread["idle"] # "call" /\ thread["osd"] # "call"
    BY <2>1 DEF Mutexes, Workers, Nobody
  <2> QED
    BY <2>1, <2>2, <2>3, <2>4 DEF WaitsInv
<1>2. WaitsInv /\ WorkersInv' /\ [WorkersNext]_workerVars => WaitsInv'
  <2> SUFFICES ASSUME WaitsInv, WorkersInv', [WorkersNext]_workerVars PROVE WaitsInv'
    OBVIOUS
  <2>1. CASE \E a \in Agents : Step(a)
    BY <2>1, StepWaits
  <2>2. CASE WorkersNext /\ ~\E a \in Agents : Step(a)
    BY <2>2, OthersWait
  <2>3. CASE workerVars' = workerVars
    <3>1. todo' = todo /\ mu' = mu /\ workerMu' = workerMu /\ run' = run /\ thread' = thread
      BY <2>3 DEF workerVars
    <3> QED
      BY <3>1, SameOrderly, WaitsStay
  <2> QED
    BY <2>1, <2>2, <2>3
<1>3. WaitsInv => WorkersInv
  BY DEF WaitsInv
<1> QED
  BY <1>1, <1>2, WorkersInvariant, PTL

-----------------------------------------------------------------------------
\* Some thread waits for nothing.
Free == \/ \E a \in Agents : todo[a] # <<>> /\ Ready(a)
        \/ SessionReady \/ InputReady \/ \E w \in Workers : WorkerReady(w)

\* What a call with steps left is about to do.
About(a, x, y) == todo[a] # <<>> /\ x \in Marks /\ Knows(a, x) /\ MayStep(Head(todo[a]), x, y)

LEMMA CallAbout ==
  ASSUME NEW X \in [Agents -> Marks], OnCourse(X), NEW a \in Agents
  PROVE  /\ X[a].held # {} => todo[a] # <<>>
         /\ todo[a] # <<>> => \E y \in Marks : About(a, X[a], y)
<1> DEFINE s == todo[a]
           x == X[a]
<1>1. s \in Seq(Steps \cup Joins) /\ x \in Marks /\ Knows(a, x)
  BY DEF OnCourse, Lined
<1>2. PICK z \in Marks : Leads(s, x, z) /\ z.held = {}
  BY DEF OnCourse, Derives
<1>3. ASSUME s = <<>> PROVE x.held = {}
  <2>1. Leads(<<>>, x, z)
    BY <1>2, <1>3
  <2>2. x = z
    BY <2>1, LeadsNowhere
  <2> QED
    BY <1>2, <2>2
<1>4. ASSUME s # <<>> PROVE \E y \in Marks : About(a, x, y)
  <2>1. PICK y \in Marks : MayStep(Head(s), x, y)
    BY <1>1, <1>2, <1>4, LeadsBegins
  <2> QED
    BY <1>1, <1>4, <2>1 DEF About
<1> QED
  BY <1>3, <1>4

\* lifeMu_ is taken inside playHandoffMu, the others by who holds none.
LEMMA LockOrder ==
  ASSUME NEW st, NEW x, NEW y, MayStep(st, x, y), st[1] = "lock"
  PROVE  x.held \subseteq (IF st[2] = "life" THEN {"handoff"} ELSE {})
BY DEF MayStep, Plainly, Inside, Locks

\* A worker that is being joined ends, if no call that it makes keeps it.
LEMMA JoinedFree ==
  ASSUME WaitsInv, NEW a \in Agents, NEW w \in Workers, AtJoined(a, w),
         w = "input" => thread["input"] # "call"
  PROVE  Free
<1>1. workerMu[w] = a /\ ~run[w]
  BY NobodyApart DEF WaitsInv
<1>2. thread[w] \in {"none", "check", "paint", "call", "exited"}
  BY DEF WaitsInv, WorkersInv, Sane, WorkersTypeOK
<1>3. thread[w] # "call"
  BY DEF WaitsInv, Workers
<1>4. CASE thread[w] \in {"check", "paint"}
  BY <1>1, <1>4 DEF Free, WorkerReady
<1>5. CASE thread[w] \in Finished
  <2>1. todo[a] # <<>> /\ Head(todo[a])[1] = "joined" /\ Head(todo[a])[2] = w
    BY DEF AtJoined
  <2>2. Ready(a)
    BY <1>5, <2>1 DEF Ready
  <2> QED
    BY <2>1, <2>2 DEF Free
<1> QED
  BY <1>2, <1>3, <1>4, <1>5 DEF Finished

\* So does one whose mutex is wanted.
LEMMA WantedFree ==
  ASSUME WaitsInv, NEW w \in Workers, workerMu[w] # Nobody,
         w = "input" => thread["input"] # "call"
  PROVE  Free
<1>1. PICK a \in Agents : AtJoined(a, w)
  BY DEF WaitsInv
<1> QED
  BY <1>1, JoinedFree

LEMMA StartableElse ==
  ASSUME WaitsInv, NEW w \in Workers, workerMu[w] = Nobody
  PROVE  Startable(w)
BY DEF WaitsInv, Startable, Finished

\* A call that is to retire, join or raise a worker.
LEMMA WorkerFree ==
  ASSUME WaitsInv, NEW a \in Agents, NEW w \in Workers, todo[a] # <<>>,
         Head(todo[a])[1] \in {"retire", "joined", "raise"}, Head(todo[a])[2] = w,
         Head(todo[a])[1] = "joined" => Head(todo[a]) = <<"joined", w>>,
         Head(todo[a])[1] = "retire" => a # w,
         w = "input" => thread["input"] # "call"
  PROVE  Free
<1>1. CASE Head(todo[a])[1] = "joined"
  BY <1>1, JoinedFree DEF AtJoined
<1>2. CASE workerMu[w] # Nobody
  BY <1>2, WantedFree
<1>3. CASE workerMu[w] = Nobody /\ Head(todo[a])[1] \in {"retire", "raise"}
  <2>1. Startable(w)
    BY <1>3, StartableElse
  <2>2. Ready(a)
    BY <1>3, <2>1 DEF Ready
  <2> QED
    BY <2>2 DEF Free
<1> QED
  BY <1>1, <1>2, <1>3

\* A session that is told to stop ends.
LEMMA SessionFree ==
  ASSUME WaitsInv, stop, session \notin Finished
  PROVE  Free
<1>1. session \in {"fork", "publish", "play", "kill", "paint", "raise"}
  BY DEF WaitsInv, WorkersInv, Sane, WorkersTypeOK, Finished
<1>2. CASE session = "raise"
  <2>1. "idle" \in Workers /\ "idle" # "input"
    BY DEF Workers
  <2>2. CASE workerMu["idle"] = Nobody
    BY <1>2, <2>1, <2>2, StartableElse DEF Free, SessionReady
  <2>3. CASE workerMu["idle"] # Nobody
    BY <2>1, <2>3, WantedFree
  <2> QED
    BY <2>2, <2>3
<1>3. CASE session # "raise"
  BY <1>1, <1>3 DEF Free, SessionReady
<1> QED
  BY <1>2, <1>3

\* What a step waits for, if it is neither for a mutex nor for the input poll.
LEMMA StepFree ==
  ASSUME WaitsInv, NEW a \in Agents, NEW x, NEW y, About(a, x, y),
         Head(todo[a])[1] # "lock",
         Head(todo[a])[1] \in {"retire", "joined", "raise"} /\ Head(todo[a])[2] = "input"
            => thread["input"] # "call" /\ a # "input"
  PROVE  Free
<1> DEFINE st == Head(todo[a])
<1>1. todo[a] # <<>> /\ MayStep(st, x, y) /\ Knows(a, x)
  BY DEF About
<1>2. st \in Steps \cup Joins
  <2>1. todo[a] \in Seq(Steps \cup Joins)
    BY DEF WaitsInv, WorkersInv, OnCourse, Lined
  <2> HIDE DEF Steps, Joins
  <2> QED
    BY <1>1, <2>1
<1>3. CASE st[1] \in {"retire", "joined", "raise"}
  <2> DEFINE w == st[2]
  <2>1. w \in Workers
    <3> HIDE DEF st
    <3>1. CASE st[1] = "raise"
      BY <1>1, <3>1, MayPlain DEF Open
    <3>2. CASE st[1] \in {"retire", "joined"}
      BY <1>1, <3>2, MayWorker DEF Open
    <3> QED
      BY <1>3, <3>1, <3>2
  <2>2. st[1] = "joined" => st = <<"joined", w>>
    BY <1>2, <1>3 DEF Steps, Joins, Verbs, Grips
  <2>3. st[1] = "retire" => a # w
    BY <2>1, WorkersAssumption DEF Agents, Workers
  <2> HIDE DEF st
  <2>4. /\ Head(todo[a])[1] \in {"retire", "joined", "raise"} /\ Head(todo[a])[2] = w
        /\ Head(todo[a])[1] = "joined" => Head(todo[a]) = <<"joined", w>>
        /\ Head(todo[a])[1] = "retire" => a # w
        /\ w = "input" => thread["input"] # "call"
    BY <1>3, <2>2, <2>3 DEF st
  <2> HIDE DEF w
  <2> QED
    BY <1>1, <2>1, <2>4, WorkerFree
<1>4. CASE st[1] = "join"
  <2>1. stop
    <3> HIDE DEF st
    <3>1. x.phase = "told"
      BY <1>1, <1>4, MayEnter
    <3> QED
      BY <1>1, <3>1 DEF Knows
  <2>2. CASE session \in Finished
    <3>1. Ready(a)
      BY <1>4, <2>2 DEF Ready
    <3> QED
      BY <1>1, <3>1 DEF Free
  <2>3. CASE session \notin Finished
    BY <2>1, <2>3, SessionFree
  <2> QED
    BY <2>2, <2>3
<1>5. CASE st[1] \notin {"lock", "retire", "joined", "raise", "join"}
  <2>1. Ready(a)
    BY <1>5 DEF Ready
  <2> QED
    BY <1>1, <2>1 DEF Free
<1> QED
  BY <1>3, <1>4, <1>5

\* Who holds lifeMu_ or pauseControlMu_ takes no further mutex and joins no
\* input poll.
LEMMA HolderFree ==
  ASSUME WaitsInv, NEW m \in {"life", "pause"}, mu[m] # Nobody
  PROVE  Free
<1>1. PICK X \in [Agents -> Marks] : OnCourse(X)
  BY DEF WaitsInv, WorkersInv
<1>2. PICK a \in Agents : mu[m] = a
  BY DEF WaitsInv, WorkersInv, Sane, WorkersTypeOK, Mutexes
<1> DEFINE x == X[a]
           st == Head(todo[a])
<1>3. m \in x.held
  BY <1>1, <1>2 DEF OnCourse, Knows, Mutexes
<1>4. PICK y \in Marks : About(a, x, y)
  BY <1>1, <1>3, CallAbout
<1>5. MayStep(st, x, y)
  BY <1>4 DEF About
<1>6. st[1] # "lock"
  <2> HIDE DEF st
  <2>1. st[1] = "lock" => st[2] \in Mutexes \ x.held /\ x.held \subseteq (IF st[2] = "life" THEN {"handoff"} ELSE {})
    BY <1>5, MayMutex
  <2> QED
    BY <1>3, <2>1
<1>7. st[1] \in {"retire", "joined", "raise"} => st[2] # "input"
  <2> HIDE DEF st
  <2>1. st[1] \in {"retire", "joined", "raise"} => Open(st[2], x)
    <3>1. CASE st[1] = "raise"
      BY <1>5, <3>1, MayPlain
    <3>2. CASE st[1] \in {"retire", "joined"}
      BY <1>5, <3>2, MayWorker
    <3> QED
      BY <3>1, <3>2
  <2> QED
    BY <1>3, <2>1 DEF Open
<1> QED
  BY <1>4, <1>6, <1>7, StepFree

LEMMA LockFree ==
  ASSUME NEW a \in Agents, todo[a] # <<>>, Head(todo[a])[1] = "lock", mu[Head(todo[a])[2]] = Nobody
  PROVE  Free
BY DEF Free, Ready

\* The input poll in a call.
LEMMA InputFree ==
  ASSUME WaitsInv, todo["input"] # <<>> \/ thread["input"] = "call"
  PROVE  Free
<1>1. CASE todo["input"] = <<>>
  BY <1>1 DEF Free, InputReady
<1>2. CASE todo["input"] # <<>>
  <2>1. PICK X \in [Agents -> Marks] : OnCourse(X)
    BY DEF WaitsInv, WorkersInv
  <2>2. "input" \in Agents
    BY DEF Agents
  <2> DEFINE x == X["input"]
             st == Head(todo["input"])
  <2>3. PICK y \in Marks : About("input", x, y)
    BY <1>2, <2>1, <2>2, CallAbout
  <2>4. MayStep(st, x, y)
    BY <2>3 DEF About
  <2>5. st \in PollSteps \cup Joins /\ st # <<"joined", "input">>
    <3>1. todo["input"] \in Seq(PollSteps \cup Joins) /\ Head(todo["input"]) # <<"joined", "input">>
      BY <1>2 DEF WaitsInv, Polled
    <3> HIDE DEF PollSteps, Joins
    <3> QED
      BY <1>2, <3>1
  <2>6. CASE st[1] = "lock"
    <3> DEFINE m == st[2]
    <3>1. m \in Mutexes
      <4> HIDE DEF st
      <4> QED
        BY <2>4, <2>6, MayMutex
    <3>2. m # "handoff"
      <4>1. st = <<"lock", m>>
        <5>1. st \in Grips \X (Workers \cup Mutexes)
          BY <2>5, <2>6 DEF PollSteps, Joins, Steps, Verbs
        <5> HIDE DEF st
        <5> QED
          BY <2>6, <5>1
      <4> QED
        BY <2>5, <2>6, <4>1 DEF PollSteps, Joins
    <3>3. CASE mu[m] = Nobody
      BY <1>2, <2>2, <2>6, <3>3, LockFree
    <3>4. CASE mu[m] # Nobody
      BY <3>1, <3>2, <3>4, HolderFree DEF Mutexes
    <3> QED
      BY <3>3, <3>4
  <2>7. CASE st[1] # "lock"
    <3>1. st[1] \in {"retire", "joined", "raise"} => st[2] # "input"
      <4>1. st[1] \in {"retire", "raise"} => st \in Grips \X (Workers \cup Mutexes)
        BY <2>5 DEF PollSteps, Joins, Steps, Verbs
      <4>2. st[1] = "joined" => st \in Joins
        BY <2>5 DEF PollSteps, Steps, Verbs, Grips
      <4>3. \A p \in Grips \X (Workers \cup Mutexes) : p = <<p[1], p[2]>>
        OBVIOUS
      <4>4. \A p \in Joins : p = <<p[1], p[2]>>
        BY DEF Joins
      <4> HIDE DEF st
      <4>5. ASSUME st[1] \in {"retire", "raise"}, st[2] = "input" PROVE FALSE
        <5>1. st \in {"retire", "raise"} \X {"input"}
          BY <4>1, <4>3, <4>5
        <5> QED
          BY <2>5, <4>5, <5>1 DEF PollSteps, Joins
      <4>6. ASSUME st[1] = "joined", st[2] = "input" PROVE FALSE
        BY <2>5, <4>2, <4>4, <4>6
      <4> QED
        BY <4>5, <4>6
    <3> QED
      BY <2>2, <2>3, <2>7, <3>1, StepFree
  <2> QED
    BY <2>6, <2>7
<1> QED
  BY <1>1, <1>2

LEMMA NotLockFree ==
  ASSUME WaitsInv, NEW a \in Agents, NEW x, NEW y, About(a, x, y), Head(todo[a])[1] # "lock"
  PROVE  Free
<1>1. CASE thread["input"] = "call" \/ todo["input"] # <<>>
  BY <1>1, InputFree
<1>2. CASE thread["input"] # "call" /\ todo["input"] = <<>>
  <2>1. a # "input"
    BY <1>2 DEF About
  <2> QED
    BY <1>2, <2>1, StepFree
<1> QED
  BY <1>1, <1>2

\* The mutexes and the joins never wait in a circle: whoever waits for lifeMu_ or
\* pauseControlMu_ waits for a call that needs no other, whoever waits for
\* playHandoffMu for a call that needs lifeMu_ at most, and who joins the input
\* poll holds nothing that its call could wait for: media_player.cpp, stop(),
\* play(), shutdown(), stopInputPoll(), and FpgaWorkerHandoff of main.cpp.
THEOREM NeverAllBlocked == WorkersSpec => []NoCircle
<1>1. ASSUME WaitsInv, NEW a \in Agents, todo[a] # <<>> PROVE Free
  <2>1. PICK X \in [Agents -> Marks] : OnCourse(X)
    BY <1>1 DEF WaitsInv, WorkersInv
  <2>2. PICK y \in Marks : About(a, X[a], y)
    BY <1>1, <2>1, CallAbout
  <2> DEFINE st == Head(todo[a])
             m == st[2]
  <2>3. CASE st[1] # "lock"
    BY <1>1, <2>2, <2>3, NotLockFree
  <2>4. CASE st[1] = "lock" /\ mu[m] = Nobody
    BY <1>1, <2>4, LockFree
  <2>5. CASE st[1] = "lock" /\ mu[m] # Nobody
    <3>1. m \in Mutexes
      <4>1. MayStep(st, X[a], y)
        BY <2>2 DEF About
      <4> HIDE DEF st
      <4> QED
        BY <2>5, <4>1, MayMutex
    <3>2. CASE m \in {"life", "pause"}
      BY <1>1, <2>5, <3>2, HolderFree
    <3>3. CASE m = "handoff"
      <4>1. PICK b \in Agents : mu["handoff"] = b
        BY <1>1, <2>5, <3>3 DEF WaitsInv, WorkersInv, Sane, WorkersTypeOK, Mutexes
      <4>2. "handoff" \in X[b].held
        BY <2>1, <4>1 DEF OnCourse, Knows, Mutexes
      <4>3. PICK z \in Marks : About(b, X[b], z)
        BY <2>1, <4>2, CallAbout
      <4> DEFINE sb == Head(todo[b])
                 k == sb[2]
      <4>4. CASE sb[1] # "lock"
        BY <1>1, <4>3, <4>4, NotLockFree
      <4>5. CASE sb[1] = "lock"
        <5>1. MayStep(sb, X[b], z) /\ todo[b] # <<>>
          BY <4>3 DEF About
        <5>2. k = "life"
          <6> DEFINE xb == X[b]
          <6>2. MayStep(sb, xb, z) /\ sb[1] = "lock"
            BY <4>5, <5>1
          <6> HIDE DEF sb, xb
          <6>3. xb.held \subseteq (IF sb[2] = "life" THEN {"handoff"} ELSE {})
            BY <6>2, LockOrder
          <6>1. X[b].held \subseteq (IF k = "life" THEN {"handoff"} ELSE {})
            BY <6>3 DEF xb
          <6> QED
            BY <4>2, <6>1
        <5>3. CASE mu[k] = Nobody
          BY <4>5, <5>1, <5>3, LockFree
        <5>4. CASE mu[k] # Nobody
          BY <1>1, <5>2, <5>4, HolderFree
        <5> QED
          BY <5>3, <5>4
      <4> QED
        BY <4>4, <4>5
    <3> QED
      BY <3>1, <3>2, <3>3 DEF Mutexes
  <2> QED
    BY <2>3, <2>4, <2>5
<1>2. WaitsInv => NoCircle
  BY <1>1 DEF Free, NoCircle
<1> QED
  BY <1>2, WaitsInvariant, PTL DEF WorkersSpec

-----------------------------------------------------------------------------
(* The five groups of threads in one run.                                  *)

(* A behaviour of the run is one of each group, seen from there. *)
LEMMA GroupsApart ==
  ThreadsSpec => PipeSpec /\ SerialSpec /\ (AvInit /\ [][AvNext]_avVars) /\ WorkersSpec /\ DemuxSpec
<1>1. ThreadsInit => PipeInit /\ SerialInit /\ AvInit /\ WorkersInit /\ DemuxInit
  BY DEF ThreadsInit
<1>2. [ThreadsNext]_threadVars => [PipeNext]_pipeVars /\ [SerialNext]_serialVars
  BY DEF ThreadsNext, threadVars, Piping, Looping, Pacing, Working, Demuxing
<1>3. [ThreadsNext]_threadVars => [AvNext]_avVars /\ [WorkersNext]_workerVars /\ [DemuxNext]_demuxVars
  BY DEF ThreadsNext, threadVars, Piping, Looping, Pacing, Working, Demuxing
<1> QED
  BY <1>1, <1>2, <1>3, PTL DEF ThreadsSpec, PipeSpec, SerialSpec, WorkersSpec, DemuxSpec

(* On its way to the screen no picture is lost, swapped, mixed, or shown in         *)
(* another's place, in the pipeline of PRESENT=fpga or in the serial loop, with the *)
(* reader, the present thread, the screen, pauses, resumes, stops and the overlay   *)
(* in any order: for streams of any length and any number of pauses, drops and      *)
(* flashed skips.                                                                   *)
THEOREM FramesAreKept == ThreadsSpec => []FramesKept
<1>1. PipeInv /\ SerialInv => FramesKept
  BY PipeKeepsFrames DEF SerialInv, FramesKept
<1> QED
  BY <1>1, GroupsApart, PipeInvariant, SerialInvariant, PTL

(* No frame waits for a sleeping present thread, and the play thread joins one that *)
(* sleeps only if the notification fell between its predicate and its wait, the one *)
(* window that notifying without ringMu leaves open.                                *)
THEOREM SleepersAreMissed == PipeSpec => []SleeperIsMissed
BY PipeInvariant, PipeKeepsFrames, PTL

(* The state of the two loops keeps its shape: no index leaves the ring of two, no *)
(* bank is a third one, and no more pictures are presented than were read.         *)
THEOREM LoopsTypeCorrect == PipeSpec /\ SerialSpec => [](PipeTypeOK /\ SerialTypeOK)
<1>1. PipeInv /\ SerialInv => PipeTypeOK /\ SerialTypeOK
  BY DEF PipeInv, SerialInv
<1> QED
  BY <1>1, PipeInvariant, SerialInvariant, PTL

(* The state of the five groups keeps its shape, in any order of their threads: no *)
(* index, bank, slot or place of media_player.cpp is one its code does not have.   *)
THEOREM ThreadsTypeCorrect == ThreadsSpec => []ThreadsTypeOK
<1> DEFINE Five == group \in {"pipe", "serial", "av", "workers", "demux"}
<1>1. ThreadsInit => Five
  BY DEF ThreadsInit
<1>2. Five /\ [ThreadsNext]_threadVars => Five'
  BY DEF ThreadsNext, threadVars, Piping, Looping, Pacing, Working, Demuxing
<1>3. ThreadsSpec => []Five
  BY <1>1, <1>2, PTL DEF ThreadsSpec
<1>4. AvInv => AvTypeOK
  BY DEF AvInv
<1>5. Five /\ PipeTypeOK /\ SerialTypeOK /\ AvTypeOK /\ WorkersTypeOK /\ DemuxTypeOK => ThreadsTypeOK
  BY DEF ThreadsTypeOK
<1> HIDE DEF Five
<1> QED
  BY <1>3, <1>4, <1>5, GroupsApart, LoopsTypeCorrect, AvInvariant, WorkersTypeCorrect, DemuxTypeCorrect, PTL

(* Nobody in that run waits for a sleeper that nothing wakes, the mutexes and joins  *)
(* of the player never close a circle, and a session can go on: what is left is a    *)
(* notification that falls before the wait, a hold slack that is too short, and the  *)
(* two waits of a session for a process that is gone or was never made.              *)
THEOREM NobodyStranded == ThreadsSpec => []NoStrandedWait
<1>1. SleeperIsMissed /\ StuckIsShortSlack /\ NoCircle /\ KnownWaits => NoStrandedWait
  BY DEF NoStrandedWait
<1> QED
  BY <1>1, AvHolds, GroupsApart, SleepersAreMissed, NeverAllBlocked, SessionWaitsAreKnown, AvInvariant, PTL

(* In that run, too, a session owns its decoder and the screen, a stopped decoder is *)
(* a paused one, and a session that is over left nothing and is accounted for: for   *)
(* any callers of the player.                                                        *)
THEOREM ThreadsKeepTheirWord ==
  ThreadsSpec => [](ScreenOwned /\ FrozenMeansPaused /\ NothingLeft /\ SessionAccounted)
BY GroupsApart, ScreenAlwaysOwned, FrozenOnlyPaused, SessionLeavesNothing, SessionAlwaysAccounted, PTL
=============================================================================
