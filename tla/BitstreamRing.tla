----------------------------- MODULE BitstreamRing ------------------------------
(***************************************************************************)
(* The H.264 record ring in DDR (media_player.cpp FpgaBitstreamProducer;   *)
(* fpga_spi.cpp writeBitstreamRecord and the calls built on it;            *)
(* ddr_bitstream_ring.hpp; the reader of ddr_bitstream_reader.sv).         *)
(*                                                                         *)
(* The producer decides on words the reader published some time ago: how   *)
(* far it has read (READ) and, written later, its flags (ERR, STAT0..6).   *)
(* The reader polls CTRL, takes cells up to the count it saw and checks    *)
(* every record itself.  A record is a header cell (32 bytes in the code)  *)
(* and its payload cells.  Byte counts stay below 2^31, where the count of *)
(* CTRL and the reader's own would part (bound MaxRecords).                  *)
(***************************************************************************)
EXTENDS Integers, Sequences

CONSTANTS RingCells,    \* kRingBytes
          Lengths,      \* payload lengths of a NAL
          Blank,        \* a cell nobody has written
          MaxRecords,     \* bound: calls of the producer
          MaxRestarts   \* bound: restarts of the daemon

ASSUME RingAssumption == RingCells \in Nat \ {0} /\ Lengths \subseteq Nat /\ MaxRecords \in Nat
                         /\ MaxRestarts \in Nat

VARIABLES prod,     \* FpgaBitstreamProducer and the call it is in
          wr,       \* bitstreamWriteCount_
          mem,      \* the ring
          ctrl,     \* CTRL: the published write count
          readW,    \* READ: the published read count
          flags,    \* ERR and STAT words
          rd,       \* the reader
          took,     \* the cell the reader took last
          calls, restarts,
          sent,     \* history: every cell published
          dirty     \* history: a control call timed out, a NAL went out while paused, or
                    \* flags that lag behind READ made a push give the session up

ringVars == <<prod, wr, mem, ctrl, readW, flags, rd, took, calls, restarts, sent, dirty>>

Controls == {"begin", "flush", "end", "pause", "resume"}
Header(ev, s, n, len) == [ev |-> ev, sess |-> s, seq |-> n, len |-> len]
Payload(s, n, i) == [ev |-> "payload", sess |-> s, seq |-> n, len |-> i]
Cells == [ev : Controls \cup {"nal", "payload"}, sess : Nat, seq : Nat, len : Nat]

ASSUME BlankAssumption == Blank \notin Cells

Idle(p) == [p EXCEPT !.pc = "idle", !.rec = <<>>]

RingInit ==
  /\ prod = [pc |-> "idle", ev |-> "none", rec |-> <<>>, active |-> FALSE, paused |-> FALSE,
             sess |-> 0, seq |-> 0]
  /\ wr = 0 /\ mem = [i \in 0..(RingCells - 1) |-> Blank]
  /\ ctrl = 0 /\ readW = 0
  /\ flags = [active |-> FALSE, paused |-> FALSE, sess |-> 0, bad |-> FALSE]
  /\ rd = [write |-> 0, read |-> 0, active |-> FALSE, paused |-> FALSE, sess |-> 0, expect |-> 0,
           left |-> 0, mode |-> "header", bad |-> FALSE, pub |-> 0, due |-> FALSE]
  /\ took = Blank /\ calls = 0 /\ restarts = 0 /\ sent = <<>> /\ dirty = FALSE

--------------------------------------------------------------------------------
(* The producer *)

Calling == prod.pc = "idle" /\ calls < MaxRecords /\ calls' = calls + 1

(* beginBitstreamSession: refused while the flags show a session *)
CallBegin ==
  /\ Calling /\ ~prod.active /\ ~flags.active
  /\ prod' = [prod EXCEPT !.pc = "space", !.ev = "begin",
                          !.rec = <<Header("begin", prod.sess + 1, 0, 0)>>]
  /\ UNCHANGED <<wr, mem, ctrl, readW, flags, rd, took, restarts, sent, dirty>>

CallControl ==
  /\ Calling /\ prod.active
  /\ \E ev \in Controls \ {"begin"} :
       prod' = [prod EXCEPT !.pc = "space", !.ev = ev, !.rec = <<Header(ev, prod.sess, 0, 0)>>]
  /\ UNCHANGED <<wr, mem, ctrl, readW, flags, rd, took, restarts, sent, dirty>>

(* pushNal: on bad or stale flags (pushBitstreamNal) the producer adopts   *)
(* what they say and the push fails.                                       *)
Stale == flags.bad \/ ~flags.active \/ flags.sess # prod.sess
syncStatus(p) == [p EXCEPT !.active = flags.active, !.paused = flags.paused]
CallPush ==
  /\ Calling /\ prod.active
  /\ IF Stale
     THEN /\ prod' = syncStatus(prod)
          /\ dirty' = (dirty \/ (rd.active /\ rd.sess = prod.sess))
     ELSE /\ \E n \in Lengths :
               prod' = [prod EXCEPT !.pc = "space", !.ev = "nal",
                 !.rec = <<Header("nal", prod.sess, prod.seq, n)>>
                         \o [i \in 1..n |-> Payload(prod.sess, prod.seq, i)]]
          /\ dirty' = (dirty \/ prod.paused)
  /\ UNCHANGED <<wr, mem, ctrl, readW, flags, rd, took, restarts, sent>>

(* writeBitstreamRecord: desync, room by the published READ, or a timeout. *)
(* Counts are unsigned: a READ beyond the write count leaves no room.      *)
RoomOffByOne == wr >= readW /\ wr - readW + Len(prod.rec) <= RingCells + 1
Room == wr >= readW /\ wr - readW + Len(prod.rec) <= RingCells
Space ==
  /\ prod.pc = "space"
  /\ prod' = IF ~flags.bad /\ Room THEN [prod EXCEPT !.pc = "write"] ELSE Idle(prod)
  /\ UNCHANGED <<wr, mem, ctrl, readW, flags, rd, took, calls, restarts, sent, dirty>>

WriteCells ==
  /\ prod.pc = "write" /\ prod' = [prod EXCEPT !.pc = "publish"]
  /\ mem' = [i \in DOMAIN mem |->
               LET off == (i - wr) % RingCells
               IN  IF off < Len(prod.rec) THEN prod.rec[off + 1] ELSE mem[i]]
  /\ wr' = wr + Len(prod.rec)
  /\ UNCHANGED <<ctrl, readW, flags, rd, took, calls, restarts, sent, dirty>>

PublishCtrl ==
  /\ prod.pc = "publish" /\ ctrl' = wr /\ sent' = sent \o prod.rec
  /\ prod' = IF prod.ev = "nal" THEN [Idle(prod) EXCEPT !.seq = @ + 1]
             ELSE [prod EXCEPT !.pc = "await"]
  /\ UNCHANGED <<wr, mem, readW, flags, rd, took, calls, restarts, dirty>>

(* begin, flush, end, pause, resume of the producer, once the core has     *)
(* taken the record.                                                       *)
Completed(p) ==
  CASE p.ev = "begin" -> [Idle(p) EXCEPT !.active = TRUE, !.paused = FALSE, !.sess = @ + 1, !.seq = 0]
    [] p.ev = "end" -> [Idle(p) EXCEPT !.active = FALSE, !.paused = FALSE]
    [] p.ev = "pause" -> [Idle(p) EXCEPT !.paused = TRUE]
    [] p.ev = "resume" -> [Idle(p) EXCEPT !.paused = FALSE]
    [] p.ev = "flush" -> Idle(p)

AwaitNothing ==
  /\ prod.pc = "await"
  /\ \/ /\ UNCHANGED dirty
        /\ prod' = Completed(prod)
     \/ readW < wr /\ prod' = Idle(prod) /\ dirty' = TRUE
  /\ UNCHANGED <<wr, mem, ctrl, readW, flags, rd, took, calls, restarts, sent>>

(* waitBitstreamReadCount, then the producer's own state; or 250 ms pass.  *)
Await ==
  /\ prod.pc = "await"
  /\ \/ /\ readW >= wr /\ UNCHANGED dirty
        /\ prod' = Completed(prod)
     \/ readW < wr /\ prod' = Idle(prod) /\ dirty' = TRUE
  /\ UNCHANGED <<wr, mem, ctrl, readW, flags, rd, took, calls, restarts, sent>>

(* releaseBitstreamDdrMap, a new daemon: the write count starts at zero    *)
(* again, and neither CTRL nor the reader is told.  (A restart takes much  *)
(* longer than the reader needs to drain the ring.)                        *)
ReopenRing ==
  /\ rd.read = ctrl /\ readW = ctrl
  /\ restarts < MaxRestarts /\ restarts' = restarts + 1 /\ prod.pc = "idle"
  /\ wr' = 0 /\ prod' = [prod EXCEPT !.active = FALSE, !.paused = FALSE, !.seq = 0]
  /\ UNCHANGED <<mem, ctrl, readW, flags, rd, took, calls, sent, dirty>>

--------------------------------------------------------------------------------
(* The reader *)

PollCtrl ==
  /\ rd.write # ctrl /\ rd' = [rd EXCEPT !.write = ctrl]
  /\ UNCHANGED <<prod, wr, mem, ctrl, readW, flags, took, calls, restarts, sent, dirty>>

(* What a complete header does. *)
Own(c) == rd.active /\ c.sess = rd.sess
TakeHeader(r, c) ==
  CASE c = Blank \/ c.ev = "payload" -> [r EXCEPT !.active = FALSE, !.bad = TRUE]
    [] c.ev = "begin" ->
         IF rd.active THEN [r EXCEPT !.bad = TRUE]
         ELSE [r EXCEPT !.active = TRUE, !.paused = FALSE, !.sess = c.sess, !.expect = 0]
    [] c.ev = "nal" ->
         IF ~Own(c) \/ rd.paused \/ c.seq # rd.expect
         THEN [r EXCEPT !.bad = TRUE, !.left = c.len, !.mode = IF c.len > 0 THEN "drop" ELSE "header"]
         ELSE [r EXCEPT !.expect = @ + 1, !.left = c.len,
                        !.mode = IF c.len > 0 THEN "payload" ELSE "header"]
    [] OTHER ->
         IF ~Own(c) THEN [r EXCEPT !.bad = TRUE]
         ELSE CASE c.ev = "end" -> [r EXCEPT !.active = FALSE, !.paused = FALSE]
                [] c.ev = "pause" -> [r EXCEPT !.paused = TRUE]
                [] c.ev = "resume" -> [r EXCEPT !.paused = FALSE]
                [] c.ev = "flush" -> r

TakeBody(r) == [r EXCEPT !.left = @ - 1, !.mode = IF rd.left = 1 THEN "header" ELSE @]

Consume ==
  /\ rd.read < rd.write
  /\ LET c == mem[rd.read % RingCells]
         r == [rd EXCEPT !.read = @ + 1, !.due = TRUE]
     IN  /\ took' = c
         /\ rd' = IF rd.mode = "header" THEN TakeHeader(r, c) ELSE TakeBody(r)
  /\ UNCHANGED <<prod, wr, mem, ctrl, readW, flags, calls, restarts, sent, dirty>>

(* The status words, READ first; the others as they are when written.      *)
PublishRead ==
  /\ rd.due /\ rd.pub = 0 /\ readW' = rd.read /\ rd' = [rd EXCEPT !.pub = 1]
  /\ UNCHANGED <<prod, wr, mem, ctrl, flags, took, calls, restarts, sent, dirty>>
PublishFlags ==
  /\ rd.due /\ rd.pub = 1
  /\ flags' = [active |-> rd.active, paused |-> rd.paused, sess |-> rd.sess, bad |-> rd.bad]
  /\ rd' = [rd EXCEPT !.pub = 0, !.due = FALSE]
  /\ UNCHANGED <<prod, wr, mem, ctrl, readW, took, calls, restarts, sent, dirty>>

ReaderStep == PollCtrl \/ Consume \/ PublishRead \/ PublishFlags
ProducerStep == Space \/ WriteCells \/ PublishCtrl \/ Await
RingNext == ReaderStep \/ ProducerStep \/ CallBegin \/ CallControl \/ CallPush \/ ReopenRing

RingSpec == RingInit /\ [][RingNext]_ringVars

--------------------------------------------------------------------------------
(* The shape of the state of the producer, the words in DDR and the reader. *)
ProdType ==
  prod \in [pc : {"idle", "space", "write", "publish", "await"}, ev : Controls \cup {"none", "nal"},
            rec : Seq(Cells), active : BOOLEAN, paused : BOOLEAN, sess : Nat, seq : Nat]
WordsType ==
  /\ wr \in Nat /\ ctrl \in Nat /\ readW \in Nat
  /\ mem \in [0..(RingCells - 1) -> Cells \cup {Blank}]
  /\ flags \in [active : BOOLEAN, paused : BOOLEAN, sess : Nat, bad : BOOLEAN]
ReaderStates ==
  [write : Nat, read : Nat, active : BOOLEAN, paused : BOOLEAN, sess : Nat, expect : Nat, left : Nat,
   mode : {"header", "payload", "drop"}, bad : BOOLEAN, pub : {0, 1}, due : BOOLEAN]
ReaderType == rd \in ReaderStates /\ (rd.mode # "header" => rd.left > 0)
RingTypeOK ==
  /\ ProdType /\ WordsType /\ ReaderType
  /\ took \in Cells \cup {Blank} /\ sent \in Seq(Cells) /\ dirty \in BOOLEAN
  /\ calls \in 0..MaxRecords /\ restarts \in 0..MaxRestarts

(* The ring is a lossless bounded queue of whole records, although the     *)
(* producer judges the room by a READ word that is behind: a refinement.   *)
Fifo == INSTANCE RecordFifo WITH Capacity <- RingCells, Nothing <- Blank, last <- took,
                                 queue <- SubSeq(sent, rd.read + 1, Len(sent))
ImplementsFifo == Fifo!FifoSpec

(* The reader raises desync or fatal only for cause: as long as no control *)
(* call timed out, no NAL was pushed into a paused session and no push was *)
(* refused on flags that lag behind READ, every record fits the session    *)
(* and the sequence the reader expects.                                    *)
NoFalseDesync == (~dirty /\ restarts = 0) => ~rd.bad

(* begin() "returns only after the consumer/ring is reset for session_id", *)
(* and end() only when the session is over: while the producer believes in *)
(* a session, the reader is in that session.                               *)
SessionAgreed ==
  (prod.active /\ prod.pc = "idle" /\ ~dirty /\ restarts = 0)
    => (rd.active /\ rd.sess = prod.sess)

(* Producer and reader agree on the session, and none accuses the other. *)
RingAgreed == NoFalseDesync /\ SessionAgreed
================================================================================
