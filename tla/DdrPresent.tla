------------------------------ MODULE DdrPresent -------------------------------
(***************************************************************************)
(* Two frame banks in DDR: the ARM fills one while the core shows the      *)
(* other (fpga_spi.cpp sendDdrFrame, begin/commitDdrBankIngest,            *)
(* kickDdrDoorbell, kickDdrSpi, readBankRelease; input_mailbox.hpp         *)
(* DdrStrictReleaseState, decideDdrBankWrite; ddr_frame_store.sv).         *)
(*                                                                         *)
(* The ARM writes a bank, then a doorbell token, or a kick over SPI.  The  *)
(* core polls the doorbell in the DDR clock domain, hands the request to   *)
(* the pixel clock domain, prefetches, swaps at a vsync and publishes the  *)
(* PLXD word - swaps so far, the displayed bank, the free banks - which    *)
(* the ARM may read much later.  A strict write waits until PLXD shows a   *)
(* free bank and a swap count other than before its previous write; a best *)
(* effort write takes the bank that is not displayed.                      *)
(*                                                                         *)
(* The core may be reset at any time, and both words outlive it and the    *)
(* daemon in DDR.  The first token it reads after a reset is taken for a   *)
(* leftover: it only primes the poll, and is a request after all when it   *)
(* is still there thousands of polls later.  Words of a format other than  *)
(* YUV420P, which the daemon never writes, count as none: the core's mark  *)
(* for them is not set while it has accepted a token.                      *)
(***************************************************************************)
EXTENDS Integers

CONSTANTS BellMod,       \* doorbell sequence numbers (2^29 in the code)
          CountMod,     \* frames_done values (2^16 in the code)
          Policies,     \* the callers: "strict", "best", "ingest"
          Absent,       \* a word nobody has written yet
          MaxWrites     \* bound: frames sent, layout changes, restarts and resets

ASSUME DdrAssumption == /\ BellMod \in Nat \ {0, 1} /\ CountMod \in Nat \ {0, 1}
                        /\ MaxWrites \in Nat
                        /\ Policies \subseteq {"strict", "best", "ingest"}

VARIABLES arm,      \* the sender: pc, policy, bank, the PLXD sample it decided on
          kickMode, \* ddrKickMode_: 0 probe, 1 doorbell, 2 SPI, -1 unavailable
          strict,   \* strictDdrRelease_
          seq,      \* doorbellSeq_
          bell,     \* the doorbell word in DDR
          fs,       \* the frame store
          plxd,     \* the PLXD word in DDR, or Absent
          writes,   \* frames and remaps so far
          mixed     \* history: a request the strict baseline does not account for may be in flight

ddrVars == <<arm, kickMode, strict, seq, bell, fs, plxd, writes, mixed>>

Banks == {0, 1}
Counts == 0..(CountMod - 1)
BellWords == [seq : 0..(BellMod - 1), bank : Banks]
PlxdWords == [disp : Banks, pend : BOOLEAN, count : Counts]

ASSUME AbsentAssumption == Absent \notin BellWords /\ Absent \notin PlxdWords

NoRelease == [valid |-> FALSE, pending |-> FALSE, count |-> 0]
ArmIdle == [pc |-> "idle", policy |-> "none", bank |-> 0, count |-> 0, rung |-> FALSE]

(* last: have_seq and last_seq; primed: doorbell_primed; recover:          *)
(* stale_db_recovery_pending; req and seen: swap_req_t and swap_req_seen.  *)
StoreReset == [last |-> Absent, primed |-> FALSE, recover |-> FALSE, req |-> FALSE, reqBank |-> 0,
               seen |-> FALSE, pend |-> FALSE, pendBank |-> 0, disp |-> 0, count |-> 0, hasFrame |-> FALSE]

(* No request is on its way and PLXD tells the truth about the last one. *)
Settled ==
  /\ bell = fs.last /\ ~fs.recover /\ fs.req = fs.seen /\ ~fs.pend
  /\ plxd \in {Absent, [disp |-> fs.disp, pend |-> FALSE, count |-> fs.count]}

(* A new mapping reads the sequence number back from the doorbell.         *)
DoorbellSeq == IF bell = Absent THEN 0 ELSE bell.seq

(* A core behind its reset, and whatever an earlier daemon left in DDR.    *)
DdrInit ==
  /\ arm = ArmIdle /\ kickMode = 0 /\ strict = NoRelease
  /\ bell \in {Absent} \cup BellWords /\ plxd \in {Absent} \cup PlxdWords /\ seq = DoorbellSeq
  /\ fs = StoreReset /\ writes = 0 /\ mixed = ~Settled

--------------------------------------------------------------------------------
(* The core *)

(* The toggle that carries a request needs three cycles, a poll takes 256. *)
Request(f, bank) == [f EXCEPT !.reqBank = bank, !.req = ~f.seen]

(* A token that differs from the last one is a request, unless it is the   *)
(* first that is read after a reset; that one is a request when 4096 more  *)
(* polls have found no other (time is free).                               *)
PollDoorbell ==
  /\ bell # fs.last \/ ~fs.primed \/ fs.recover
  /\ LET heard == [fs EXCEPT !.last = bell, !.primed = TRUE, !.recover = ~fs.primed /\ bell # fs.last]
     IN  fs' = IF fs.primed THEN Request(heard, bell.bank) ELSE heard
  /\ UNCHANGED <<arm, kickMode, strict, seq, bell, plxd, writes, mixed>>

TakeRequest(f) == [f EXCEPT !.seen = f.req, !.pendBank = f.reqBank, !.pend = TRUE]

SyncRequest ==
  /\ fs.req # fs.seen /\ fs' = TakeRequest(fs)
  /\ UNCHANGED <<arm, kickMode, strict, seq, bell, plxd, writes, mixed>>

(* A vsync after the first lines of the pending bank are prefetched.  A    *)
(* request that arrives on the edge of the swap stays pending.             *)
Vsync ==
  /\ fs.pend
  /\ LET swapped == [fs EXCEPT !.disp = fs.pendBank, !.pend = FALSE,
                               !.hasFrame = TRUE, !.count = (@ + 1) % CountMod]
     IN  fs' = swapped \/ (fs.req # fs.seen /\ fs' = TakeRequest(swapped))
  /\ UNCHANGED <<arm, kickMode, strict, seq, bell, plxd, writes, mixed>>

(* bank_mbox_req: after every swap and now and then.  The count of swaps   *)
(* crosses the clock domains a cycle behind the rest.                      *)
Publish ==
  /\ \E c \in {fs.count, IF plxd = Absent THEN 0 ELSE plxd.count} :
       plxd' = [disp |-> fs.disp, pend |-> fs.pend, count |-> c]
  /\ plxd' # plxd
  /\ UNCHANGED <<arm, kickMode, strict, seq, bell, fs, writes, mixed>>

(* The core's reset leaves the words in DDR, and the daemon is not told.   *)
CoreReset ==
  /\ writes < MaxWrites /\ writes' = writes + 1
  /\ fs' = StoreReset /\ mixed' = TRUE
  /\ UNCHANGED <<arm, kickMode, strict, seq, bell, plxd>>

CoreStep == PollDoorbell \/ SyncRequest \/ Vsync \/ Publish

--------------------------------------------------------------------------------
(* The ARM *)

(* BankReleaseStatus *)
AnyFree == ~plxd.pend
FreeBank == 1 - plxd.disp

AcknowledgesAnyWrite == ~strict.pending
AcknowledgesPreviousWrite ==
  ~strict.pending /\ (~strict.valid \/ plxd.count # strict.count)

(* Unavailable: refused for 5 s (time is free), then probed afresh. *)
BeginSend ==
  /\ arm.pc = "idle" /\ writes < MaxWrites /\ writes' = writes + 1
  /\ \E p \in Policies :
       \/ arm' = [ArmIdle EXCEPT !.pc = "choose", !.policy = p] /\ kickMode >= 0
          /\ UNCHANGED <<kickMode, strict, mixed>>
       \/ arm' = [ArmIdle EXCEPT !.pc = "choose", !.policy = p] /\ kickMode = -1
          /\ kickMode' = 0 /\ strict' = NoRelease /\ mixed' = (mixed \/ ~Settled)
       \/ kickMode = -1 /\ UNCHANGED <<arm, kickMode, strict, mixed>>
  /\ UNCHANGED <<seq, bell, fs, plxd>>

(* decideDdrBankWrite under RequireReleased; 50 ms without one is a failure *)
ChooseStrict ==
  /\ arm.pc = "choose" /\ arm.policy = "strict"
  /\ \/ /\ plxd # Absent /\ AnyFree /\ AcknowledgesPreviousWrite
        /\ arm' = [arm EXCEPT !.pc = "copy", !.bank = FreeBank, !.count = plxd.count]
        /\ mixed' = (mixed /\ ~Settled)
     \/ arm' = ArmIdle /\ UNCHANGED mixed
  /\ UNCHANGED <<kickMode, strict, seq, bell, fs, plxd, writes>>

(* BestEffort: the bank that is not displayed; without PLXD the bank the   *)
(* caller prefers.                                                         *)
BestBanks == IF plxd = Absent THEN Banks ELSE {FreeBank}

ChooseBest ==
  /\ arm.pc = "choose" /\ arm.policy = "best"
  /\ \E b \in BestBanks : arm' = [arm EXCEPT !.pc = "copy", !.bank = b]
  /\ mixed' = TRUE
  /\ UNCHANGED <<kickMode, strict, seq, bell, fs, plxd, writes>>

(* beginDdrBankIngest: the decoder's output is read into the same bank. *)
BeginIngest ==
  /\ arm.pc = "choose" /\ arm.policy = "ingest"
  /\ \E b \in BestBanks : arm' = [arm EXCEPT !.pc = "ingest", !.bank = b]
  /\ mixed' = TRUE
  /\ UNCHANGED <<kickMode, strict, seq, bell, fs, plxd, writes>>

(* commitDdrBankIngest: kicked, or abandoned by a short read or a failed   *)
(* cache clean.                                                            *)
CommitIngest ==
  /\ arm.pc = "ingest"
  /\ arm' = ArmIdle \/ arm' = [arm EXCEPT !.pc = "kick"]
  /\ UNCHANGED <<kickMode, strict, seq, bell, fs, plxd, writes, mixed>>

(* The payload is in the bank; a failed cache clean abandons the frame.    *)
Copied ==
  /\ arm.pc = "copy"
  /\ \/ arm' = ArmIdle /\ UNCHANGED strict
     \/ /\ arm' = [arm EXCEPT !.pc = "kick"]
        /\ strict' = IF arm.policy = "strict" THEN [strict EXCEPT !.pending = TRUE] ELSE strict
  /\ UNCHANGED <<kickMode, seq, bell, fs, plxd, writes, mixed>>

KickDoorbell ==
  /\ arm.pc = "kick" /\ kickMode \in {0, 1}
  /\ seq' = (seq + 1) % BellMod /\ bell' = [seq |-> seq', bank |-> arm.bank]
  /\ arm' = [arm EXCEPT !.pc = IF kickMode = 0 THEN "verify" ELSE "kicked", !.rung = TRUE]
  /\ UNCHANGED <<kickMode, strict, fs, plxd, writes, mixed>>

(* The first doorbell is verified over SPI: the core shows a frame or a    *)
(* pending swap.  It may not, or the SPI may not be had.                   *)
VerifyDoorbell ==
  /\ arm.pc = "verify"
  /\ \/ (fs.hasFrame \/ fs.pend) /\ kickMode' = 1 /\ arm' = [arm EXCEPT !.pc = "kicked"]
     \/ arm' = [arm EXCEPT !.pc = "spi"] /\ UNCHANGED kickMode
  /\ UNCHANGED <<strict, seq, bell, fs, plxd, writes, mixed>>

Unavailable == arm' = ArmIdle /\ kickMode' = -1

(* The core ignores the SPI edge while it has accepted no token.           *)
HaveSeq == fs.last # Absent

KickSpiForgives ==
  /\ (arm.pc = "kick" /\ kickMode = 2) \/ arm.pc = "spi"
  /\ \E edge, ok \in BOOLEAN :
       /\ ok => edge
       /\ fs' = IF edge /\ HaveSeq THEN Request(fs, arm.bank) ELSE fs
       /\ mixed' = (mixed \/ (edge /\ HaveSeq /\ arm.rung))
       /\ IF ok THEN IF kickMode # 0 THEN arm' = [arm EXCEPT !.pc = "kicked"] /\ UNCHANGED kickMode
                     ELSE \/ arm' = [arm EXCEPT !.pc = "kicked"] /\ kickMode' = 2
                          \/ Unavailable
          ELSE arm' = ArmIdle /\ UNCHANGED kickMode
  /\ UNCHANGED <<strict, seq, bell, plxd, writes>>

(* kickDdrSpi: three status writes; the rising edge is the request, if the *)
(* core takes it.  It may fail before the edge or, its last write, after.  *)
KickSpi ==
  /\ (arm.pc = "kick" /\ kickMode = 2) \/ arm.pc = "spi"
  /\ \E edge, ok \in BOOLEAN :
       /\ ok => edge
       /\ fs' = IF edge /\ HaveSeq THEN Request(fs, arm.bank) ELSE fs
       /\ mixed' = (mixed \/ (edge /\ HaveSeq /\ arm.rung))
       /\ IF ok THEN IF kickMode # 0 THEN arm' = [arm EXCEPT !.pc = "kicked"] /\ UNCHANGED kickMode
                     ELSE \/ arm' = [arm EXCEPT !.pc = "kicked"] /\ kickMode' = 2
                          \/ Unavailable
          ELSE IF arm.policy = "strict" THEN Unavailable
          ELSE arm' = ArmIdle /\ UNCHANGED kickMode
  /\ UNCHANGED <<strict, seq, bell, plxd, writes>>

(* noteWrite: the baseline is the sample taken before the copy. *)
NoteWrite ==
  /\ arm.pc = "kicked" /\ arm' = ArmIdle
  /\ strict' = IF arm.policy # "strict" THEN strict
               ELSE [valid |-> TRUE, pending |-> FALSE, count |-> arm.count]
  /\ UNCHANGED <<kickMode, seq, bell, fs, plxd, writes, mixed>>

ensureDdrMap == seq' = DoorbellSeq

(* setDdrFrameLayout, the open() of a new start, or a new daemon:          *)
(* everything is forgotten.                                                *)
Remap ==
  /\ arm.pc = "idle" /\ writes < MaxWrites /\ writes' = writes + 1
  /\ kickMode' = 0 /\ strict' = NoRelease
  /\ ensureDdrMap
  /\ mixed' = (mixed \/ ~Settled)
  /\ UNCHANGED <<arm, bell, fs, plxd>>

ArmStep == ChooseStrict \/ ChooseBest \/ BeginIngest \/ CommitIngest \/ Copied \/ KickDoorbell \/ VerifyDoorbell \/ KickSpi
           \/ NoteWrite

DdrNext == CoreStep \/ CoreReset \/ ArmStep \/ BeginSend \/ Remap

DdrSpec == DdrInit /\ [][DdrNext]_ddrVars

--------------------------------------------------------------------------------
(* The shape of the state of the sender, the doorbell and the frame store. *)
ArmType ==
  arm \in [pc : {"idle", "choose", "copy", "ingest", "kick", "verify", "spi", "kicked"},
           policy : Policies \cup {"none"}, bank : Banks, count : Counts, rung : BOOLEAN]
SenderType ==
  /\ kickMode \in {-1, 0, 1, 2} /\ seq \in 0..(BellMod - 1)
  /\ strict \in [valid : BOOLEAN, pending : BOOLEAN, count : Counts]
  /\ writes \in 0..MaxWrites /\ mixed \in BOOLEAN
WordType ==
  /\ bell \in {Absent} \cup BellWords /\ plxd \in {Absent} \cup PlxdWords
  /\ bell = Absent => fs.last = Absent
  /\ fs.recover => fs.primed /\ fs.last # Absent
StoreType ==
  fs \in [last : {Absent} \cup BellWords, primed : BOOLEAN, recover : BOOLEAN, req : BOOLEAN,
          reqBank : Banks, seen : BOOLEAN, pend : BOOLEAN, pendBank : Banks, disp : Banks,
          count : Counts, hasFrame : BOOLEAN]
DdrTypeOK == ArmType /\ SenderType /\ WordType /\ StoreType

(* The banks the core shows or has been asked to show. *)
Claimed == {fs.disp} \cup (IF fs.pend THEN {fs.pendBank} ELSE {})
           \cup (IF fs.req # fs.seen THEN {fs.reqBank} ELSE {})
           \cup (IF bell # fs.last \/ fs.recover THEN {bell.bank} ELSE {})

(* sendDdrFrame "never overwrite a bank while a prior frame is pending": a *)
(* strict write copies into a bank that the core neither shows nor has     *)
(* been asked to show, however late the PLXD word it decided on is -       *)
(* unless a request that no strict baseline accounts for (a best effort    *)
(* frame, a first kick sent both ways, a token from before a remap or a    *)
(* reset of the core) was still on its way.                                *)
NoTear == (arm.pc = "copy" /\ arm.policy = "strict" /\ ~mixed) => arm.bank \notin Claimed

(* sendDdrFrame "only reset/reprobe can recover from an unknown baseline": *)
(* a strict write that failed after its kick may have escaped leaves the   *)
(* path marked unavailable, so that the re-probe is bound to come.         *)
LockoutRecoverable == (arm.pc = "idle" /\ strict.pending) => kickMode = -1
================================================================================
