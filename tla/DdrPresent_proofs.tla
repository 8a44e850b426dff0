--------------------------- MODULE DdrPresent_proofs ---------------------------
(***************************************************************************)
(* Proofs about DdrPresent, for doorbell and swap counters of any width,   *)
(* any set of callers and any number of frames, remaps, restarts and       *)
(* resets of the core.                                                     *)
(*                                                                         *)
(* A strict write decides on a PLXD word that may be old.  What makes the  *)
(* decision safe is a relation between the baseline of the previous write, *)
(* the core's swap count and the count in PLXD: as long as PLXD repeats    *)
(* the baseline the request may be anywhere, and once PLXD shows another   *)
(* count the swap is done and the word is the whole truth.                 *)
(***************************************************************************)
EXTENDS DdrPresent, TLAPS

\* No request is on its way.
AtRest == bell = fs.last /\ ~fs.recover /\ fs.req = fs.seen /\ ~fs.pend

\* PLXD says what the core shows.
Truth == plxd = [disp |-> fs.disp, pend |-> FALSE, count |-> fs.count]

\* A request is in one place: in the doorbell, where it may be taken for a leftover at
\* first, between the clock domains, or pending.
OneRequest ==
  /\ (bell # fs.last \/ fs.recover) => fs.req = fs.seen /\ ~fs.pend
  /\ fs.req # fs.seen => ~fs.pend

\* A strict write whose baseline is b was kicked.
Outstanding(b) ==
  /\ plxd # Absent
  /\ \/ fs.count = b /\ plxd.count = b /\ OneRequest
     \/ fs.count # b /\ AtRest /\ (plxd.count = b \/ Truth)

\* What holds between two writes, and at each point of a write, while every request
\* on its way is one a strict baseline accounts for.
BetweenWrites ==
  (arm.pc \in {"idle", "choose"} /\ ~strict.pending) =>
    IF strict.valid THEN Outstanding(strict.count) ELSE AtRest /\ (plxd = Absent \/ Truth)
InWrite ==
  /\ arm.pc \notin {"idle", "choose"} => arm.policy = "strict" /\ arm.pc # "ingest"
  /\ arm.pc \in {"kick", "verify", "spi", "kicked"} => strict.pending
  /\ arm.pc \in {"copy", "kick"} => /\ AtRest /\ Truth /\ plxd # Absent
                                    /\ arm.bank = 1 - fs.disp /\ arm.count = fs.count
  /\ (arm.pc = "copy" /\ strict.valid) => strict.count # fs.count
  /\ arm.pc \in {"verify", "spi", "kicked"} => Outstanding(arm.count)
  /\ arm.pc \in {"verify", "spi"} => arm.rung
NothingSaid ==
  plxd = Absent => fs.count = 0 /\ AtRest /\ arm.pc \in {"idle", "choose"} /\ ~strict.valid
Unmixed == ~mixed => BetweenWrites /\ InWrite /\ NothingSaid

\* A write whose kick may have escaped is still under way, or has closed the path.
PendingKnown ==
  strict.pending => \/ arm.pc = "idle" /\ kickMode = -1
                    \/ arm.pc \in {"kick", "verify", "spi", "kicked"} /\ arm.policy = "strict"

DdrInv == DdrTypeOK /\ PendingKnown /\ Unmixed

FrameStores == [last : {Absent} \cup BellWords, primed : BOOLEAN, recover : BOOLEAN, req : BOOLEAN,
                reqBank : Banks, seen : BOOLEAN, pend : BOOLEAN, pendBank : Banks, disp : Banks,
                count : Counts, hasFrame : BOOLEAN]

--------------------------------------------------------------------------------
(* The steps of the core.                                                  *)

(* The next count is a count, and another one. *)
LEMMA NextCount ==
    ASSUME NEW c \in Counts
    PROVE  (c + 1) % CountMod \in Counts /\ (c + 1) % CountMod # c /\ 0 \in Counts
<1>1. CountMod \in Nat /\ CountMod > 1 /\ c \in Int /\ 0 <= c /\ c <= CountMod - 1
  BY DdrAssumption DEF Counts
<1>2. CASE c + 1 < CountMod
  <2>1. (c + 1) % CountMod = c + 1
    BY <1>1, <1>2
  <2> QED
    BY <1>1, <1>2, <2>1 DEF Counts
<1>3. CASE c + 1 = CountMod
  <2>1. (c + 1) % CountMod = 0
    BY <1>1, <1>3
  <2> QED
    BY <1>1, <1>3, <2>1 DEF Counts
<1> QED
  BY <1>1, <1>2, <1>3

(* What a step of the core may change. *)
LEMMA CoreFrame ==
    ASSUME CoreStep
    PROVE  UNCHANGED <<arm, kickMode, strict, seq, bell, writes, mixed>>
BY DEF CoreStep, PollDoorbell, SyncRequest, Vsync, Publish

(* A poll: the first behind a reset only primes, a later one that finds    *)
(* another token, or the same one after all, makes the request.            *)
LEMMA Polled ==
    ASSUME DdrTypeOK, PollDoorbell
    PROVE  /\ fs' \in FrameStores /\ fs'.last = bell /\ fs'.primed /\ fs'.seen = fs.seen /\ fs'.pend = fs.pend
           /\ fs'.pendBank = fs.pendBank /\ fs'.disp = fs.disp /\ fs'.count = fs.count
           /\ fs'.hasFrame = fs.hasFrame /\ fs'.recover => bell # Absent
           /\ IF fs.primed THEN ~fs'.recover ELSE fs'.req = fs.req /\ (fs'.recover => bell # fs.last)
           /\ UNCHANGED <<bell, plxd>>
<1> DEFINE heard == [fs EXCEPT !.last = bell, !.primed = TRUE, !.recover = ~fs.primed /\ bell # fs.last]
<1>1. /\ fs \in FrameStores /\ bell \in {Absent} \cup BellWords /\ (bell = Absent => fs.last = Absent)
      /\ (fs.recover => fs.last # Absent)
  BY DEF DdrTypeOK, StoreType, WordType, FrameStores
<1>2. /\ heard \in FrameStores /\ heard.last = bell /\ heard.primed /\ heard.seen = fs.seen
      /\ heard.pend = fs.pend /\ heard.pendBank = fs.pendBank /\ heard.disp = fs.disp
      /\ heard.count = fs.count /\ heard.hasFrame = fs.hasFrame /\ heard.req = fs.req
      /\ heard.recover = (~fs.primed /\ bell # fs.last)
  <2>1. (~fs.primed /\ bell # fs.last) \in BOOLEAN
    OBVIOUS
  <2> QED
    BY <1>1, <2>1 DEF FrameStores
<1>3. fs' = IF fs.primed THEN Request(heard, bell.bank) ELSE heard
  BY DEF PollDoorbell
<1>4. UNCHANGED <<bell, plxd>> /\ (bell # fs.last \/ ~fs.primed \/ fs.recover)
  BY DEF PollDoorbell
<1> HIDE DEF heard
<1>5. CASE fs.primed
  <2>1. bell \in BellWords /\ bell.bank \in Banks /\ (~heard.seen) \in BOOLEAN
    BY <1>1, <1>4, <1>5 DEF BellWords
  <2> QED
    BY <1>2, <1>3, <1>4, <1>5, <2>1 DEF Request, FrameStores
<1>6. CASE ~fs.primed
  BY <1>1, <1>2, <1>3, <1>4, <1>6
<1> QED
  BY <1>5, <1>6

LEMMA CoreType ==
    ASSUME DdrTypeOK, CoreStep
    PROVE  DdrTypeOK'
<1>1. fs \in FrameStores /\ bell \in {Absent} \cup BellWords /\ (bell = Absent => fs.last = Absent)
      /\ plxd \in {Absent} \cup PlxdWords /\ (fs.recover => fs.primed /\ fs.last # Absent)
  BY DEF DdrTypeOK, StoreType, WordType, FrameStores
<1>2. fs' \in FrameStores /\ (bell = Absent => fs'.last = Absent) /\ plxd' \in {Absent} \cup PlxdWords
      /\ (fs'.recover => fs'.primed /\ fs'.last # Absent)
  <2>1. CASE PollDoorbell
    BY <1>1, <2>1, Polled
  <2>2. CASE SyncRequest
    BY <1>1, <2>2 DEF SyncRequest, TakeRequest, FrameStores
  <2>3. CASE Vsync
    <3> DEFINE g == [fs EXCEPT !.disp = fs.pendBank, !.pend = FALSE, !.hasFrame = TRUE,
                               !.count = (@ + 1) % CountMod]
    <3>1. (fs.count + 1) % CountMod \in Counts
      BY <1>1, NextCount DEF FrameStores
    <3>2. g \in FrameStores /\ g.last = fs.last /\ g.primed = fs.primed /\ g.recover = fs.recover
      BY <1>1, <3>1 DEF FrameStores
    <3>3. (fs' = g \/ fs' = TakeRequest(g)) /\ plxd' = plxd
      BY <2>3 DEF Vsync
    <3> HIDE DEF g
    <3> QED
      BY <1>1, <3>2, <3>3 DEF TakeRequest, FrameStores
  <2>4. CASE Publish
    <3>1. PICK c \in {fs.count, IF plxd = Absent THEN 0 ELSE plxd.count} :
            plxd' = [disp |-> fs.disp, pend |-> fs.pend, count |-> c]
      BY <2>4 DEF Publish
    <3>2. c \in Counts
      <4>1. 0 \in Counts /\ fs.count \in Counts
        BY <1>1, NextCount DEF FrameStores
      <4> QED
        BY <1>1, <4>1 DEF PlxdWords
    <3>3. plxd' \in PlxdWords
      BY <1>1, <3>1, <3>2 DEF PlxdWords, FrameStores
    <3> QED
      BY <1>1, <2>4, <3>3 DEF Publish
  <2> QED
    BY <2>1, <2>2, <2>3, <2>4 DEF CoreStep
<1> QED
  BY <1>1, <1>2, CoreFrame DEF DdrTypeOK, ArmType, SenderType, WordType, StoreType, FrameStores

(* With no request on its way the core only repeats the truth. *)
LEMMA CoreAtRest ==
    ASSUME DdrTypeOK, CoreStep, AtRest
    PROVE  /\ AtRest' /\ fs'.disp = fs.disp /\ fs'.count = fs.count
           /\ Truth => Truth'
           /\ plxd = Absent /\ fs.count = 0 => plxd' = Absent \/ Truth'
           /\ plxd # Absent => plxd' # Absent
           /\ plxd # Absent => plxd'.count = plxd.count \/ Truth'
<1>1. CASE PollDoorbell
  <2>1. bell = fs.last /\ ~fs.recover /\ ~fs.primed /\ fs.req = fs.seen /\ ~fs.pend
    BY <1>1 DEF PollDoorbell, AtRest
  <2>2. /\ fs'.last = bell /\ fs'.seen = fs.seen /\ fs'.pend = fs.pend /\ fs'.disp = fs.disp
        /\ fs'.req = fs.req /\ fs'.count = fs.count /\ ~fs'.recover /\ UNCHANGED <<bell, plxd>>
    BY <1>1, <2>1, Polled
  <2> QED
    BY <2>1, <2>2 DEF AtRest, Truth
<1>2. CASE Publish
  <2>1. PICK c \in {fs.count, IF plxd = Absent THEN 0 ELSE plxd.count} :
          plxd' = [disp |-> fs.disp, pend |-> fs.pend, count |-> c]
    BY <1>2 DEF Publish
  <2>2. fs' = fs /\ bell' = bell /\ fs.pend = FALSE
    BY <1>2 DEF Publish, AtRest, DdrTypeOK, StoreType
  <2>3. plxd'.count = c /\ plxd' = [disp |-> fs.disp, pend |-> FALSE, count |-> c]
    BY <2>1, <2>2
  <2>4. plxd' # Absent
    <3>1. 0 \in Counts /\ fs.count \in Counts /\ fs.disp \in Banks
      BY NextCount DEF DdrTypeOK, StoreType
    <3>2. c \in Counts
      BY <3>1 DEF DdrTypeOK, WordType, PlxdWords
    <3>3. plxd' \in PlxdWords
      BY <2>3, <3>1, <3>2 DEF PlxdWords
    <3> QED
      BY <3>3, AbsentAssumption
  <2>5. AtRest' /\ (c = fs.count => Truth')
    BY <2>2, <2>3 DEF AtRest, Truth
  <2>6. Truth => plxd.count = fs.count /\ plxd # Absent
    <3>1. fs.disp \in Banks /\ fs.count \in Counts
      BY DEF DdrTypeOK, StoreType
    <3>2. [disp |-> fs.disp, pend |-> FALSE, count |-> fs.count] \in PlxdWords
      BY <3>1 DEF PlxdWords
    <3>3. ASSUME Truth PROVE plxd.count = fs.count /\ plxd \in PlxdWords
      BY <3>2, <3>3 DEF Truth
    <3> QED
      BY <3>3, AbsentAssumption
  <2>7. (plxd = Absent => c \in {fs.count, 0}) /\ (plxd # Absent => c \in {fs.count, plxd.count})
    BY <2>1
  <2> QED
    BY <2>2, <2>3, <2>4, <2>5, <2>6, <2>7
<1> QED
  BY <1>1, <1>2 DEF CoreStep, SyncRequest, Vsync, AtRest

(* A kicked write moves on, and PLXD shows a new count only once it is     *)
(* swapped in.                                                             *)
LEMMA CoreOutstanding ==
    ASSUME DdrTypeOK, CoreStep, NEW b, Outstanding(b)
    PROVE  Outstanding(b)'
<1>0. /\ fs \in FrameStores /\ fs.count \in Counts /\ bell' = bell
  BY CoreFrame DEF DdrTypeOK, StoreType, FrameStores
<1>1. CASE fs.count # b /\ AtRest /\ (plxd.count = b \/ Truth)
  <2>1. plxd # Absent
    BY DEF Outstanding
  <2>2. AtRest' /\ fs'.count = fs.count /\ plxd' # Absent /\ (plxd'.count = b \/ Truth')
    BY <1>1, <2>1, CoreAtRest
  <2> QED
    BY <1>1, <2>2 DEF Outstanding
<1>2. CASE fs.count = b /\ plxd.count = b /\ OneRequest
  <2>1. CASE PollDoorbell
    <3>1. /\ fs'.last = bell /\ fs'.count = fs.count /\ fs'.pend = fs.pend /\ fs'.seen = fs.seen /\ plxd' = plxd
          /\ IF fs.primed THEN ~fs'.recover ELSE fs'.req = fs.req /\ (fs'.recover => bell # fs.last)
      BY <2>1, Polled
    <3>2. fs.primed => ~fs.pend
      BY <1>2, <2>1 DEF PollDoorbell, OneRequest
    <3> QED
      BY <1>0, <1>2, <3>1, <3>2 DEF Outstanding, OneRequest
  <2>2. CASE SyncRequest
    <3>1. /\ fs'.last = fs.last /\ fs'.count = fs.count /\ fs'.req = fs'.seen /\ plxd' = plxd /\ bell = fs.last
          /\ fs'.recover = fs.recover /\ ~fs.recover
      BY <1>0, <1>2, <2>2 DEF SyncRequest, TakeRequest, OneRequest, FrameStores
    <3> QED
      BY <1>0, <1>2, <3>1 DEF Outstanding, OneRequest
  <2>3. CASE Vsync
    <3>1. bell = fs.last /\ ~fs.recover /\ fs.req = fs.seen
      BY <1>2, <2>3 DEF Vsync, OneRequest
    <3>2. /\ fs' = [fs EXCEPT !.disp = fs.pendBank, !.pend = FALSE, !.hasFrame = TRUE,
                              !.count = (@ + 1) % CountMod]
          /\ plxd' = plxd
      BY <2>3, <3>1 DEF Vsync
    <3>3. fs'.count # b /\ fs'.last = fs.last /\ fs'.recover = fs.recover /\ fs'.req = fs.req /\ fs'.seen = fs.seen /\ fs'.pend = FALSE
      BY <1>0, <1>2, <3>2, NextCount DEF FrameStores
    <3> QED
      BY <1>0, <1>2, <3>1, <3>2, <3>3 DEF Outstanding, AtRest
  <2>4. CASE Publish
    <3>1. PICK c \in {fs.count, IF plxd = Absent THEN 0 ELSE plxd.count} :
            plxd' = [disp |-> fs.disp, pend |-> fs.pend, count |-> c]
      BY <2>4 DEF Publish
    <3>2. c = b /\ c \in Counts
      BY <1>0, <1>2, <3>1 DEF Outstanding
    <3>3. plxd' # Absent /\ plxd'.count = b
      BY <1>0, <3>1, <3>2, AbsentAssumption DEF PlxdWords, FrameStores
    <3> QED
      BY <1>0, <1>2, <2>4, <3>3 DEF Outstanding, OneRequest, Publish
  <2> QED
    BY <2>1, <2>2, <2>3, <2>4 DEF CoreStep
<1> QED
  BY <1>1, <1>2 DEF Outstanding

LEMMA CoreInv ==
    ASSUME DdrInv, CoreStep
    PROVE  DdrInv'
<1>1. DdrTypeOK' /\ UNCHANGED <<arm, kickMode, strict, mixed>>
  BY CoreType, CoreFrame DEF DdrInv
<1>2. PendingKnown'
  BY <1>1 DEF DdrInv, PendingKnown
<1>3. ASSUME ~mixed PROVE BetweenWrites' /\ InWrite' /\ NothingSaid'
  <2>1. BetweenWrites /\ InWrite /\ NothingSaid /\ DdrTypeOK
    BY <1>3 DEF DdrInv, Unmixed
  <2>2. BetweenWrites'
    <3>1. CASE arm.pc \in {"idle", "choose"} /\ ~strict.pending /\ strict.valid
      BY <1>1, <2>1, <3>1, CoreOutstanding DEF BetweenWrites
    <3>2. CASE arm.pc \in {"idle", "choose"} /\ ~strict.pending /\ ~strict.valid
      <4>1. AtRest /\ (plxd = Absent \/ Truth) /\ (plxd = Absent => fs.count = 0)
        BY <2>1, <3>2 DEF BetweenWrites, NothingSaid
      <4> QED
        BY <1>1, <2>1, <3>2, <4>1, CoreAtRest DEF BetweenWrites
    <3> QED
      BY <1>1, <3>1, <3>2 DEF BetweenWrites
  <2>3. InWrite'
    <3>1. arm.pc \in {"verify", "spi", "kicked"} => Outstanding(arm.count)'
      BY <1>1, <2>1, CoreOutstanding DEF InWrite
    <3>2. arm.pc \in {"copy", "kick"} => AtRest' /\ Truth' /\ plxd' # Absent
                                       /\ fs'.disp = fs.disp /\ fs'.count = fs.count
      BY <2>1, CoreAtRest DEF InWrite
    <3> QED
      BY <1>1, <2>1, <3>1, <3>2 DEF InWrite
  <2>4. NothingSaid'
    <3>1. CASE plxd = Absent
      BY <1>1, <2>1, <3>1, CoreAtRest DEF NothingSaid
    <3>2. CASE plxd # Absent
      <4>1. CASE Publish
        <5>1. PICK c \in {fs.count, plxd.count} : plxd' = [disp |-> fs.disp, pend |-> fs.pend, count |-> c]
          BY <3>2, <4>1 DEF Publish
        <5>2. plxd \in PlxdWords /\ fs.count \in Counts /\ fs.disp \in Banks /\ fs.pend \in BOOLEAN
          BY <2>1, <3>2 DEF DdrTypeOK, WordType, StoreType
        <5>3. plxd' \in PlxdWords
          BY <5>1, <5>2 DEF PlxdWords
        <5> QED
          BY <5>3, AbsentAssumption DEF NothingSaid
      <4>2. CASE ~Publish
        BY <3>2, <4>2 DEF CoreStep, PollDoorbell, SyncRequest, Vsync, NothingSaid
      <4> QED
        BY <4>1, <4>2
    <3> QED
      BY <3>1, <3>2
  <2> QED
    BY <2>2, <2>3, <2>4
<1> QED
  BY <1>1, <1>2, <1>3 DEF DdrInv, Unmixed

--------------------------------------------------------------------------------
(* The steps of the ARM.                                                   *)

Arms == [pc : {"idle", "choose", "copy", "ingest", "kick", "verify", "spi", "kicked"},
         policy : Policies \cup {"none"}, bank : Banks, count : Counts, rung : BOOLEAN]

(* A step that leaves the words and the frame store alone. *)
LEMMA SameWords ==
    ASSUME UNCHANGED <<fs, bell, plxd>>
    PROVE  /\ AtRest => AtRest'
           /\ Truth => Truth'
           /\ \A b : Outstanding(b) => Outstanding(b)'
BY DEF AtRest, Truth, Outstanding, OneRequest

LEMMA SameWordsType ==
    ASSUME DdrTypeOK, UNCHANGED <<fs, bell, plxd>>
    PROVE  WordType' /\ StoreType'
BY DEF DdrTypeOK, WordType, StoreType

LEMMA IdleType == ArmIdle \in Arms /\ NoRelease.count \in Counts /\ NoRelease = [valid |-> FALSE, pending |-> FALSE, count |-> 0]
                  /\ ArmIdle.pc = "idle" /\ 0 \in Counts
<1>1. 0 \in Counts
  BY DdrAssumption DEF Counts
<1> QED
  BY <1>1 DEF ArmIdle, Arms, Banks, NoRelease

(* A word that is settled is the truth. *)
LEMMA SettledTruth ==
    ASSUME Settled
    PROVE  AtRest /\ (plxd # Absent => Truth)
BY DEF Settled, AtRest, Truth

LEMMA BeginSendStep ==
    ASSUME DdrInv, BeginSend
    PROVE  DdrInv'
<1>0. /\ DdrTypeOK /\ arm \in Arms /\ arm.pc = "idle" /\ PendingKnown /\ UNCHANGED <<seq, bell, fs, plxd>>
      /\ (~mixed => BetweenWrites /\ InWrite /\ NothingSaid)
  BY DEF DdrInv, DdrTypeOK, ArmType, Arms, BeginSend, Unmixed
<1>1. writes' \in 0..MaxWrites
  <2>1. writes \in 0..MaxWrites /\ MaxWrites \in Nat /\ writes < MaxWrites /\ writes' = writes + 1
    BY <1>0, DdrAssumption DEF DdrTypeOK, SenderType, BeginSend
  <2> QED
    BY <2>1
<1>2. WordType' /\ StoreType'
  BY <1>0, SameWordsType
<1>3. PICK p \in Policies :
        \/ arm' = [ArmIdle EXCEPT !.pc = "choose", !.policy = p] /\ kickMode >= 0
           /\ UNCHANGED <<kickMode, strict, mixed>>
        \/ arm' = [ArmIdle EXCEPT !.pc = "choose", !.policy = p] /\ kickMode = -1
           /\ kickMode' = 0 /\ strict' = NoRelease /\ mixed' = (mixed \/ ~Settled)
        \/ kickMode = -1 /\ UNCHANGED <<arm, kickMode, strict, mixed>>
  BY DEF BeginSend
<1> DEFINE a == [ArmIdle EXCEPT !.pc = "choose", !.policy = p]
<1>4. a \in Arms /\ a.pc = "choose"
  BY IdleType DEF Arms
<1> HIDE DEF a
<1>5. CASE arm' = a /\ kickMode >= 0 /\ UNCHANGED <<kickMode, strict, mixed>>
  <2>1. DdrTypeOK'
    BY <1>0, <1>1, <1>2, <1>4, <1>5 DEF DdrTypeOK, ArmType, Arms, SenderType
  <2>2. PendingKnown' /\ ~strict.pending
    BY <1>0, <1>4, <1>5 DEF PendingKnown
  <2>3. ASSUME ~mixed PROVE BetweenWrites' /\ InWrite' /\ NothingSaid'
    <3>1. BetweenWrites'
      BY <1>0, <1>4, <1>5, <2>2, <2>3, SameWords DEF BetweenWrites
    <3>2. InWrite'
      BY <1>4, <1>5 DEF InWrite
    <3>3. NothingSaid'
      BY <1>0, <1>4, <1>5, <2>3, SameWords DEF NothingSaid
    <3> QED
      BY <3>1, <3>2, <3>3
  <2> QED
    BY <1>5, <2>1, <2>2, <2>3 DEF DdrInv, Unmixed
<1>6. CASE arm' = a /\ kickMode = -1 /\ kickMode' = 0 /\ strict' = NoRelease /\ mixed' = (mixed \/ ~Settled)
  <2>0. strict'.valid = FALSE /\ strict'.pending = FALSE /\ strict' \in [valid : BOOLEAN, pending : BOOLEAN, count : Counts]
    BY <1>6, IdleType
  <2>1. DdrTypeOK'
    BY <1>0, <1>1, <1>2, <1>4, <1>6, <2>0 DEF DdrTypeOK, ArmType, Arms, SenderType
  <2>2. PendingKnown'
    BY <2>0 DEF PendingKnown
  <2>3. ASSUME ~mixed' PROVE BetweenWrites' /\ InWrite' /\ NothingSaid'
    <3>0. ~mixed /\ AtRest /\ (plxd # Absent => Truth)
      BY <1>6, <2>3, SettledTruth
    <3>1. BetweenWrites'
      BY <1>0, <2>0, <3>0, SameWords DEF BetweenWrites
    <3>2. InWrite'
      BY <1>4, <1>6 DEF InWrite
    <3>3. NothingSaid'
      BY <1>0, <1>4, <1>6, <2>0, <3>0, SameWords DEF NothingSaid
    <3> QED
      BY <3>1, <3>2, <3>3
  <2> QED
    BY <2>1, <2>2, <2>3 DEF DdrInv, Unmixed
<1>7. CASE kickMode = -1 /\ UNCHANGED <<arm, kickMode, strict, mixed>>
  <2>1. DdrTypeOK'
    BY <1>0, <1>1, <1>2, <1>7 DEF DdrTypeOK, ArmType, SenderType
  <2>2. PendingKnown'
    BY <1>0, <1>7 DEF PendingKnown
  <2>3. ASSUME ~mixed PROVE BetweenWrites' /\ InWrite' /\ NothingSaid'
    BY <1>0, <1>7, <2>3, SameWords DEF BetweenWrites, InWrite, NothingSaid
  <2> QED
    BY <1>7, <2>1, <2>2, <2>3 DEF DdrInv, Unmixed
<1> QED
  BY <1>3, <1>5, <1>6, <1>7 DEF a

LEMMA RemapStep ==
    ASSUME DdrInv, Remap
    PROVE  DdrInv'
<1>0. /\ DdrTypeOK /\ arm.pc = "idle" /\ UNCHANGED <<arm, bell, fs, plxd>> /\ strict' = NoRelease
      /\ mixed' = (mixed \/ ~Settled) /\ (~mixed => NothingSaid) /\ kickMode' = 0
  BY DEF DdrInv, Remap, Unmixed
<1>1. writes' \in 0..MaxWrites
  <2>1. writes \in 0..MaxWrites /\ MaxWrites \in Nat /\ writes < MaxWrites /\ writes' = writes + 1
    BY <1>0, DdrAssumption DEF DdrTypeOK, SenderType, Remap
  <2> QED
    BY <2>1
<1>2. seq' \in 0..(BellMod - 1)
  <2>1. 0 \in 0..(BellMod - 1) /\ bell \in {Absent} \cup BellWords
    BY <1>0, DdrAssumption DEF DdrTypeOK, WordType
  <2> QED
    BY <2>1 DEF Remap, ensureDdrMap, DoorbellSeq, BellWords
<1>3. strict'.valid = FALSE /\ strict'.pending = FALSE /\ strict' \in [valid : BOOLEAN, pending : BOOLEAN, count : Counts]
  BY <1>0, IdleType
<1>4. DdrTypeOK'
  <2>1. WordType' /\ StoreType'
    BY <1>0, SameWordsType
  <2> QED
    BY <1>0, <1>1, <1>2, <1>3, <2>1 DEF DdrTypeOK, ArmType, SenderType
<1>5. ASSUME ~mixed' PROVE BetweenWrites' /\ InWrite' /\ NothingSaid'
  <2>1. ~mixed /\ AtRest /\ (plxd # Absent => Truth)
    BY <1>0, <1>5, SettledTruth
  <2> QED
    BY <1>0, <1>3, <2>1, SameWords DEF BetweenWrites, InWrite, NothingSaid
<1> QED
  BY <1>3, <1>4, <1>5 DEF DdrInv, Unmixed, PendingKnown

LEMMA ResetStep ==
    ASSUME DdrInv, CoreReset
    PROVE  DdrInv'
<1>0. /\ DdrTypeOK /\ PendingKnown /\ UNCHANGED <<arm, kickMode, strict, seq, bell, plxd>>
      /\ fs' = StoreReset /\ mixed' = TRUE
  BY DEF DdrInv, CoreReset
<1>1. writes' \in 0..MaxWrites
  <2>1. writes \in 0..MaxWrites /\ MaxWrites \in Nat /\ writes < MaxWrites /\ writes' = writes + 1
    BY <1>0, DdrAssumption DEF DdrTypeOK, SenderType, CoreReset
  <2> QED
    BY <2>1
<1>2. fs' \in FrameStores /\ fs'.last = Absent /\ ~fs'.recover
  BY <1>0, IdleType DEF StoreReset, FrameStores, Banks
<1>3. DdrTypeOK'
  BY <1>0, <1>1, <1>2 DEF DdrTypeOK, ArmType, SenderType, WordType, StoreType, FrameStores
<1> QED
  BY <1>0, <1>3 DEF DdrInv, PendingKnown, Unmixed

(* The decision: a strict write that finds a free bank acknowledged copies *)
(* into the bank that is not shown, with no request on its way.            *)
LEMMA ChooseStep ==
    ASSUME DdrInv, ChooseStrict
    PROVE  DdrInv'
<1>0. /\ DdrTypeOK /\ arm \in Arms /\ arm.pc = "choose" /\ arm.policy = "strict"
      /\ UNCHANGED <<kickMode, strict, seq, bell, fs, plxd, writes>> /\ mixed \in BOOLEAN
      /\ PendingKnown /\ (~mixed => BetweenWrites /\ InWrite /\ NothingSaid)
  BY DEF DdrInv, DdrTypeOK, ArmType, Arms, SenderType, ChooseStrict, Unmixed
<1>1. WordType' /\ StoreType'
  BY <1>0, SameWordsType
<1>2. ~strict.pending
  BY <1>0 DEF PendingKnown
<1>3. CASE /\ plxd # Absent /\ AnyFree /\ AcknowledgesPreviousWrite
           /\ arm' = [arm EXCEPT !.pc = "copy", !.bank = FreeBank, !.count = plxd.count]
           /\ mixed' = (mixed /\ ~Settled)
  <2>1. plxd \in PlxdWords /\ FreeBank \in Banks /\ plxd.count \in Counts
    BY <1>0, <1>3 DEF DdrTypeOK, WordType, PlxdWords, FreeBank, Banks
  <2>2. /\ arm' \in Arms /\ arm'.pc = "copy" /\ arm'.policy = "strict"
        /\ arm'.bank = FreeBank /\ arm'.count = plxd.count
    BY <1>0, <1>3, <2>1 DEF Arms
  <2>3. DdrTypeOK'
    BY <1>0, <1>1, <1>3, <2>2 DEF DdrTypeOK, ArmType, Arms, SenderType
  <2>4. PendingKnown'
    BY <1>0, <1>2 DEF PendingKnown
  <2>5. ASSUME ~mixed' PROVE AtRest /\ Truth
    <3>1. CASE Settled
      BY <1>3, <3>1, SettledTruth
    <3>2. CASE ~Settled
      <4>1. ~mixed /\ BetweenWrites
        BY <1>0, <1>3, <2>5, <3>2
      <4>2. CASE strict.valid
        BY <1>0, <1>2, <1>3, <4>1, <4>2 DEF BetweenWrites, Outstanding, AcknowledgesPreviousWrite
      <4>3. CASE ~strict.valid
        BY <1>0, <1>2, <1>3, <4>1, <4>3 DEF BetweenWrites
      <4> QED
        BY <4>2, <4>3
    <3> QED
      BY <3>1, <3>2
  <2>6. ASSUME ~mixed' PROVE BetweenWrites' /\ InWrite' /\ NothingSaid'
    <3>1. AtRest' /\ Truth' /\ Truth
      BY <1>0, <2>5, <2>6, SameWords
    <3>2. plxd.disp = fs.disp /\ plxd.count = fs.count
      BY <3>1 DEF Truth
    <3>3. BetweenWrites' /\ NothingSaid'
      BY <1>0, <1>3, <2>2 DEF BetweenWrites, NothingSaid
    <3>4. strict.valid => strict.count # fs.count
      BY <1>3, <3>2 DEF AcknowledgesPreviousWrite
    <3>5. InWrite'
      BY <1>0, <1>3, <2>2, <3>1, <3>2, <3>4 DEF InWrite, FreeBank
    <3> QED
      BY <3>3, <3>5
  <2> QED
    BY <2>3, <2>4, <2>6 DEF DdrInv, Unmixed
<1>4. CASE arm' = ArmIdle /\ mixed' = mixed
  <2>1. arm' \in Arms /\ arm'.pc = "idle"
    BY <1>4, IdleType
  <2>2. DdrTypeOK'
    BY <1>0, <1>1, <1>4, <2>1 DEF DdrTypeOK, ArmType, Arms, SenderType
  <2>3. ASSUME ~mixed PROVE BetweenWrites' /\ InWrite' /\ NothingSaid'
    BY <1>0, <1>2, <2>1, <2>3, SameWords DEF BetweenWrites, InWrite, NothingSaid
  <2> QED
    BY <1>0, <1>2, <1>4, <2>2, <2>3 DEF DdrInv, Unmixed, PendingKnown
<1> QED
  BY <1>3, <1>4 DEF ChooseStrict

LEMMA OtherChoiceStep ==
    ASSUME DdrInv, ChooseBest \/ BeginIngest
    PROVE  DdrInv'
<1>0. /\ DdrTypeOK /\ arm \in Arms /\ arm.pc = "choose" /\ PendingKnown /\ mixed' = TRUE
      /\ UNCHANGED <<kickMode, strict, seq, bell, fs, plxd, writes>>
  BY DEF DdrInv, DdrTypeOK, ArmType, Arms, ChooseBest, BeginIngest
<1>1. BestBanks \subseteq Banks
  BY <1>0 DEF BestBanks, DdrTypeOK, WordType, PlxdWords, FreeBank, Banks
<1>2. arm' \in Arms
  BY <1>0, <1>1 DEF ChooseBest, BeginIngest, Arms
<1>3. WordType' /\ StoreType'
  BY <1>0, SameWordsType
<1> QED
  BY <1>0, <1>2, <1>3 DEF DdrInv, DdrTypeOK, ArmType, Arms, SenderType, PendingKnown, Unmixed

LEMMA CommitStep ==
    ASSUME DdrInv, CommitIngest
    PROVE  DdrInv'
<1>0. /\ DdrTypeOK /\ arm \in Arms /\ arm.pc = "ingest" /\ PendingKnown /\ mixed /\ mixed' = mixed
      /\ UNCHANGED <<kickMode, strict, seq, bell, fs, plxd, writes>>
  BY DEF DdrInv, DdrTypeOK, ArmType, Arms, CommitIngest, Unmixed, InWrite
<1>1. arm' \in Arms
  BY <1>0, IdleType DEF CommitIngest, Arms
<1>2. WordType' /\ StoreType'
  BY <1>0, SameWordsType
<1> QED
  BY <1>0, <1>1, <1>2 DEF DdrInv, DdrTypeOK, ArmType, Arms, SenderType, PendingKnown, Unmixed

LEMMA CopiedStep ==
    ASSUME DdrInv, Copied
    PROVE  DdrInv'
<1>0. /\ DdrTypeOK /\ arm \in Arms /\ arm.pc = "copy" /\ PendingKnown /\ mixed' = mixed
      /\ UNCHANGED <<kickMode, seq, bell, fs, plxd, writes>> /\ (~mixed => InWrite)
      /\ strict \in [valid : BOOLEAN, pending : BOOLEAN, count : Counts]
  BY DEF DdrInv, DdrTypeOK, ArmType, Arms, SenderType, Copied, Unmixed
<1>1. WordType' /\ StoreType' /\ ~strict.pending
  BY <1>0, SameWordsType DEF PendingKnown
<1>2. CASE arm' = ArmIdle /\ strict' = strict
  <2>1. arm' \in Arms /\ arm'.pc = "idle"
    BY <1>2, IdleType
  <2>2. DdrTypeOK' /\ PendingKnown'
    BY <1>0, <1>1, <1>2, <2>1 DEF DdrTypeOK, ArmType, Arms, SenderType, PendingKnown
  <2>3. ASSUME ~mixed PROVE BetweenWrites' /\ InWrite' /\ NothingSaid'
    <3>1. AtRest /\ Truth /\ plxd # Absent /\ (strict.valid => strict.count # fs.count)
      BY <1>0, <2>3 DEF InWrite
    <3>2. strict.valid => Outstanding(strict.count)
      BY <3>1 DEF Outstanding
    <3> QED
      BY <1>0, <1>2, <2>1, <3>1, <3>2, SameWords DEF BetweenWrites, InWrite, NothingSaid
  <2> QED
    BY <1>0, <2>2, <2>3 DEF DdrInv, Unmixed
<1>3. CASE /\ arm' = [arm EXCEPT !.pc = "kick"]
           /\ strict' = IF arm.policy = "strict" THEN [strict EXCEPT !.pending = TRUE] ELSE strict
  <2>1. /\ arm' \in Arms /\ arm'.pc = "kick" /\ arm'.policy = arm.policy /\ arm'.bank = arm.bank
        /\ arm'.count = arm.count
    BY <1>0, <1>3 DEF Arms
  <2>2. /\ strict' \in [valid : BOOLEAN, pending : BOOLEAN, count : Counts]
        /\ arm.policy = "strict" => strict'.pending
        /\ arm.policy # "strict" => ~strict'.pending
    BY <1>0, <1>1, <1>3
  <2>3. DdrTypeOK'
    BY <1>0, <1>1, <2>1, <2>2 DEF DdrTypeOK, ArmType, Arms, SenderType
  <2>4. PendingKnown'
    BY <2>1, <2>2 DEF PendingKnown
  <2>5. ASSUME ~mixed PROVE BetweenWrites' /\ InWrite' /\ NothingSaid'
    <3>1. /\ AtRest /\ Truth /\ plxd # Absent /\ arm.policy = "strict"
          /\ arm.bank = 1 - fs.disp /\ arm.count = fs.count
      BY <1>0, <2>5 DEF InWrite
    <3>2. AtRest' /\ Truth'
      BY <1>0, <3>1, SameWords
    <3> QED
      BY <1>0, <2>1, <2>2, <3>1, <3>2 DEF BetweenWrites, InWrite, NothingSaid
  <2> QED
    BY <1>0, <2>3, <2>4, <2>5 DEF DdrInv, Unmixed
<1> QED
  BY <1>2, <1>3 DEF Copied

LEMMA DoorbellStep ==
    ASSUME DdrInv, KickDoorbell
    PROVE  DdrInv'
<1>0. /\ DdrTypeOK /\ arm \in Arms /\ arm.pc = "kick" /\ PendingKnown /\ mixed' = mixed
      /\ UNCHANGED <<kickMode, strict, fs, plxd, writes>> /\ (~mixed => InWrite)
  BY DEF DdrInv, DdrTypeOK, ArmType, Arms, KickDoorbell, Unmixed
<1>1. /\ arm' \in Arms /\ arm'.pc \in {"verify", "kicked"} /\ arm'.policy = arm.policy
      /\ arm'.count = arm.count /\ arm'.rung
  BY <1>0 DEF Arms, KickDoorbell
<1>2. seq' \in 0..(BellMod - 1)
  <2>1. BellMod \in Nat \ {0} /\ seq + 1 \in Int /\ seq' = (seq + 1) % BellMod
    BY <1>0, DdrAssumption DEF DdrTypeOK, SenderType, KickDoorbell
  <2> QED
    BY <2>1
<1>3. bell' \in BellWords /\ bell' # Absent
  <2>1. bell' = [seq |-> seq', bank |-> arm.bank] /\ arm.bank \in Banks
    BY <1>0 DEF KickDoorbell, Arms
  <2> QED
    BY <1>2, <2>1, AbsentAssumption DEF BellWords
<1>4. DdrTypeOK' /\ PendingKnown'
  BY <1>0, <1>1, <1>2, <1>3 DEF DdrTypeOK, ArmType, Arms, SenderType, WordType, StoreType, PendingKnown
<1>5. ASSUME ~mixed PROVE BetweenWrites' /\ InWrite' /\ NothingSaid'
  <2>1. AtRest /\ Truth /\ plxd # Absent /\ arm.count = fs.count /\ arm.policy = "strict" /\ strict.pending
    BY <1>0, <1>5 DEF InWrite
  <2>2. Outstanding(arm.count)'
    BY <1>0, <1>1, <2>1 DEF Outstanding, AtRest, Truth, OneRequest
  <2> QED
    BY <1>0, <1>1, <2>1, <2>2 DEF BetweenWrites, InWrite, NothingSaid
<1> QED
  BY <1>0, <1>4, <1>5 DEF DdrInv, Unmixed

LEMMA VerifyStep ==
    ASSUME DdrInv, VerifyDoorbell
    PROVE  DdrInv'
<1>0. /\ DdrTypeOK /\ arm \in Arms /\ arm.pc = "verify" /\ PendingKnown /\ mixed' = mixed
      /\ UNCHANGED <<strict, seq, bell, fs, plxd, writes>> /\ (~mixed => InWrite)
  BY DEF DdrInv, DdrTypeOK, ArmType, Arms, VerifyDoorbell, Unmixed
<1>1. /\ arm' \in Arms /\ arm'.pc \in {"spi", "kicked"} /\ arm'.policy = arm.policy
      /\ arm'.count = arm.count /\ arm'.rung = arm.rung
  BY <1>0 DEF Arms, VerifyDoorbell
<1>2. WordType' /\ StoreType'
  BY <1>0, SameWordsType
<1>3. DdrTypeOK' /\ PendingKnown'
  BY <1>0, <1>1, <1>2 DEF DdrTypeOK, ArmType, Arms, SenderType, PendingKnown, VerifyDoorbell
<1>4. ASSUME ~mixed PROVE BetweenWrites' /\ InWrite' /\ NothingSaid'
  <2>1. Outstanding(arm.count) /\ arm.policy = "strict" /\ strict.pending /\ arm.rung /\ plxd # Absent
    BY <1>0, <1>4 DEF InWrite, Outstanding
  <2> QED
    BY <1>0, <1>1, <2>1, SameWords DEF BetweenWrites, InWrite, NothingSaid
<1> QED
  BY <1>0, <1>3, <1>4 DEF DdrInv, Unmixed

LEMMA SpiStep ==
    ASSUME DdrInv, KickSpi
    PROVE  DdrInv'
<1>0. /\ DdrTypeOK /\ arm \in Arms /\ PendingKnown /\ ((arm.pc = "kick" /\ kickMode = 2) \/ arm.pc = "spi")
      /\ UNCHANGED <<strict, seq, bell, plxd, writes>> /\ (~mixed => InWrite) /\ fs \in FrameStores
      /\ mixed \in BOOLEAN /\ arm.rung \in BOOLEAN
  BY DEF DdrInv, DdrTypeOK, ArmType, Arms, StoreType, FrameStores, SenderType, KickSpi, Unmixed
<1>1. PICK edge \in BOOLEAN, ok \in BOOLEAN :
       /\ ok => edge
       /\ fs' = IF edge /\ HaveSeq THEN Request(fs, arm.bank) ELSE fs
       /\ mixed' = (mixed \/ (edge /\ HaveSeq /\ arm.rung))
       /\ IF ok THEN IF kickMode # 0 THEN arm' = [arm EXCEPT !.pc = "kicked"] /\ UNCHANGED kickMode
                     ELSE \/ arm' = [arm EXCEPT !.pc = "kicked"] /\ kickMode' = 2
                          \/ Unavailable
          ELSE IF arm.policy = "strict" THEN Unavailable
          ELSE arm' = ArmIdle /\ UNCHANGED kickMode
  BY DEF KickSpi
<1>2. /\ fs' \in FrameStores /\ fs'.last = fs.last /\ fs'.count = fs.count /\ fs'.pend = fs.pend
      /\ fs'.recover = fs.recover /\ fs'.primed = fs.primed
  <2>1. (~fs.seen) \in BOOLEAN /\ arm.bank \in Banks
    BY <1>0 DEF Arms
  <2> QED
    BY <1>0, <1>1, <2>1 DEF FrameStores, Request
<1>3. \/ arm' = [arm EXCEPT !.pc = "kicked"] /\ kickMode' \in {kickMode, 2} /\ edge
      \/ arm' = ArmIdle /\ kickMode' = -1
      \/ arm' = ArmIdle /\ kickMode' = kickMode /\ arm.policy # "strict"
  BY <1>1 DEF Unavailable
<1>4. /\ arm' \in Arms
      /\ \/ arm'.pc = "kicked" /\ arm'.policy = arm.policy /\ arm'.count = arm.count /\ edge
         \/ arm'.pc = "idle" /\ kickMode' = -1
         \/ arm'.pc = "idle" /\ kickMode' = kickMode /\ arm.policy # "strict"
  BY <1>0, <1>3, IdleType DEF Arms
<1>5. DdrTypeOK'
  <2>1. kickMode' \in {-1, 0, 1, 2}
    BY <1>0, <1>3 DEF DdrTypeOK, SenderType
  <2>2. mixed' \in BOOLEAN
    BY <1>1
  <2> QED
    BY <1>0, <1>2, <1>4, <2>1, <2>2
    DEF DdrTypeOK, ArmType, Arms, SenderType, WordType, StoreType, FrameStores
<1>6. PendingKnown'
  BY <1>0, <1>4 DEF PendingKnown
<1>7. ASSUME ~mixed' PROVE BetweenWrites' /\ InWrite' /\ NothingSaid'
  <2>1. ~mixed /\ ~(edge /\ HaveSeq /\ arm.rung) /\ InWrite
    BY <1>0, <1>1, <1>7
  <2>2. arm.policy = "strict" /\ strict.pending /\ plxd # Absent
    BY <1>0, <2>1 DEF InWrite, Outstanding
  <2>3. CASE arm'.pc = "idle"
    BY <1>0, <2>2, <2>3 DEF BetweenWrites, InWrite, NothingSaid
  <2>4. CASE arm'.pc = "kicked" /\ arm'.policy = arm.policy /\ arm'.count = arm.count /\ edge
    <3>1. Outstanding(arm.count)'
      <4>1. CASE ~HaveSeq /\ arm.pc = "spi"
        <5>1. Outstanding(arm.count) /\ UNCHANGED <<fs, bell, plxd>>
          BY <1>0, <1>1, <2>1, <4>1 DEF InWrite
        <5> QED
          BY <1>4, <2>4, <5>1 DEF Outstanding, OneRequest, AtRest, Truth
      <4>2. CASE arm.pc = "kick"
        <5>1. AtRest /\ Truth /\ arm.count = fs.count
          BY <2>1, <4>2 DEF InWrite
        <5> QED
          BY <1>0, <1>2, <2>2, <2>4, <5>1 DEF Outstanding, AtRest, Truth, OneRequest
      <4> QED
        BY <1>0, <2>1, <2>4, <4>1, <4>2 DEF InWrite
    <3> QED
      BY <1>0, <2>2, <2>4, <3>1 DEF BetweenWrites, InWrite, NothingSaid
  <2> QED
    BY <1>4, <2>3, <2>4
<1> QED
  BY <1>5, <1>6, <1>7 DEF DdrInv, Unmixed

LEMMA NoteStep ==
    ASSUME DdrInv, NoteWrite
    PROVE  DdrInv'
<1>0. /\ DdrTypeOK /\ arm \in Arms /\ arm.pc = "kicked" /\ PendingKnown /\ mixed' = mixed /\ arm' = ArmIdle
      /\ UNCHANGED <<kickMode, seq, bell, fs, plxd, writes>> /\ (~mixed => InWrite)
      /\ strict \in [valid : BOOLEAN, pending : BOOLEAN, count : Counts]
  BY DEF DdrInv, DdrTypeOK, ArmType, Arms, SenderType, NoteWrite, Unmixed
<1>1. WordType' /\ StoreType'
  BY <1>0, SameWordsType
<1>2. arm' \in Arms /\ arm'.pc = "idle"
  BY <1>0, IdleType
<1>3. /\ strict' \in [valid : BOOLEAN, pending : BOOLEAN, count : Counts] /\ ~strict'.pending
      /\ arm.policy = "strict" => strict'.valid /\ strict'.count = arm.count
  BY <1>0 DEF NoteWrite, PendingKnown, Arms
<1>4. DdrTypeOK' /\ PendingKnown'
  BY <1>0, <1>1, <1>2, <1>3 DEF DdrTypeOK, ArmType, Arms, SenderType, PendingKnown
<1>5. ASSUME ~mixed PROVE BetweenWrites' /\ InWrite' /\ NothingSaid'
  <2>1. Outstanding(arm.count) /\ arm.policy = "strict" /\ plxd # Absent
    BY <1>0, <1>5 DEF InWrite, Outstanding
  <2>2. Outstanding(strict.count)'
    BY <1>0, <1>3, <2>1 DEF Outstanding, OneRequest, AtRest, Truth
  <2> QED
    BY <1>0, <1>2, <1>3, <2>1, <2>2 DEF BetweenWrites, InWrite, NothingSaid
<1> QED
  BY <1>0, <1>4, <1>5 DEF DdrInv, Unmixed

--------------------------------------------------------------------------------
(* The invariant and the theorems.                                         *)

LEMMA DdrStart ==
    ASSUME DdrInit
    PROVE  DdrInv
<1>1. 0 \in Counts /\ 0 \in 0..(BellMod - 1) /\ 0 \in 0..MaxWrites /\ ArmIdle \in Arms /\ ArmIdle.pc = "idle"
  BY IdleType, DdrAssumption
<1>2. fs \in FrameStores /\ fs.last = Absent /\ ~fs.recover /\ fs.count = 0
  BY <1>1 DEF DdrInit, StoreReset, FrameStores, Banks
<1>3. seq \in 0..(BellMod - 1) /\ mixed \in BOOLEAN
  <2>1. bell \in {Absent} \cup BellWords /\ seq = IF bell = Absent THEN 0 ELSE bell.seq
    BY DEF DdrInit, DoorbellSeq
  <2> QED
    BY <1>1, <2>1 DEF BellWords, DdrInit, Settled
<1>4. DdrTypeOK
  BY <1>1, <1>2, <1>3
  DEF DdrInit, DdrTypeOK, ArmType, Arms, SenderType, WordType, StoreType, FrameStores, NoRelease
<1>5. ASSUME ~mixed PROVE AtRest /\ (plxd = Absent \/ Truth)
  BY <1>5, SettledTruth DEF DdrInit
<1> QED
  BY <1>1, <1>2, <1>4, <1>5 DEF DdrInit, DdrInv, PendingKnown, Unmixed, BetweenWrites, InWrite, NothingSaid, NoRelease

LEMMA DdrStep ==
    ASSUME DdrInv, [DdrNext]_ddrVars
    PROVE  DdrInv'
<1>1. CASE CoreStep
  BY <1>1, CoreInv
<1>2. CASE ArmStep
  BY <1>2, ChooseStep, OtherChoiceStep, CommitStep, CopiedStep, DoorbellStep, VerifyStep, SpiStep, NoteStep
  DEF ArmStep
<1>3. CASE BeginSend \/ Remap \/ CoreReset
  BY <1>3, BeginSendStep, RemapStep, ResetStep
<1>4. CASE UNCHANGED ddrVars
  <2>1. UNCHANGED <<arm, kickMode, strict, seq, bell, fs, plxd, writes, mixed>>
    BY <1>4 DEF ddrVars
  <2>2. DdrTypeOK' /\ PendingKnown'
    BY <2>1 DEF DdrInv, DdrTypeOK, ArmType, SenderType, WordType, StoreType, PendingKnown
  <2>3. Unmixed'
    BY <2>1, SameWords DEF DdrInv, Unmixed, BetweenWrites, InWrite, NothingSaid
  <2> QED
    BY <2>2, <2>3 DEF DdrInv
<1> QED
  BY <1>1, <1>2, <1>3, <1>4 DEF DdrNext

LEMMA DdrInvariant == DdrSpec => []DdrInv
<1>1. DdrInit => DdrInv
  BY DdrStart
<1>2. DdrInv /\ [DdrNext]_ddrVars => DdrInv'
  BY DdrStep
<1> QED
  BY <1>1, <1>2, PTL DEF DdrSpec

(* Every reachable state of the sender, the doorbell, PLXD and the frame   *)
(* store has the shape the code gives it; the core never finds the         *)
(* doorbell emptied again.                                                 *)
THEOREM DdrTypeCorrect == DdrSpec => []DdrTypeOK
<1>1. DdrInv => DdrTypeOK
  BY DEF DdrInv
<1> QED
  BY <1>1, DdrInvariant, PTL

(* A strict sendDdrFrame copies into a bank the core neither shows nor has *)
(* been asked to show, however old the PLXD word it decided on is and at   *)
(* whatever width the swap count wraps, unless a request no strict         *)
(* baseline accounts for was still on its way.                             *)
THEOREM StrictNeverTears == DdrSpec => []NoTear
<1>1. DdrInv => NoTear
  <2> SUFFICES ASSUME DdrInv, arm.pc = "copy", ~mixed PROVE arm.bank \notin Claimed
    BY DEF NoTear
  <2>1. AtRest /\ arm.bank = 1 - fs.disp /\ fs.disp \in {0, 1}
    BY DEF DdrInv, Unmixed, InWrite, DdrTypeOK, StoreType, Banks
  <2>2. Claimed = {fs.disp}
    BY <2>1 DEF AtRest, Claimed
  <2>3. arm.bank # fs.disp
    BY <2>1
  <2> QED
    BY <2>2, <2>3
<1> QED
  BY <1>1, DdrInvariant, PTL

(* Between two sends, a strict write whose kick may have escaped without   *)
(* its baseline being noted has left the path marked unavailable: the next *)
(* send is refused or probes afresh, and the probe forgets the lockout.    *)
THEOREM LockoutHasAnExit == DdrSpec => []LockoutRecoverable
<1>1. DdrInv => LockoutRecoverable
  BY DEF DdrInv, PendingKnown, LockoutRecoverable
<1> QED
  BY <1>1, DdrInvariant, PTL
================================================================================
