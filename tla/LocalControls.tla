----------------------------- MODULE LocalControls -----------------------------
(***************************************************************************)
(* The controls at the box: the keys and the OSD menu, which the core      *)
(* publishes into two mailboxes of HPS DDR and the daemon polls            *)
(* (arm/misterplexd/fpga_spi.cpp and media_player.cpp, libmisterplex/      *)
(* input_mailbox.hpp and osd_menu.hpp).                                    *)
(*                                                                         *)
(* DDR outlives both sides: a mailbox may hold the word of an earlier core *)
(* or of an earlier life of this one.  The 32 bits that change are read in *)
(* one load, so a poll sees a whole word.  Releasing the DDR map, which a  *)
(* change of layout or a restart does, forgets what was read.              *)
(***************************************************************************)
EXTENDS Integers, Sequences, FiniteSets

CONSTANTS
    Keys,        \* commands pressed: among PlayPause, Stop, SkipForward, SkipBack
    Bits,        \* bits of the OSD word that are toggled
    Glasses,     \* what the daemon found on the glass: among "L4", "True480"
    DurationMs, SkipForwardMs, SkipBackMs,
    WordMod, CmdMod,   \* the counters of a word: 2^16 and 2^8 in the core
    MaxPresses, MaxMenuTurns, MaxResets   \* bounds on presses, toggles, resets and remaps

ASSUME ControlsAssumption ==
    /\ Bits \subseteq 0..15 /\ {MaxPresses, MaxMenuTurns, MaxResets} \subseteq Nat
    /\ {DurationMs, SkipForwardMs, SkipBackMs} \subseteq Nat /\ DurationMs > 0
    /\ {WordMod, CmdMod} \subseteq Nat \ {0, 1}
    /\ Keys # {} /\ Glasses \subseteq {"L4", "True480"}

\* No word yet: a set that is no word of 16 bits.
Unset == {16}

VARIABLES
    box,       \* the input mailbox: valid, seq, cmdSeq, key, and the press and the life of the core it is of
    osdBox,    \* the status mailbox: valid, seq, word; fresh: written since the map was made
    panel,     \* the core: up, its life, its three counters, status[15:0]
    edge,      \* InputMailboxEdgeDetector: seen, sawEmpty, seq, cmdSeq; and the press and the life they are of
    eye,       \* mboxInit_, mboxAlive_, mboxSeq_
    menu,      \* the settings in force
    lastOsd, lastGot,   \* lastOsd_ (Unset before osdSeen_), and the last word read
    ignoring,  \* the 300 ms after an OSD change
    transport, \* playing_, paused_, positionMs_
    bank,      \* outW_ and outH_, as the tier they are
    glass,     \* liveGlass_
    made,      \* presses, toggles, and resets and remaps so far
    acted,     \* history: the presses that were dispatched
    unread,    \* history: the press no poll has seen, 0 for none
    dropped,   \* history: why polls did not take a press they saw
    told,      \* the content resolution onContentRes_ was last called with
    stale      \* history: a word from before the map was applied

controlVars == <<box, osdBox, panel, edge, eye, menu, lastOsd, lastGot, ignoring, transport, bank,
                 glass, told, made, acted, unread, dropped, stale>>

-----------------------------------------------------------------------------
(* The OSD word, as the set of its bits that are 1.                        *)

Bit(word, i) == IF i \in word THEN 1 ELSE 0

ContentOf(word) == LET n == Bit(word, 4) + 2 * Bit(word, 5) IN
                   CASE n = 0 -> "240p" [] n = 1 -> "480p" [] n \in {2, 3} -> "720p"
DisplayOf(word) == LET n == Bit(word, 14) + 2 * Bit(word, 15) IN
                   CASE n = 0 -> ContentOf(word) [] n = 1 -> "240p" [] n = 2 -> "480p" [] n = 3 -> "720p"
AvOffsetMs(index) == (IF index >= 8 THEN index - 16 ELSE index) * 20

decodeOsdWord(word) ==
    [content |-> ContentOf(word), display |-> DisplayOf(word), resync |-> 1 \notin word,
     trim |-> 3 \notin word,
     avOffsetMs |-> AvOffsetMs(Bit(word, 6) + 2 * Bit(word, 7) + 4 * Bit(word, 8) + 8 * Bit(word, 9))]

\* kOsdOwnedMask.
Owned == {1, 3, 4, 5, 6, 7, 8, 9, 14, 15}
osdChanged(a, b) == ((a \cup b) \ (a \cap b)) \cap Owned # {}

\* glassMax: a glass of 480 lines never gets a 720p bank.
glassMax(content) ==
    IF glass = "L4" THEN "720p" ELSE IF content = "720p" THEN "480p" ELSE content

-----------------------------------------------------------------------------
\* InputMailboxEdgeDetector::reset.
Unread == [seen |-> FALSE, sawEmpty |-> FALSE, seq |-> 0, cmdSeq |-> 0, press |-> 0, life |-> 0]

ControlsInit ==
    /\ box \in {[valid |-> v, seq |-> n, cmdSeq |-> n, key |-> k, press |-> 0, life |-> 0] :
                  v \in BOOLEAN, n \in {0, 1}, k \in {CHOOSE k \in Keys : TRUE}}
    /\ osdBox \in {[valid |-> v, seq |-> n, word |-> {4}, fresh |-> FALSE] : v \in BOOLEAN, n \in {0, 1}}
    /\ box.seq = osdBox.seq /\ box.valid = osdBox.valid
    /\ panel = [up |-> TRUE, life |-> 1, seq |-> 0, cmdSeq |-> 0, osdSeq |-> 0, word |-> {}]
    /\ edge = Unread
    /\ eye = [init |-> FALSE, alive |-> FALSE, seq |-> 0]
    /\ menu = Unset /\ lastOsd = Unset /\ lastGot = Unset /\ ignoring = FALSE
    /\ transport = [playing |-> TRUE, paused |-> FALSE, pos |-> 1]
    /\ glass \in Glasses /\ bank = glassMax("720p")
    /\ made = [press |-> 0, turn |-> 0, reset |-> 0]
    /\ acted = <<>> /\ unread = 0 /\ dropped = {} /\ stale = FALSE /\ told = "none"

DaemonKeeps == <<edge, eye, menu, lastOsd, lastGot, ignoring, transport, bank, glass, told>>

\* The core pops a command and publishes it; the word before it is overwritten.
Press(k) ==
    /\ panel.up /\ made.press < MaxPresses
    /\ made' = [made EXCEPT !.press = @ + 1]
    /\ panel' = [panel EXCEPT !.seq = (@ + 1) % WordMod, !.cmdSeq = (@ + 1) % CmdMod]
    /\ box' = [valid |-> TRUE, seq |-> (panel.seq + 1) % WordMod, cmdSeq |-> (panel.cmdSeq + 1) % CmdMod,
               key |-> k, press |-> made.press + 1, life |-> panel.life]
    /\ unread' = made.press + 1
    /\ UNCHANGED <<osdBox, DaemonKeeps, acted, dropped, stale>>

\* The user turns a menu item: Main writes the bit.
Turn(b) ==
    /\ panel.up /\ made.turn < MaxMenuTurns
    /\ made' = [made EXCEPT !.turn = @ + 1]
    /\ panel' = [panel EXCEPT !.word = (@ \cup {b}) \ (@ \cap {b})]
    /\ UNCHANGED <<box, osdBox, DaemonKeeps, acted, unread, dropped, stale>>

\* On a change and as a heartbeat: MaxPublishes bounds the heartbeats.
MaxPublishes == MaxMenuTurns + 1
Publishes ==
    /\ panel.up /\ panel.osdSeq < MaxPublishes
    /\ panel' = [panel EXCEPT !.osdSeq = @ + 1]
    /\ osdBox' = [valid |-> TRUE, seq |-> (panel.osdSeq + 1) % WordMod, word |-> panel.word, fresh |-> TRUE]
    /\ UNCHANGED <<box, DaemonKeeps, made, acted, unread, dropped, stale>>

\* Reset or unloaded: the counters start again, and DDR keeps both words.
CoreResets ==
    /\ made.reset < MaxResets
    /\ made' = [made EXCEPT !.reset = @ + 1]
    /\ \E up \in BOOLEAN :
         panel' = [panel EXCEPT !.up = up, !.life = @ + 1, !.seq = 0, !.cmdSeq = 0, !.osdSeq = 0]
    /\ UNCHANGED <<box, osdBox, DaemonKeeps, acted, unread, dropped, stale>>

releaseDdrMap ==
    /\ made.reset < MaxResets
    /\ made' = [made EXCEPT !.reset = @ + 1]
    /\ edge' = Unread
    /\ eye' = [init |-> FALSE, alive |-> FALSE, seq |-> eye.seq]
    /\ osdBox' = [osdBox EXCEPT !.fresh = FALSE]
    /\ UNCHANGED <<box, panel, menu, lastOsd, lastGot, ignoring, transport, bank, glass, told, acted, unread,
                   dropped, stale>>

IgnoreEnds ==
    /\ ignoring /\ ignoring' = FALSE
    /\ UNCHANGED <<box, osdBox, panel, edge, eye, menu, lastOsd, lastGot, transport, bank, glass, told, made,
                   acted, unread, dropped, stale>>

-----------------------------------------------------------------------------
(* Keys.                                                                   *)

Within(ms) == IF ms > DurationMs THEN DurationMs ELSE IF ms < 0 THEN 0 ELSE ms

\* mapPlaybackCommand and the call of the transport that follows.
Dispatched(t, key) ==
    CASE ~t.playing -> t
      [] t.playing /\ key = "PlayPause"   -> [t EXCEPT !.paused = ~@]
      [] t.playing /\ key = "Stop"        -> [t EXCEPT !.playing = FALSE, !.paused = FALSE, !.pos = 0]
      [] t.playing /\ key = "SkipForward" -> [t EXCEPT !.pos = Within(@ + SkipForwardMs)]
      [] t.playing /\ key = "SkipBack"    -> [t EXCEPT !.pos = Within(@ - SkipBackMs)]
      [] OTHER -> t

AcceptsAtFirstSight(sample) ==
    IF edge.seen THEN sample.seq # edge.seq /\ sample.cmdSeq # edge.cmdSeq ELSE TRUE
Accepts(sample) ==
    IF edge.seen THEN sample.seq # edge.seq /\ sample.cmdSeq # edge.cmdSeq ELSE edge.sawEmpty

\* Why a press that was in the box was not taken: the detector was seeded with
\* it, its counters are those of a word an earlier life of the core wrote, or so
\* many presses came between two polls that a counter went all the way round.
Reason == CASE ~edge.seen -> "seed"
            [] edge.seen /\ edge.life # box.life -> "counters"
            [] OTHER -> IF \E m \in {WordMod, CmdMod} : box.press - edge.press >= m THEN "round" ELSE "none"

readInputMailbox ==
    /\ IF ~box.valid
       THEN /\ edge' = [edge EXCEPT !.sawEmpty = @ \/ ~edge.seen]
            /\ UNCHANGED <<transport, acted, dropped>>
       ELSE /\ edge' = [edge EXCEPT !.seen = TRUE, !.seq = box.seq, !.cmdSeq = box.cmdSeq,
                                !.press = box.press, !.life = box.life]
            /\ IF Accepts(box)
               THEN IF ignoring THEN UNCHANGED <<transport, acted, dropped>>
                    ELSE /\ transport' = Dispatched(transport, box.key)
                         /\ acted' = Append(acted, box.press) /\ UNCHANGED dropped
               ELSE /\ dropped' = IF unread # 0 THEN dropped \cup {Reason} ELSE dropped
                    /\ UNCHANGED <<transport, acted>>
    /\ unread' = 0
    /\ UNCHANGED <<box, osdBox, panel, eye, menu, lastOsd, lastGot, ignoring, bank, glass, told, made, stale>>

-----------------------------------------------------------------------------
(* The OSD.                                                                *)

\* readOsdMailbox: the first sight proves nothing, the counter has to move, and
\* two seconds without a move end it.
Seen(timeout) ==
    IF ~eye.init THEN [init |-> TRUE, alive |-> FALSE, seq |-> osdBox.seq]
    ELSE [init |-> TRUE, alive |-> osdBox.seq # eye.seq \/ (eye.alive /\ ~timeout), seq |-> osdBox.seq]

\* The first word only seeds the resolution a change is measured against.
applyOsd(word) ==
    /\ menu' = decodeOsdWord(word)
    /\ told' = IF lastOsd # Unset /\ menu.content # ContentOf(word) THEN ContentOf(word) ELSE told
    /\ bank' = glassMax(ContentOf(word))
    /\ ignoring' = TRUE

OsdGot(word, viaMailbox) ==
    /\ lastGot' = word
    /\ IF lastOsd = Unset \/ osdChanged(lastOsd, word)
       THEN lastOsd' = word /\ applyOsd(word) /\ stale' = (stale \/ (viaMailbox /\ ~osdBox.fresh))
       ELSE UNCHANGED <<lastOsd, menu, bank, ignoring, told, stale>>

\* The mailbox, or UIO_GET_STATUS when the mailbox is not to be had.
pollOsd ==
    /\ \E timeout \in BOOLEAN :
         LET now == Seen(timeout) IN
         /\ timeout => ~panel.up
         /\ eye' = IF osdBox.valid THEN now ELSE eye
         /\ \/ osdBox.valid /\ now.alive /\ OsdGot(osdBox.word, TRUE)
            \/ ~(osdBox.valid /\ now.alive) /\ panel.up /\ OsdGot(panel.word, FALSE)
            \/ ~(osdBox.valid /\ now.alive) /\ UNCHANGED <<lastOsd, lastGot, menu, bank, ignoring, told, stale>>
    /\ UNCHANGED <<box, osdBox, panel, edge, transport, glass, made, acted, unread, dropped>>

ControlsNext ==
    \/ \E k \in Keys : Press(k)
    \/ \E b \in Bits : Turn(b)
    \/ Publishes \/ CoreResets \/ releaseDdrMap \/ IgnoreEnds \/ readInputMailbox \/ pollOsd

ControlsSpec == ControlsInit /\ [][ControlsNext]_controlVars

-----------------------------------------------------------------------------
\* Counters, flags and settings are in their ranges.
ControlsTypeOK ==
    /\ box.press \in 0..MaxPresses /\ unread \in 0..MaxPresses /\ box.key \in Keys
    /\ panel.word \subseteq Bits /\ bank \in {"240p", "480p", "720p"}
    /\ transport \in [playing : BOOLEAN, paused : BOOLEAN, pos : 0..DurationMs]
    /\ {ignoring, stale, eye.init, eye.alive, edge.seen, edge.sawEmpty} \subseteq BOOLEAN

\* A key acts at most once and in the order of the presses, whatever the mailbox
\* held before, and a press that a poll finds in the mailbox acts unless the
\* detector was seeded with it, it is the first of a new life of the core whose
\* counters happen to be those last read, as many presses as a counter counts came
\* since the last poll, or the OSD is in use.
PressesAct ==
    /\ \A i \in 1..Len(acted) : acted[i] > 0 /\ (i > 1 => acted[i] > acted[i - 1])
    /\ dropped \subseteq {"seed", "counters", "round"}

\* The settings in force are those of the last OSD word the daemon read, so the
\* mask hides no bit the decoder looks at; no word from before the DDR map was
\* made is taken for the menu; main knows of every change of the content
\* resolution; and the bank fits the glass.
OsdFollowed ==
    /\ lastGot # Unset => menu = decodeOsdWord(lastGot) /\ bank = glassMax(menu.content)
    /\ ~stale /\ told \in {"none"} \cup (IF lastGot # Unset THEN {menu.content} ELSE {})
    /\ glass = "True480" => bank # "720p"

\* What the user does at the box is what the daemon does.
ControlsFollowed == PressesAct /\ OsdFollowed
================================================================================
