------------------------------ MODULE Fabric_proofs ------------------------------
(***************************************************************************)
(* Theorems about the parts of MCFabric that have no proof module of their *)
(* own: the keys and the menu of the box (LocalControls), the cast from    *)
(* its key to an acknowledged aspect (CastResolve) and the cutting of the  *)
(* stream (NalStream); and about all six parts in one run.                 *)
(***************************************************************************)
EXTENDS MCFabric, SpiWindow_proofs, DdrPresent_proofs, BitstreamRing_proofs, FiniteSetTheorems,
        WellFoundedInduction

------------------------------------------------------------------------------
(* Keys and menu.                                                           *)

\* The shapes of the records.
Words16 == SUBSET (0..15)
Tiers == {"240p", "480p", "720p"}

KeyShapes ==
    /\ panel \in [up : BOOLEAN, life : Nat, seq : 0..(WordMod - 1), cmdSeq : 0..(CmdMod - 1),
                  osdSeq : Nat, word : SUBSET Bits]
    /\ box \in [valid : BOOLEAN, seq : 0..(WordMod - 1), cmdSeq : 0..(CmdMod - 1), key : Keys,
                press : Nat, life : Nat]
    /\ edge \in [seen : BOOLEAN, sawEmpty : BOOLEAN, seq : 0..(WordMod - 1),
                 cmdSeq : 0..(CmdMod - 1), press : Nat, life : Nat]
    /\ made \in [press : Nat, turn : Nat, reset : Nat]
    /\ transport \in [playing : BOOLEAN, paused : BOOLEAN, pos : 0..DurationMs]
MenuShapes ==
    /\ osdBox \in [valid : BOOLEAN, seq : Nat, word : Words16, fresh : BOOLEAN]
    /\ eye \in [init : BOOLEAN, alive : BOOLEAN, seq : Nat]
    /\ {ignoring, stale} \subseteq BOOLEAN /\ bank \in Tiers /\ glass \in Glasses
    /\ lastOsd \in Words16 \cup {Unset} /\ lastGot \in Words16 \cup {Unset}

\* The word in the input mailbox is that of the last press; what is still unread
\* came after the word the detector read last; and a word of the life the detector
\* counts in is as many counts ahead of it as there were presses in between.
Ahead(n, k, mod) == (n + k) % mod

BoxCounts ==
    /\ edge.press <= box.press /\ box.press = made.press /\ made.press <= MaxPresses
    /\ edge.life <= box.life /\ box.life <= panel.life
    /\ box.life = panel.life => panel.seq = box.seq /\ panel.cmdSeq = box.cmdSeq
    /\ edge.seen /\ edge.life = box.life
         => /\ box.seq = Ahead(edge.seq, box.press - edge.press, WordMod)
            /\ box.cmdSeq = Ahead(edge.cmdSeq, box.press - edge.press, CmdMod)
    /\ unread # 0 => unread = box.press /\ edge.press < box.press

\* The presses that acted are in order; the word that is in the mailbox is not taken
\* again once it has acted, and never if it is of no press of this run; a detector
\* that saw an empty mailbox saw it before the first press.
WordTaken == box.press = 0 \/ \E i \in 1..Len(acted) : acted[i] = box.press

BoxOrder ==
    /\ acted \in Seq(Nat)
    /\ \A i \in 1..Len(acted) :
         acted[i] > 0 /\ acted[i] <= box.press /\ (i > 1 => acted[i] > acted[i - 1])
    /\ ~box.valid => box.press = 0
    /\ edge.sawEmpty /\ ~edge.seen => acted = <<>>
    /\ box.valid /\ WordTaken => ~Accepts(box)
    /\ dropped \subseteq {"seed", "counters", "round"}

\* The menu is that of the word last applied and, since the mask covers every bit the
\* decoder looks at, of the word last read; a word that was in the status mailbox
\* before the map was made has not moved since.
MenuFollows ==
    /\ lastOsd = Unset <=> lastGot = Unset
    /\ lastOsd = Unset => told = "none"
    /\ lastOsd # Unset
         => /\ menu = decodeOsdWord(lastOsd) /\ menu = decodeOsdWord(lastGot)
            /\ bank = glassMax(menu.content) /\ told \in {"none", menu.content}
    /\ ~stale /\ (glass = "True480" => bank # "720p")
    /\ eye.init /\ ~osdBox.fresh => eye.seq = osdBox.seq /\ ~eye.alive

ControlsInv == KeyShapes /\ MenuShapes /\ BoxCounts /\ BoxOrder /\ MenuFollows

\* One more press is one more count, at any width of the counter.
LEMMA AheadStep ==
    ASSUME NEW mod \in Nat \ {0}, NEW n \in 0..(mod - 1), NEW k \in Nat
    PROVE  (Ahead(n, k, mod) + 1) % mod = Ahead(n, k + 1, mod)
<1> DEFINE m == (n + k) % mod
           p == (n + k) \div mod
           r == (m + 1) % mod
           q == (m + 1) \div mod
<1>1. m \in 0..(mod - 1) /\ n + k = mod * p + m /\ p \in Int
  <2>1. n + k \in Int
    OBVIOUS
  <2> QED
    BY <2>1, ModRange
<1>2. r \in 0..(mod - 1) /\ m + 1 = mod * q + r /\ q \in Int
  <2>1. m + 1 \in Int
    BY <1>1
  <2> QED
    BY <2>1, ModRange
<1> HIDE DEF m, p, r, q
<1>3. n + (k + 1) = mod * (p + q) + r /\ p + q \in Int
  <2>1. mod * (p + q) = mod * p + mod * q
    BY <1>1, <1>2
  <2> QED
    BY <1>1, <1>2, <2>1
<1>4. (mod * (p + q) + r) % mod = r
  BY <1>2, <1>3, ModUnique
<1> QED
  BY <1>3, <1>4 DEF Ahead, m, r

\* A counter does not come back to where it was before it has gone all the way round.
LEMMA AheadDiffers ==
    ASSUME NEW mod \in Nat \ {0}, NEW n \in 0..(mod - 1), NEW k \in Nat, 0 < k, k < mod
    PROVE  Ahead(n, k, mod) # n
<1>1. CASE n + k < mod
  <2>1. (mod * 0 + (n + k)) % mod = n + k
    <3>1. n + k \in 0..(mod - 1) /\ 0 \in Int
      BY <1>1
    <3> QED
      BY <3>1, ModUnique
  <2>2. mod * 0 + (n + k) = n + k
    OBVIOUS
  <2> QED
    BY <2>1, <2>2 DEF Ahead
<1>2. CASE n + k >= mod
  <2>1. (mod * 1 + (n + k - mod)) % mod = n + k - mod
    <3>1. n + k - mod \in 0..(mod - 1) /\ 1 \in Int
      BY <1>2
    <3> QED
      BY <3>1, ModUnique
  <2>2. mod * 1 + (n + k - mod) = n + k
    OBVIOUS
  <2> QED
    BY <2>1, <2>2 DEF Ahead
<1> QED
  BY <1>1, <1>2

LEMMA AheadNone ==
    ASSUME NEW mod \in Nat \ {0}, NEW n \in 0..(mod - 1)
    PROVE  Ahead(n, 0, mod) = n
<1>1. (mod * 0 + n) % mod = n
  BY ModUnique, 0 \in Int
<1>2. mod * 0 + n = n + 0
  OBVIOUS
<1> QED
  BY <1>1, <1>2 DEF Ahead

\* What the mask lets through unseen, the decoder does not look at.
LEMMA MaskCovers ==
    ASSUME NEW a \in Words16, NEW b \in Words16, ~osdChanged(a, b)
    PROVE  decodeOsdWord(a) = decodeOsdWord(b)
<1>1. ASSUME NEW i \in Owned PROVE (i \in a) = (i \in b)
  BY <1>1 DEF osdChanged
<1>2. ASSUME NEW i \in {4, 5, 6, 7, 8, 9, 14, 15} PROVE Bit(a, i) = Bit(b, i)
  BY <1>1, <1>2 DEF Bit, Owned
<1>3. ContentOf(a) = ContentOf(b)
  <2>1. Bit(a, 4) = Bit(b, 4) /\ Bit(a, 5) = Bit(b, 5)
    BY <1>2
  <2> QED
    BY <2>1 DEF ContentOf
<1>4. DisplayOf(a) = DisplayOf(b)
  <2>1. Bit(a, 14) = Bit(b, 14) /\ Bit(a, 15) = Bit(b, 15)
    BY <1>2
  <2> QED
    BY <1>3, <2>1 DEF DisplayOf
<1>5. /\ Bit(a, 6) = Bit(b, 6) /\ Bit(a, 7) = Bit(b, 7)
      /\ Bit(a, 8) = Bit(b, 8) /\ Bit(a, 9) = Bit(b, 9)
  BY <1>2
<1>6. (1 \notin a) = (1 \notin b) /\ (3 \notin a) = (3 \notin b)
  BY <1>1 DEF Owned
<1> QED
  BY <1>3, <1>4, <1>5, <1>6 DEF decodeOsdWord

\* A bank that fits the glass.
LEMMA GlassFits ==
    ASSUME NEW content \in Tiers, glass \in Glasses
    PROVE  glassMax(content) \in Tiers /\ (glass = "True480" => glassMax(content) # "720p")
BY ControlsAssumption DEF glassMax, Tiers

LEMMA ContentKnown == \A word : ContentOf(word) \in Tiers
<1> SUFFICES ASSUME NEW word PROVE ContentOf(word) \in Tiers
  OBVIOUS
<1>1. Bit(word, 4) \in {0, 1} /\ Bit(word, 5) \in {0, 1}
  BY DEF Bit
<1> QED
  BY <1>1 DEF ContentOf, Tiers

LEMMA ControlsStart ==
    ASSUME ControlsInit
    PROVE  ControlsInv
<1> USE ControlsAssumption
<1>1. PICK v \in BOOLEAN, n \in {0, 1}, k \in {CHOOSE k \in Keys : TRUE} :
        box = [valid |-> v, seq |-> n, cmdSeq |-> n, key |-> k, press |-> 0, life |-> 0]
  BY DEF ControlsInit
<1>2. PICK w \in BOOLEAN, m \in {0, 1} :
        osdBox = [valid |-> w, seq |-> m, word |-> {4}, fresh |-> FALSE]
  BY DEF ControlsInit
<1>3. k \in Keys
  OBVIOUS
<1>4. KeyShapes
  BY <1>1, <1>3 DEF ControlsInit, KeyShapes, Unread
<1>5. glassMax("720p") \in Tiers /\ (glass = "True480" => glassMax("720p") # "720p")
  BY GlassFits DEF ControlsInit, Tiers
<1>6. MenuShapes
  <2>1. osdBox \in [valid : BOOLEAN, seq : Nat, word : Words16, fresh : BOOLEAN]
    BY <1>2 DEF Words16
  <2>2. ignoring = FALSE /\ stale = FALSE /\ lastOsd = Unset /\ lastGot = Unset
        /\ glass \in Glasses /\ bank = glassMax("720p")
    BY DEF ControlsInit
  <2>3. eye \in [init : BOOLEAN, alive : BOOLEAN, seq : Nat]
    BY DEF ControlsInit
  <2> QED
    BY <1>5, <2>1, <2>2, <2>3 DEF MenuShapes
<1>7. BoxCounts
  BY <1>1 DEF ControlsInit, BoxCounts, Unread
<1>8. BoxOrder
  BY <1>1 DEF ControlsInit, BoxOrder, Unread, Accepts
<1>9. MenuFollows
  BY <1>2, <1>5 DEF ControlsInit, MenuFollows, Unset
<1> QED
  BY <1>4, <1>6, <1>7, <1>8, <1>9 DEF ControlsInv

\* Steps at the menu leave the keys alone, and the other way round.
LEMMA KeysFrame ==
    ASSUME BoxCounts, BoxOrder, UNCHANGED <<box, edge, acted, dropped, unread>>,
           panel'.life = panel.life, panel'.seq = panel.seq, panel'.cmdSeq = panel.cmdSeq,
           made'.press = made.press
    PROVE  BoxCounts' /\ BoxOrder'
<1>1. BoxCounts'
  BY DEF BoxCounts, Ahead
<1>2. BoxOrder'
  BY DEF BoxOrder, WordTaken, Accepts
<1> QED
  BY <1>1, <1>2

LEMMA MenuFrame ==
    ASSUME MenuShapes, MenuFollows, UNCHANGED <<eye, menu, lastOsd, lastGot, bank, glass, told, stale>>,
           ignoring' \in BOOLEAN,
           osdBox' \in [valid : BOOLEAN, seq : Nat, word : Words16, fresh : BOOLEAN],
           osdBox'.fresh \/ osdBox' = osdBox
    PROVE  MenuShapes' /\ MenuFollows'
<1>1. MenuShapes'
  BY DEF MenuShapes
<1>2. MenuFollows'
  BY DEF MenuFollows, glassMax
<1> QED
  BY <1>1, <1>2

\* A press: the core counts it, and the word before it is gone.
LEMMA PressStep ==
    ASSUME ControlsInv, NEW k \in Keys, Press(k)
    PROVE  ControlsInv'
<1> USE ControlsAssumption
<1> DEFINE s == (panel.seq + 1) % WordMod
           c == (panel.cmdSeq + 1) % CmdMod
<1>0. KeyShapes /\ MenuShapes /\ BoxCounts /\ BoxOrder /\ MenuFollows
  BY DEF ControlsInv
<1>1. /\ made' = [made EXCEPT !.press = @ + 1] /\ made.press < MaxPresses
      /\ panel' = [panel EXCEPT !.seq = s, !.cmdSeq = c]
      /\ box' = [valid |-> TRUE, seq |-> s, cmdSeq |-> c, key |-> k, press |-> made.press + 1,
                 life |-> panel.life]
      /\ unread' = made.press + 1
      /\ UNCHANGED <<osdBox, DaemonKeeps, acted, dropped, stale>>
  BY DEF Press
<1>2. s \in 0..(WordMod - 1) /\ c \in 0..(CmdMod - 1)
  <2>1. panel.seq + 1 \in Int /\ panel.cmdSeq + 1 \in Int
    BY <1>0 DEF KeyShapes
  <2> QED
    BY <2>1, ModRange
<1>3. UNCHANGED <<osdBox, edge, eye, menu, lastOsd, lastGot, ignoring, transport, bank, glass, told,
                  acted, dropped, stale>>
  BY <1>1 DEF DaemonKeeps
<1>4. ASSUME edge.seen, edge.life = panel.life
      PROVE  /\ s = Ahead(edge.seq, (made.press + 1) - edge.press, WordMod)
             /\ c = Ahead(edge.cmdSeq, (made.press + 1) - edge.press, CmdMod)
  <2> DEFINE n == made.press - edge.press
  <2>1. n \in Nat /\ (made.press + 1) - edge.press = n + 1
    BY <1>0 DEF KeyShapes, BoxCounts
  <2>2. edge.life = box.life /\ box.life = panel.life
    BY <1>0, <1>4 DEF KeyShapes, BoxCounts
  <2>3. panel.seq = Ahead(edge.seq, n, WordMod) /\ panel.cmdSeq = Ahead(edge.cmdSeq, n, CmdMod)
    BY <1>0, <1>4, <2>2 DEF BoxCounts
  <2>4. edge.seq \in 0..(WordMod - 1) /\ edge.cmdSeq \in 0..(CmdMod - 1)
    BY <1>0 DEF KeyShapes
  <2> HIDE DEF n
  <2>5. s = Ahead(edge.seq, n + 1, WordMod)
    BY <2>1, <2>3, <2>4, AheadStep DEF s
  <2>6. c = Ahead(edge.cmdSeq, n + 1, CmdMod)
    BY <2>1, <2>3, <2>4, AheadStep DEF c
  <2> QED
    BY <2>1, <2>5, <2>6
<1> HIDE DEF s, c
<1>5. /\ panel'.life = panel.life /\ panel'.seq = s /\ panel'.cmdSeq = c /\ panel'.word = panel.word
      /\ made.press \in Nat /\ made'.press = made.press + 1 /\ panel.life \in Nat
      /\ panel' \in [up : BOOLEAN, life : Nat, seq : 0..(WordMod - 1), cmdSeq : 0..(CmdMod - 1),
                     osdSeq : Nat, word : SUBSET Bits]
      /\ made' \in [press : Nat, turn : Nat, reset : Nat]
  <2>1. panel \in [up : BOOLEAN, life : Nat, seq : 0..(WordMod - 1), cmdSeq : 0..(CmdMod - 1),
                   osdSeq : Nat, word : SUBSET Bits]
        /\ made \in [press : Nat, turn : Nat, reset : Nat]
    BY <1>0 DEF KeyShapes
  <2>2. panel'.life = panel.life /\ panel'.seq = s /\ panel'.cmdSeq = c /\ panel'.word = panel.word
    BY <1>1, <2>1
  <2>3. made.press \in Nat /\ made'.press = made.press + 1 /\ panel.life \in Nat
    BY <1>1, <2>1
  <2>4. panel' \in [up : BOOLEAN, life : Nat, seq : 0..(WordMod - 1), cmdSeq : 0..(CmdMod - 1),
                    osdSeq : Nat, word : SUBSET Bits]
    BY <1>1, <1>2, <2>1
  <2>5. made' \in [press : Nat, turn : Nat, reset : Nat]
    BY <1>1, <2>1, <2>3
  <2> QED
    BY <2>2, <2>3, <2>4, <2>5
<1>6. KeyShapes'
  BY <1>0, <1>1, <1>2, <1>3, <1>5 DEF KeyShapes
<1>7. BoxCounts'
  <2>1. edge.press \in Nat /\ edge.press <= made.press /\ edge.life \in Nat /\ edge.life <= panel.life
    BY <1>0 DEF KeyShapes, BoxCounts
  <2> QED
    BY <1>1, <1>3, <1>4, <1>5, <2>1 DEF BoxCounts
<1>8. BoxOrder'
  <2>1. ASSUME NEW i \in 1..Len(acted)
        PROVE  /\ acted[i] # made.press + 1 /\ acted[i] <= made.press + 1
               /\ acted[i] > 0 /\ (i > 1 => acted[i] > acted[i - 1])
    <3>1. acted[i] \in Nat
      BY <1>0, ElementOfSeq DEF BoxOrder
    <3>2. acted[i] <= made.press /\ acted[i] > 0 /\ (i > 1 => acted[i] > acted[i - 1])
      BY <1>0 DEF BoxOrder, BoxCounts
    <3>3. ASSUME NEW n \in Nat, acted[i] <= n PROVE acted[i] # n + 1 /\ acted[i] <= n + 1
      BY <3>1, <3>3
    <3>4. acted[i] # made.press + 1 /\ acted[i] <= made.press + 1
      BY <1>5, <3>2, <3>3
    <3> QED
      BY <3>2, <3>4
  <2>2. ~WordTaken'
    <3>1. box'.press = made.press + 1 /\ box'.press # 0 /\ acted' = acted
      BY <1>1, <1>3, <1>5
    <3> QED
      BY <2>1, <3>1 DEF WordTaken
  <2>3. \A i \in 1..Len(acted) :
          acted[i] > 0 /\ acted[i] <= made.press + 1 /\ (i > 1 => acted[i] > acted[i - 1])
    BY <2>1
  <2> QED
    BY <1>0, <1>1, <1>3, <1>5, <2>2, <2>3 DEF BoxOrder
<1>9. MenuShapes' /\ MenuFollows'
  BY <1>0, <1>3, MenuFrame DEF MenuShapes
<1> QED
  BY <1>6, <1>7, <1>8, <1>9 DEF ControlsInv

\* The core's other steps: the menu is turned, the status word published, and a reset
\* starts a life whose counters no word in DDR is of yet.
LEMMA ConsoleStep ==
    ASSUME ControlsInv, (\E b \in Bits : Turn(b)) \/ Publishes \/ CoreResets
    PROVE  ControlsInv'
<1> USE ControlsAssumption
<1>0. KeyShapes /\ MenuShapes /\ BoxCounts /\ BoxOrder /\ MenuFollows
  BY DEF ControlsInv
<1>1. ASSUME NEW b \in Bits, Turn(b) PROVE ControlsInv'
  <2>1. /\ made' = [made EXCEPT !.turn = @ + 1]
        /\ panel' = [panel EXCEPT !.word = (@ \cup {b}) \ (@ \cap {b})]
        /\ UNCHANGED <<box, osdBox, DaemonKeeps, acted, unread, dropped, stale>>
    BY <1>1 DEF Turn
  <2>2. UNCHANGED <<edge, eye, menu, lastOsd, lastGot, ignoring, transport, bank, glass, told>>
    BY <2>1 DEF DaemonKeeps
  <2>3. KeyShapes' /\ panel'.life = panel.life /\ panel'.seq = panel.seq
        /\ panel'.cmdSeq = panel.cmdSeq /\ made'.press = made.press
    BY <1>0, <2>1, <2>2 DEF KeyShapes
  <2>4. BoxCounts' /\ BoxOrder'
    BY <1>0, <2>1, <2>2, <2>3, KeysFrame
  <2>5. MenuShapes' /\ MenuFollows'
    BY <1>0, <2>1, <2>2, MenuFrame DEF MenuShapes
  <2> QED
    BY <2>3, <2>4, <2>5 DEF ControlsInv
<1>2. ASSUME Publishes PROVE ControlsInv'
  <2> DEFINE n == (panel.osdSeq + 1) % WordMod
  <2>1. /\ panel' = [panel EXCEPT !.osdSeq = @ + 1]
        /\ osdBox' = [valid |-> TRUE, seq |-> n, word |-> panel.word, fresh |-> TRUE]
        /\ UNCHANGED <<box, DaemonKeeps, made, acted, unread, dropped, stale>>
    BY <1>2 DEF Publishes
  <2>2. UNCHANGED <<edge, eye, menu, lastOsd, lastGot, ignoring, transport, bank, glass, told>>
    BY <2>1 DEF DaemonKeeps
  <2>3. KeyShapes' /\ panel'.life = panel.life /\ panel'.seq = panel.seq
        /\ panel'.cmdSeq = panel.cmdSeq /\ panel.word \in Words16
    BY <1>0, <2>1, <2>2 DEF KeyShapes, Words16
  <2>4. BoxCounts' /\ BoxOrder'
    BY <1>0, <2>1, <2>2, <2>3, KeysFrame
  <2>5. n \in Nat
    <3>1. panel.osdSeq + 1 \in Int
      BY <1>0 DEF KeyShapes
    <3>2. n \in 0..(WordMod - 1)
      BY <3>1, ModRange
    <3> QED
      BY <3>2
  <2> HIDE DEF n
  <2>6. MenuShapes' /\ MenuFollows'
    BY <1>0, <2>1, <2>2, <2>3, <2>5, MenuFrame DEF MenuShapes
  <2> QED
    BY <2>3, <2>4, <2>6 DEF ControlsInv
<1>3. ASSUME CoreResets PROVE ControlsInv'
  <2>1. PICK up \in BOOLEAN :
          panel' = [panel EXCEPT !.up = up, !.life = @ + 1, !.seq = 0, !.cmdSeq = 0, !.osdSeq = 0]
    BY <1>3 DEF CoreResets
  <2>2. /\ made' = [made EXCEPT !.reset = @ + 1]
        /\ UNCHANGED <<box, osdBox, DaemonKeeps, acted, unread, dropped, stale>>
    BY <1>3 DEF CoreResets
  <2>3. UNCHANGED <<edge, eye, menu, lastOsd, lastGot, ignoring, transport, bank, glass, told>>
    BY <2>2 DEF DaemonKeeps
  <2>4. KeyShapes' /\ panel'.life = panel.life + 1 /\ panel.life \in Nat /\ made'.press = made.press
    <3>1. panel.life \in Nat /\ panel'.life = panel.life + 1 /\ made'.press = made.press
      BY <1>0, <2>1, <2>2 DEF KeyShapes
    <3>2. panel' \in [up : BOOLEAN, life : Nat, seq : 0..(WordMod - 1), cmdSeq : 0..(CmdMod - 1),
                      osdSeq : Nat, word : SUBSET Bits]
      <4>1. 0 \in 0..(WordMod - 1) /\ 0 \in 0..(CmdMod - 1) /\ 0 \in Nat /\ panel.life + 1 \in Nat
        BY <3>1
      <4> QED
        BY <1>0, <2>1, <4>1 DEF KeyShapes
    <3>3. made' \in [press : Nat, turn : Nat, reset : Nat]
      BY <1>0, <2>2 DEF KeyShapes
    <3> QED
      BY <1>0, <2>2, <2>3, <3>1, <3>2, <3>3 DEF KeyShapes
  <2>5. BoxCounts'
    <3>1. box.life \in Nat /\ box.life <= panel.life
      BY <1>0 DEF KeyShapes, BoxCounts
    <3> QED
      BY <1>0, <2>2, <2>3, <2>4, <3>1 DEF BoxCounts, Ahead
  <2>6. BoxOrder'
    BY <1>0, <2>2, <2>3 DEF BoxOrder, WordTaken, Accepts
  <2>7. MenuShapes' /\ MenuFollows'
    BY <1>0, <2>2, <2>3, MenuFrame DEF MenuShapes
  <2> QED
    BY <2>4, <2>5, <2>6, <2>7 DEF ControlsInv
<1> QED
  BY <1>1, <1>2, <1>3

\* A new DDR map: the detector and the mailbox's eye start over, and the word that is
\* there proves nothing until it moves.
LEMMA ReleaseStep ==
    ASSUME ControlsInv, releaseDdrMap \/ IgnoreEnds
    PROVE  ControlsInv'
<1> USE ControlsAssumption
<1>0. KeyShapes /\ MenuShapes /\ BoxCounts /\ BoxOrder /\ MenuFollows
  BY DEF ControlsInv
<1>1. ASSUME releaseDdrMap PROVE ControlsInv'
  <2>1. /\ made' = [made EXCEPT !.reset = @ + 1] /\ edge' = Unread
        /\ eye' = [init |-> FALSE, alive |-> FALSE, seq |-> eye.seq]
        /\ osdBox' = [osdBox EXCEPT !.fresh = FALSE]
        /\ UNCHANGED <<box, panel, menu, lastOsd, lastGot, ignoring, transport, bank, glass, told,
                       acted, unread, dropped, stale>>
    BY <1>1 DEF releaseDdrMap
  <2>2. /\ made' \in [press : Nat, turn : Nat, reset : Nat] /\ made'.press = made.press
        /\ edge' \in [seen : BOOLEAN, sawEmpty : BOOLEAN, seq : 0..(WordMod - 1),
                      cmdSeq : 0..(CmdMod - 1), press : Nat, life : Nat]
    BY <1>0, <2>1 DEF KeyShapes, Unread
  <2>3. KeyShapes'
    BY <1>0, <2>1, <2>2 DEF KeyShapes
  <2>4. BoxCounts'
    <3>1. edge'.press = 0 /\ edge'.life = 0 /\ ~edge'.seen
      BY <2>1 DEF Unread
    <3>2. box.press \in Nat /\ box.life \in Nat
      BY <1>0 DEF KeyShapes
    <3>3. unread # 0 => box.press > 0
      <4>1. edge.press \in Nat
        BY <1>0 DEF KeyShapes
      <4> QED
        BY <1>0, <3>2, <4>1 DEF BoxCounts
    <3> QED
      BY <1>0, <2>1, <2>2, <3>1, <3>2, <3>3 DEF BoxCounts
  <2>5. BoxOrder'
    BY <1>0, <2>1 DEF BoxOrder, Unread, Accepts
  <2>6. MenuShapes'
    BY <1>0, <2>1 DEF MenuShapes
  <2>7. MenuFollows'
    BY <1>0, <2>1 DEF MenuFollows, glassMax
  <2> QED
    BY <2>3, <2>4, <2>5, <2>6, <2>7 DEF ControlsInv
<1>2. ASSUME IgnoreEnds PROVE ControlsInv'
  <2>1. /\ ignoring' = FALSE
        /\ UNCHANGED <<box, osdBox, panel, edge, eye, menu, lastOsd, lastGot, transport, bank, glass,
                       told, made, acted, unread, dropped, stale>>
    BY <1>2 DEF IgnoreEnds
  <2>2. KeyShapes'
    BY <1>0, <2>1 DEF KeyShapes
  <2>3. BoxCounts' /\ BoxOrder'
    BY <1>0, <2>1, KeysFrame
  <2>4. MenuShapes' /\ MenuFollows'
    BY <1>0, <2>1, MenuFrame DEF MenuShapes
  <2> QED
    BY <2>2, <2>3, <2>4 DEF ControlsInv
<1> QED
  BY <1>1, <1>2

\* A press nobody has looked at yet, counted by the life the detector counts in, differs
\* in both counters from the word the detector knows.
LEMMA FreshWordDiffers ==
    ASSUME KeyShapes, BoxCounts, unread # 0, edge.seen, edge.life = box.life,
           box.press - edge.press < WordMod, box.press - edge.press < CmdMod
    PROVE  box.seq # edge.seq /\ box.cmdSeq # edge.cmdSeq
<1> USE ControlsAssumption
<1> DEFINE n == box.press - edge.press
<1>1. n \in Nat /\ n > 0 /\ n < WordMod /\ n < CmdMod
  BY DEF KeyShapes, BoxCounts
<1>2. edge.seq \in 0..(WordMod - 1) /\ edge.cmdSeq \in 0..(CmdMod - 1)
  BY DEF KeyShapes
<1>3. box.seq = Ahead(edge.seq, n, WordMod) /\ box.cmdSeq = Ahead(edge.cmdSeq, n, CmdMod)
  BY DEF BoxCounts
<1> HIDE DEF n
<1> QED
  BY <1>1, <1>2, <1>3, AheadDiffers

\* A skip stays inside the title.
LEMMA DispatchedType ==
    ASSUME NEW t \in [playing : BOOLEAN, paused : BOOLEAN, pos : 0..DurationMs], NEW key \in Keys
    PROVE  Dispatched(t, key) \in [playing : BOOLEAN, paused : BOOLEAN, pos : 0..DurationMs]
<1> USE ControlsAssumption
<1>1. \A n \in Int : Within(n) \in 0..DurationMs
  BY DEF Within
<1>2. t.pos + SkipForwardMs \in Int /\ t.pos - SkipBackMs \in Int
  OBVIOUS
<1>3. Within(t.pos + SkipForwardMs) \in 0..DurationMs /\ Within(t.pos - SkipBackMs) \in 0..DurationMs
  BY <1>1, <1>2
<1>4. CASE ~t.playing
  BY <1>4 DEF Dispatched
<1>5. CASE t.playing /\ key = "PlayPause"
  BY <1>5 DEF Dispatched
<1>6. CASE t.playing /\ key = "Stop"
  <2>1. 0 \in 0..DurationMs
    OBVIOUS
  <2>2. Dispatched(t, key) = [t EXCEPT !.playing = FALSE, !.paused = FALSE, !.pos = 0]
    BY <1>6 DEF Dispatched
  <2> QED
    BY <2>1, <2>2
<1>7. CASE t.playing /\ key = "SkipForward"
  BY <1>3, <1>7 DEF Dispatched
<1>8. CASE t.playing /\ key = "SkipBack"
  BY <1>3, <1>8 DEF Dispatched
<1>9. CASE t.playing /\ key \notin {"PlayPause", "Stop", "SkipForward", "SkipBack"}
  BY <1>9 DEF Dispatched
<1> QED
  BY <1>4, <1>5, <1>6, <1>7, <1>8, <1>9

\* A poll of the keys: an empty mailbox is remembered, a word is taken over, and acts if
\* the detector accepts it; afterwards it is not accepted again.
LEMMA ReadKeysStep ==
    ASSUME ControlsInv, readInputMailbox
    PROVE  ControlsInv'
<1> USE ControlsAssumption
<1>0. KeyShapes /\ MenuShapes /\ BoxCounts /\ BoxOrder /\ MenuFollows
  BY DEF ControlsInv
<1>1. /\ unread' = 0
      /\ UNCHANGED <<box, osdBox, panel, eye, menu, lastOsd, lastGot, ignoring, bank, glass, told, made,
                     stale>>
  BY DEF readInputMailbox
<1>2. MenuShapes' /\ MenuFollows'
  BY <1>0, <1>1, MenuFrame DEF MenuShapes
<1>3. CASE ~box.valid
  <2>1. edge' = [edge EXCEPT !.sawEmpty = @ \/ ~edge.seen] /\ UNCHANGED <<transport, acted, dropped>>
    BY <1>3 DEF readInputMailbox
  <2>2. /\ edge'.seen = edge.seen /\ edge'.life = edge.life /\ edge'.press = edge.press
        /\ edge'.seq = edge.seq /\ edge'.cmdSeq = edge.cmdSeq
    BY <1>0, <2>1 DEF KeyShapes
  <2>3. KeyShapes'
    BY <1>0, <1>1, <2>1 DEF KeyShapes
  <2>4. BoxCounts'
    BY <1>0, <1>1, <2>2 DEF BoxCounts, Ahead
  <2>5. acted = <<>>
    <3>1. box.press = 0 /\ Len(acted) \in Nat
      BY <1>0, <1>3 DEF BoxOrder
    <3>2. \A i \in 1..Len(acted) : acted[i] > 0 /\ acted[i] <= 0
      BY <1>0, <3>1 DEF BoxOrder
    <3>3. \A i \in 1..Len(acted) : acted[i] \in Nat
      BY <1>0, ElementOfSeq DEF BoxOrder
    <3>4. 1 \notin 1..Len(acted)
      BY <3>2, <3>3
    <3>5. Len(acted) = 0
      BY <3>1, <3>4
    <3> QED
      BY <1>0, <3>5, EmptySeq DEF BoxOrder
  <2>6. BoxOrder'
    BY <1>0, <1>1, <1>3, <2>1, <2>5 DEF BoxOrder, WordTaken
  <2> QED
    BY <1>2, <2>3, <2>4, <2>6 DEF ControlsInv
<1>4. CASE box.valid
  <2>1. edge' = [edge EXCEPT !.seen = TRUE, !.seq = box.seq, !.cmdSeq = box.cmdSeq,
                             !.press = box.press, !.life = box.life]
    BY <1>4 DEF readInputMailbox
  <2>2. /\ edge'.seen /\ edge'.life = box.life /\ edge'.press = box.press
        /\ edge'.seq = box.seq /\ edge'.cmdSeq = box.cmdSeq
        /\ edge' \in [seen : BOOLEAN, sawEmpty : BOOLEAN, seq : 0..(WordMod - 1),
                      cmdSeq : 0..(CmdMod - 1), press : Nat, life : Nat]
    BY <1>0, <2>1 DEF KeyShapes
  <2>3. transport' \in [playing : BOOLEAN, paused : BOOLEAN, pos : 0..DurationMs]
    <3>1. transport \in [playing : BOOLEAN, paused : BOOLEAN, pos : 0..DurationMs] /\ box.key \in Keys
      BY <1>0 DEF KeyShapes
    <3>2. transport' \in {transport, Dispatched(transport, box.key)}
      BY <1>4 DEF readInputMailbox
    <3> QED
      BY <3>1, <3>2, DispatchedType
  <2>4. KeyShapes'
    BY <1>0, <1>1, <2>2, <2>3 DEF KeyShapes
  <2>5. BoxCounts'
    <3>1. /\ Ahead(box.seq, 0, WordMod) = box.seq /\ Ahead(box.cmdSeq, 0, CmdMod) = box.cmdSeq
          /\ box.press \in Nat /\ box.life \in Nat /\ box.press - box.press = 0
      <4>1. /\ box.seq \in 0..(WordMod - 1) /\ box.cmdSeq \in 0..(CmdMod - 1)
            /\ box.press \in Nat /\ box.life \in Nat
        BY <1>0 DEF KeyShapes
      <4>2. WordMod \in Nat \ {0} /\ CmdMod \in Nat \ {0}
        OBVIOUS
      <4>3. Ahead(box.seq, 0, WordMod) = box.seq
        BY <4>1, <4>2, AheadNone
      <4>4. Ahead(box.cmdSeq, 0, CmdMod) = box.cmdSeq
        BY <4>1, <4>2, AheadNone
      <4> QED
        BY <4>1, <4>3, <4>4
    <3> QED
      BY <1>0, <1>1, <2>2, <3>1 DEF BoxCounts
  <2>6. /\ ~(edge'.sawEmpty /\ ~edge'.seen)
        /\ (box.valid /\ WordTaken => ~Accepts(box))'
    BY <1>1, <2>2 DEF Accepts
  <2>7. ASSUME acted' = acted, dropped' = dropped PROVE BoxOrder'
    BY <1>0, <1>1, <1>4, <2>6, <2>7 DEF BoxOrder
  <2>8. ASSUME Accepts(box), acted' = Append(acted, box.press), dropped' = dropped PROVE BoxOrder'
    <3>1. acted \in Seq(Nat) /\ Len(acted) \in Nat /\ box.press \in Nat
      BY <1>0 DEF BoxOrder, KeyShapes
    <3>2. ~WordTaken
      BY <1>0, <1>4, <2>8 DEF BoxOrder
    <3>3. box.press > 0 /\ \A i \in 1..Len(acted) : acted[i] # box.press
      BY <3>1, <3>2 DEF WordTaken
    <3>4. ASSUME NEW i \in 1..Len(acted) PROVE acted[i] < box.press
      <4>1. acted[i] \in Nat /\ acted[i] <= box.press
        BY <1>0, ElementOfSeq DEF BoxOrder
      <4> QED
        BY <3>1, <3>3, <4>1
    <3>5. /\ acted' \in Seq(Nat) /\ Len(acted') = Len(acted) + 1
          /\ acted'[Len(acted) + 1] = box.press
          /\ \A i \in 1..Len(acted) : acted'[i] = acted[i]
      BY <2>8, <3>1, AppendProperties
    <3>6. ASSUME NEW i \in 1..Len(acted')
          PROVE  acted'[i] > 0 /\ acted'[i] <= box.press /\ (i > 1 => acted'[i] > acted'[i - 1])
      <4>1. CASE i = Len(acted) + 1
        <5>1. i > 1 => i - 1 \in 1..Len(acted)
          BY <3>1, <4>1
        <5>2. i > 1 => acted'[i - 1] < box.press
          BY <3>4, <3>5, <5>1
        <5>3. acted'[i] = box.press
          BY <3>5, <4>1
        <5>4. i > 1 => acted'[i - 1] \in Nat
          <6>1. ASSUME i > 1 PROVE acted[i - 1] \in Nat
            BY <3>1, <5>1, <6>1, ElementOfSeq
          <6> QED
            BY <3>5, <5>1, <6>1
        <5> QED
          BY <3>1, <3>3, <5>2, <5>3, <5>4
      <4>2. CASE i # Len(acted) + 1
        <5>1. i \in 1..Len(acted) /\ (i > 1 => i - 1 \in 1..Len(acted))
          BY <3>1, <3>5, <4>2
        <5>2. acted[i] > 0 /\ acted[i] <= box.press /\ (i > 1 => acted[i] > acted[i - 1])
          BY <1>0, <5>1 DEF BoxOrder
        <5>3. acted'[i] = acted[i] /\ (i > 1 => acted'[i - 1] = acted[i - 1])
          BY <3>5, <5>1
        <5> QED
          BY <5>2, <5>3
      <4> QED
        BY <4>1, <4>2
    <3> QED
      BY <1>0, <1>1, <1>4, <2>6, <2>8, <3>5, <3>6 DEF BoxOrder
  <2>9. ASSUME ~Accepts(box), acted' = acted, dropped' = dropped \cup {Reason}, unread # 0
        PROVE  BoxOrder'
    <3>1. Reason \in {"seed", "counters", "round"}
      <4>1. CASE ~edge.seen \/ edge.life # box.life
        BY <4>1 DEF Reason
      <4>2. CASE \E m \in {WordMod, CmdMod} : box.press - edge.press >= m
        BY <4>2 DEF Reason
      <4>3. ASSUME edge.seen, edge.life = box.life,
                   ~\E m \in {WordMod, CmdMod} : box.press - edge.press >= m
            PROVE  FALSE
        <5>1. box.press - edge.press < WordMod /\ box.press - edge.press < CmdMod
          BY <1>0, <4>3 DEF KeyShapes
        <5>2. box.seq # edge.seq /\ box.cmdSeq # edge.cmdSeq
          BY <1>0, <2>9, <4>3, <5>1, FreshWordDiffers
        <5> QED
          BY <2>9, <4>3, <5>2 DEF Accepts
      <4> QED
        BY <4>1, <4>2, <4>3
    <3> QED
      BY <1>0, <1>1, <1>4, <2>6, <2>9, <3>1 DEF BoxOrder
  <2>10. \/ acted' = acted /\ dropped' = dropped
         \/ Accepts(box) /\ acted' = Append(acted, box.press) /\ dropped' = dropped
         \/ ~Accepts(box) /\ acted' = acted /\ dropped' = dropped \cup {Reason} /\ unread # 0
    BY <1>4 DEF readInputMailbox
  <2>11. BoxOrder'
    BY <2>7, <2>8, <2>9, <2>10
  <2> QED
    BY <1>2, <2>4, <2>5, <2>11 DEF ControlsInv
<1> QED
  BY <1>3, <1>4

\* What OsdGot makes of a word: settings, bank and what main is told stay together.
LEMMA GotWord ==
    ASSUME MenuShapes, MenuFollows, NEW word \in Words16, NEW viaMailbox \in BOOLEAN,
           OsdGot(word, viaMailbox), viaMailbox => osdBox.fresh, UNCHANGED <<osdBox, glass>>,
           eye' \in [init : BOOLEAN, alive : BOOLEAN, seq : Nat],
           eye'.init /\ ~osdBox.fresh => eye'.seq = osdBox.seq /\ ~eye'.alive
    PROVE  MenuShapes' /\ MenuFollows'
<1> USE ControlsAssumption
<1>1. word # Unset /\ lastGot' = word
  BY DEF OsdGot, Words16, Unset
<1>2. CASE lastOsd = Unset \/ osdChanged(lastOsd, word)
  <2>1. /\ lastOsd' = word /\ menu' = decodeOsdWord(word) /\ bank' = glassMax(ContentOf(word))
        /\ told' = (IF lastOsd # Unset /\ menu.content # ContentOf(word) THEN ContentOf(word) ELSE told)
        /\ ignoring' = TRUE /\ stale' = (stale \/ (viaMailbox /\ ~osdBox.fresh))
    BY <1>2 DEF OsdGot, applyOsd
  <2>2. menu'.content = ContentOf(word)
    BY <2>1 DEF decodeOsdWord
  <2>3. bank' \in Tiers /\ (glass = "True480" => bank' # "720p")
    BY <2>1, ContentKnown, GlassFits DEF MenuShapes
  <2>4. MenuShapes'
    BY <1>1, <2>1, <2>3 DEF MenuShapes
  <2>5. bank' = glassMax(menu.content)'
    BY <2>1, <2>2 DEF glassMax
  <2>6. ~stale'
    BY <2>1 DEF MenuFollows
  <2>7. told' \in {"none", menu'.content}
    BY <2>1, <2>2 DEF MenuFollows
  <2>8. MenuFollows'
    BY <1>1, <2>1, <2>3, <2>5, <2>6, <2>7 DEF MenuFollows
  <2> QED
    BY <2>4, <2>8
<1>3. CASE lastOsd # Unset /\ ~osdChanged(lastOsd, word)
  <2>1. UNCHANGED <<lastOsd, menu, bank, ignoring, told, stale>> /\ lastOsd \in Words16
    BY <1>3 DEF OsdGot, MenuShapes
  <2>2. menu = decodeOsdWord(word)
    BY <1>3, <2>1, MaskCovers DEF MenuFollows
  <2>3. MenuShapes'
    BY <1>1, <2>1 DEF MenuShapes
  <2>4. MenuFollows'
    BY <1>1, <1>3, <2>1, <2>2 DEF MenuFollows, glassMax
  <2> QED
    BY <2>3, <2>4
<1> QED
  BY <1>2, <1>3 DEF MenuFollows

\* A poll of the menu: a word in a mailbox that moves, or the status word itself.
LEMMA PollMenuStep ==
    ASSUME ControlsInv, pollOsd
    PROVE  ControlsInv'
<1> USE ControlsAssumption
<1>0. KeyShapes /\ MenuShapes /\ BoxCounts /\ BoxOrder /\ MenuFollows
  BY DEF ControlsInv
<1>1. UNCHANGED <<box, osdBox, panel, edge, transport, glass, made, acted, unread, dropped>>
  BY DEF pollOsd
<1>2. KeyShapes' /\ BoxCounts' /\ BoxOrder'
  <2>1. KeyShapes'
    BY <1>0, <1>1 DEF KeyShapes
  <2> QED
    BY <1>0, <1>1, <2>1, KeysFrame
<1>3. PICK timeout \in BOOLEAN :
        /\ eye' = IF osdBox.valid THEN Seen(timeout) ELSE eye
        /\ \/ osdBox.valid /\ Seen(timeout).alive /\ OsdGot(osdBox.word, TRUE)
           \/ panel.up /\ OsdGot(panel.word, FALSE)
           \/ UNCHANGED <<lastOsd, lastGot, menu, bank, ignoring, told, stale>>
  BY DEF pollOsd
<1>4. /\ Seen(timeout) \in [init : BOOLEAN, alive : BOOLEAN, seq : Nat]
      /\ Seen(timeout).seq = osdBox.seq
      /\ ~osdBox.fresh => ~Seen(timeout).alive
  BY <1>0 DEF Seen, MenuShapes, MenuFollows
<1>5. /\ eye' \in [init : BOOLEAN, alive : BOOLEAN, seq : Nat]
      /\ eye'.init /\ ~osdBox.fresh => eye'.seq = osdBox.seq /\ ~eye'.alive
  <2>1. CASE osdBox.valid
    BY <1>3, <1>4, <2>1
  <2>2. CASE ~osdBox.valid
    BY <1>0, <1>3, <2>2 DEF MenuShapes, MenuFollows
  <2> QED
    BY <2>1, <2>2
<1>6. osdBox.word \in Words16 /\ panel.word \in Words16
  BY <1>0 DEF MenuShapes, KeyShapes, Words16
<1>7. CASE osdBox.valid /\ Seen(timeout).alive /\ OsdGot(osdBox.word, TRUE)
  BY <1>0, <1>1, <1>2, <1>4, <1>5, <1>6, <1>7, GotWord DEF ControlsInv, MenuShapes
<1>8. CASE OsdGot(panel.word, FALSE)
  BY <1>0, <1>1, <1>2, <1>5, <1>6, <1>8, GotWord DEF ControlsInv
<1>9. CASE UNCHANGED <<lastOsd, lastGot, menu, bank, ignoring, told, stale>>
  <2>1. MenuShapes'
    BY <1>0, <1>1, <1>5, <1>9 DEF MenuShapes
  <2>2. MenuFollows'
    BY <1>0, <1>1, <1>5, <1>9 DEF MenuFollows, glassMax
  <2> QED
    BY <1>2, <2>1, <2>2 DEF ControlsInv
<1> QED
  BY <1>3, <1>7, <1>8, <1>9

LEMMA ControlsInvariant == ControlsSpec => []ControlsInv
<1>1. ControlsInv /\ [ControlsNext]_controlVars => ControlsInv'
  <2> SUFFICES ASSUME ControlsInv, [ControlsNext]_controlVars PROVE ControlsInv'
    OBVIOUS
  <2>1. CASE UNCHANGED controlVars
    <3>1. UNCHANGED <<box, osdBox, panel, edge, eye, menu, lastOsd, lastGot, ignoring, transport, bank,
                      glass, told, made, acted, unread, dropped, stale>>
      BY <2>1 DEF controlVars
    <3>2. KeyShapes' /\ BoxCounts' /\ BoxOrder'
      <4>1. KeyShapes'
        BY <3>1 DEF ControlsInv, KeyShapes
      <4> QED
        BY <3>1, <4>1, KeysFrame DEF ControlsInv
    <3>3. MenuShapes' /\ MenuFollows'
      BY <3>1, MenuFrame DEF ControlsInv, MenuShapes
    <3> QED
      BY <3>2, <3>3 DEF ControlsInv
  <2>2. CASE \E k \in Keys : Press(k)
    BY <2>2, PressStep
  <2>3. CASE (\E b \in Bits : Turn(b)) \/ Publishes \/ CoreResets
    BY <2>3, ConsoleStep
  <2>4. CASE releaseDdrMap \/ IgnoreEnds
    BY <2>4, ReleaseStep
  <2>5. CASE readInputMailbox
    BY <2>5, ReadKeysStep
  <2>6. CASE pollOsd
    BY <2>6, PollMenuStep
  <2> QED
    BY <2>1, <2>2, <2>3, <2>4, <2>5, <2>6 DEF ControlsNext
<1> QED
  BY <1>1, ControlsStart, PTL DEF ControlsSpec

(* A key pressed at the box acts at most once and in its turn, and a press  *)
(* a poll finds in the mailbox is left out only for the reasons the         *)
(* detector has (InputMailboxEdgeDetector::accept); the settings in force   *)
(* are those of the last OSD word (MediaPlayer::applyOsd behind             *)
(* kOsdOwnedMask), and no word from before the DDR map was made is taken:   *)
(* for any width of the counters, and any number of presses, turns, resets  *)
(* of the core and releases of the map.                                     *)
THEOREM ControlsAreFollowed == ControlsSpec => []ControlsFollowed
<1>1. ControlsInv => ControlsFollowed
  <2> SUFFICES ASSUME ControlsInv PROVE PressesAct /\ OsdFollowed
    BY DEF ControlsFollowed
  <2>1. PressesAct
    BY DEF ControlsInv, BoxOrder, PressesAct
  <2>2. OsdFollowed
    BY DEF ControlsInv, MenuFollows, MenuShapes, OsdFollowed
  <2> QED
    BY <2>1, <2>2
<1> QED
  BY <1>1, ControlsInvariant, PTL
------------------------------------------------------------------------------
(* The resolver's arithmetic.                                               *)

\* Every set of naturals has a least element: the induction that stands behind the
\* searches of the resolver, each of which takes the first that fits.
LEMMA LeastOf ==
  ASSUME NEW S, S \subseteq Nat, S # {}
  PROVE  \E x \in S : \A y \in S : x <= y
<1> DEFINE T == {0..n : n \in S}
<1>1. T \subseteq FiniteSubsetsOf(Nat)
  <2> SUFFICES ASSUME NEW n \in S PROVE 0..n \in FiniteSubsetsOf(Nat)
    OBVIOUS
  <2>1. IsFiniteSet(0..n)
    BY FS_Interval
  <2>2. 0..n \subseteq Nat
    OBVIOUS
  <2> QED
    BY <2>1, <2>2 DEF FiniteSubsetsOf
<1>2. PICK x \in T : \A y \in T : ~(<<y, x>> \in StrictSubsetOrdering(Nat))
  <2> HIDE DEF T
  <2>1. T # {}
    BY DEF T
  <2> QED
    BY <1>1, <2>1, WFMin, FS_StrictSubsetOrderingWellFounded
<1>3. PICK n \in S : x = 0..n
  OBVIOUS
<1>4. ASSUME NEW m \in S, m < n PROVE FALSE
  <2>1. 0..m \in SUBSET Nat /\ 0..n \in SUBSET Nat /\ 0..m \subseteq 0..n
    BY <1>4
  <2>2. n \in 0..n /\ n \notin 0..m
    BY <1>4
  <2>3. <<0..m, 0..n>> \in StrictSubsetOrdering(Nat)
    BY <2>1, <2>2 DEF StrictSubsetOrdering
  <2> QED
    BY <1>2, <1>3, <2>3
<1>5. \A m \in S : n <= m
  BY <1>4
<1> QED
  BY <1>5

\* SelectInSeq's minimum is the least of a set of indices.
LEMMA MinOf ==
  ASSUME NEW S, S \subseteq Nat, S # {}
  PROVE  Min(S) \in S /\ \A y \in S : Min(S) <= y
<1>1. \E x \in S : \A y \in S : x <= y
  BY LeastOf
<1> QED
  BY <1>1 DEF Min

LEMMA MinWithin ==
  ASSUME NEW n \in Nat, NEW I, I \subseteq 1..n, I # {}
  PROVE  Min(I) \in 1..n /\ Min(I) # 0
<1>1. I \subseteq Nat
  OBVIOUS
<1>2. Min(I) \in I
  BY <1>1, MinOf
<1>3. Min(I) \in 1..n
  BY <1>2
<1> QED
  BY <1>3

\* The square root of n is found below 1025.
Root(n, q) == q * q <= n /\ n < (q + 1) * (q + 1)

LEMMA RootChosen ==
  ASSUME NEW n, NEW S, \E q \in S : Root(n, q)
  PROVE  (CHOOSE q \in S : Root(n, q)) \in S /\ Root(n, (CHOOSE q \in S : Root(n, q)))
OBVIOUS

LEMMA IsqrtFound ==
  ASSUME NEW n \in Nat, n < 1025 * 1025
  PROVE  /\ Isqrt(n) \in 0..1024
         /\ Isqrt(n) * Isqrt(n) <= n /\ n < (Isqrt(n) + 1) * (Isqrt(n) + 1)
<1> DEFINE S == {r \in Nat : n < (r + 1) * (r + 1)}
<1>1. 1024 \in S
  OBVIOUS
<1>2. PICK r \in S : \A y \in S : r <= y
  <2> HIDE DEF S
  <2>1. S \subseteq Nat /\ S # {}
    BY <1>1 DEF S
  <2> QED
    BY <2>1, LeastOf
<1>3. r \in 0..1024 /\ n < (r + 1) * (r + 1)
  BY <1>1, <1>2
<1>4. r * r <= n
  <2>1. CASE r = 0
    BY <2>1
  <2>2. CASE r > 0
    <3>1. r - 1 \notin S
      BY <1>2, <1>3, <2>2
    <3>2. ~(n < ((r - 1) + 1) * ((r - 1) + 1))
      BY <3>1, <1>3, <2>2
    <3>3. (r - 1) + 1 = r
      BY <1>3
    <3> QED
      BY <3>2, <3>3, <1>3
  <2> QED
    BY <1>3, <2>1, <2>2
<1> DEFINE R == 0..1024
<1>5. \E q \in R : Root(n, q)
  BY <1>3, <1>4 DEF Root
<1>6. Isqrt(n) = CHOOSE q \in R : Root(n, q)
  BY DEF Isqrt, Root
<1> HIDE DEF R
<1>7. Isqrt(n) \in R /\ Root(n, Isqrt(n))
  BY <1>5, <1>6, RootChosen
<1> QED
  BY <1>7 DEF Root, R

\* A greatest common divisor is a divisor within the smaller of the two.
LEMMA GcdFound ==
  ASSUME NEW x \in Nat \ {0}, NEW y \in Nat \ {0}
  PROVE  Gcd(x, y) \in Nat \ {0} /\ Gcd(x, y) <= x /\ Gcd(x, y) <= y
<1> DEFINE m == IF x < y THEN x ELSE y
           Divisor(d) == Divides(d, x) /\ Divides(d, y)
           S == {k \in Nat : k < m /\ Divisor(m - k)}
<1>0. m \in Nat \ {0} /\ m <= x /\ m <= y
  OBVIOUS
<1>1. m - 1 \in S
  <2>1. x % 1 = 0 /\ y % 1 = 0
    OBVIOUS
  <2> HIDE DEF m
  <2>2. m - 1 \in Nat /\ m - 1 < m /\ m - (m - 1) = 1
    BY <1>0
  <2> QED
    BY <2>1, <2>2 DEF Divides
<1>2. PICK k \in S : \A j \in S : k <= j
  <2> HIDE DEF S
  <2>1. S \subseteq Nat /\ S # {}
    BY <1>1 DEF S
  <2> QED
    BY <2>1, LeastOf
<1> DEFINE d == m - k
<1>3. d \in 1..m /\ Divisor(d)
  BY <1>0, <1>2
<1>4. ASSUME NEW e \in (d + 1)..m, Divisor(e) PROVE FALSE
  <2> HIDE DEF m, Divisor
  <2>1. m - e \in Nat /\ m - e < m /\ m - (m - e) = e /\ m - e < k
    BY <1>0, <1>2, <1>4
  <2>2. m - e \in S
    BY <2>1, <1>4
  <2> QED
    BY <2>1, <2>2, <1>2
<1>5. \E g \in 1..m : Divisor(g) /\ \A e \in (g + 1)..m : ~Divisor(e)
  <2> HIDE DEF m, Divisor, d
  <2> QED
    BY <1>3, <1>4
<1>6. Gcd(x, y) = CHOOSE g \in 1..m : Divides(g, x) /\ Divides(g, y)
                          /\ \A e \in (g + 1)..m : ~(Divides(e, x) /\ Divides(e, y))
  BY DEF Gcd
<1>7. Gcd(x, y) \in 1..m
  <2> HIDE DEF m
  <2> QED
    BY <1>5, <1>6
<1> QED
  BY <1>0, <1>7

\* A quotient is the floor.
LEMMA FloorOf ==
  ASSUME NEW a \in Nat, NEW b \in Nat \ {0}
  PROVE  a \div b \in Nat /\ b * (a \div b) <= a /\ a < b * (a \div b) + b
<1>1. a \div b \in Int /\ a = b * (a \div b) + (a % b) /\ a % b \in 0..(b - 1)
  OBVIOUS
<1> DEFINE q == a \div b
<1>2. q >= 0
  <2> SUFFICES ASSUME q <= -1 PROVE FALSE
    BY <1>1
  <2> HIDE DEF q
  <2>1. q \in Int /\ b * q <= b * (-1)
    BY <1>1 DEF q
  <2> QED
    BY <2>1, <1>1 DEF q
<1> HIDE DEF q
<1> QED
  BY <1>1, <1>2 DEF q

LEMMA FloorPositive ==
  ASSUME NEW a \in Nat, NEW b \in Nat \ {0}, b <= a
  PROVE  a \div b >= 1
<1>1. a \div b \in Nat /\ a < b * (a \div b) + b
  BY FloorOf
<1>2. a \div b # 0
  BY <1>1
<1> QED
  BY <1>1, <1>2

\* What reduceSourceAspect makes of two integers, and Ratio of two texts.
Ratio == (Nat \ {0}) \X (Nat \ {0})

LEMMA ReducedRatio ==
  ASSUME NEW x \in Int, NEW y \in Int
  PROVE  reduceSourceAspect(x, y) \in Ratio \cup {Bad}
<1>1. CASE x <= 0 \/ y <= 0
  BY <1>1 DEF reduceSourceAspect
<1>2. CASE x > 0 /\ y > 0
  <2> DEFINE g == Gcd(x, y)
  <2>1. x \in Nat \ {0} /\ y \in Nat \ {0}
    BY <1>2
  <2>2. g \in Nat \ {0} /\ g <= x /\ g <= y
    BY <2>1, GcdFound
  <2> HIDE DEF g
  <2>3. x \div g \in Nat \ {0} /\ y \div g \in Nat \ {0}
    BY <2>1, <2>2, FloorOf, FloorPositive
  <2>4. reduceSourceAspect(x, y) = IF x \div g > 4095 \/ y \div g > 4095 THEN Bad ELSE <<x \div g, y \div g>>
    BY <1>2 DEF reduceSourceAspect, g
  <2> QED
    BY <2>3, <2>4 DEF Ratio
<1> QED
  BY <1>1, <1>2

LEMMA MissNat ==
  ASSUME NEW v \in Nat, NEW y \in Nat
  PROVE  Miss(v, y) \in Nat /\ Rounded(v, y) \in Nat
<1>1. v * y \in Nat
  OBVIOUS
<1>2. 2 * v * y + 1000 \in Nat
  BY <1>1
<1>3. Rounded(v, y) \in Nat
  BY <1>2, FloorOf DEF Rounded
<1> QED
  BY <1>1, <1>3 DEF Miss, Gap

\* Ratios of naturals are ordered: a/d < b/n and b/n's place among the others.
LEMMA CrossTransitive ==
  ASSUME NEW a \in Nat, NEW b \in Nat, NEW c \in Nat,
         NEW p \in Nat \ {0}, NEW q \in Nat \ {0}, NEW r \in Nat \ {0},
         a * q < b * p, b * r <= c * q
  PROVE  a * r < c * p
<1>1. (a * q) * r < (b * p) * r
  OBVIOUS
<1>2. (b * r) * p <= (c * q) * p
  OBVIOUS
<1>3. (b * p) * r = (b * r) * p /\ (a * q) * r = (a * r) * q /\ (c * q) * p = (c * p) * q
  OBVIOUS
<1>4. (a * r) * q < (c * p) * q
  BY <1>1, <1>2, <1>3
<1>5. a * r \in Nat /\ c * p \in Nat
  OBVIOUS
<1> DEFINE s == a * r  t == c * p
<1> HIDE DEF s, t
<1>6. s \in Nat /\ t \in Nat /\ s * q < t * q
  BY <1>4, <1>5 DEF s, t
<1>7. s < t
  <2> SUFFICES ASSUME t <= s PROVE FALSE
    BY <1>6
  <2>1. t * q <= s * q
    BY <1>6
  <2> QED
    BY <2>1, <1>6
<1> QED
  BY <1>7 DEF s, t

\* A nearest fraction is no farther than another, and nearer than a smaller one.
LEMMA NearestThan ==
  ASSUME NEW v, NEW n, NEW d, Nearest(v, n, d), NEW e \in 1..n
  PROVE  Miss(v, d) * e <= Miss(v, e) * d /\ (e < d => Miss(v, d) * e < Miss(v, e) * d)
BY DEF Nearest

LEMMA NearestStep ==
  ASSUME NEW v \in Nat, NEW n \in Nat \ {0}, NEW d \in 1..n, Nearest(v, n, d)
  PROVE  Nearest(v, n + 1, d) \/ Nearest(v, n + 1, n + 1)
<1> DEFINE m == n + 1
<1>1. m \in Nat \ {0} /\ d \in Nat \ {0} /\ d < m /\ 1..m = (1..n) \cup {m}
  OBVIOUS
<1> HIDE DEF m
<1>2. ASSUME NEW e \in 1..m PROVE Miss(v, e) \in Nat /\ e \in Nat \ {0}
  <2>1. e \in Nat \ {0}
    BY <1>1
  <2>2. e \in Nat
    BY <2>1
  <2> QED
    BY <2>1, <2>2, MissNat
<1>3. d \in 1..m /\ m \in 1..m
  BY <1>1
<1>4. Miss(v, d) \in Nat /\ Miss(v, m) \in Nat
  BY <1>2, <1>3
<1>5. CASE Miss(v, d) * m <= Miss(v, m) * d
  <2>1. \A e \in 1..n : /\ Miss(v, d) * e <= Miss(v, e) * d
                        /\ e < d => Miss(v, d) * e < Miss(v, e) * d
    BY NearestThan
  <2>2. ASSUME NEW e \in 1..m
        PROVE  /\ Miss(v, d) * e <= Miss(v, e) * d
               /\ e < d => Miss(v, d) * e < Miss(v, e) * d
    <3>1. CASE e = m
      BY <3>1, <1>1, <1>5
    <3>2. CASE e # m
      BY <3>2, <2>1, <1>1
    <3> QED
      BY <3>1, <3>2
  <2>3. Nearest(v, m, d)
    BY <2>2 DEF Nearest
  <2> QED
    BY <2>3 DEF m
<1>6. CASE Miss(v, m) * d < Miss(v, d) * m
  <2>1. ASSUME NEW e \in 1..n PROVE Miss(v, m) * e < Miss(v, e) * m
    <3>1. Miss(v, d) * e <= Miss(v, e) * d
      BY NearestThan
    <3>2. Miss(v, e) \in Nat /\ e \in Nat \ {0}
      BY <1>1, <1>2
    <3> QED
      BY <3>1, <3>2, <1>1, <1>4, <1>6, CrossTransitive
  <2>2. Miss(v, m) * m <= Miss(v, m) * m
    BY <1>1, <1>4
  <2>3. ASSUME NEW e \in 1..m
        PROVE  /\ Miss(v, m) * e <= Miss(v, e) * m
               /\ e < m => Miss(v, m) * e < Miss(v, e) * m
    <3>1. CASE e = m
      BY <3>1, <2>2, <1>1
    <3>2. CASE e # m
      <4>1. e \in 1..n
        BY <1>1, <3>2
      <4> DEFINE s == Miss(v, m) * e  t == Miss(v, e) * m
      <4>2. s < t
        BY <2>1, <4>1
      <4>3. s \in Int /\ t \in Int
        BY <1>1, <1>2, <1>4
      <4> HIDE DEF s, t
      <4>4. s <= t
        BY <4>2, <4>3
      <4> QED
        BY <4>2, <4>4 DEF s, t
    <3> QED
      BY <3>1, <3>2
  <2>4. Nearest(v, m, m)
    BY <2>3 DEF Nearest
  <2> QED
    BY <2>4 DEF m
<1>7. Miss(v, d) * m \in Int /\ Miss(v, m) * d \in Int
  BY <1>1, <1>4
<1>8. Miss(v, d) * m <= Miss(v, m) * d \/ Miss(v, m) * d < Miss(v, d) * m
  BY <1>7
<1> QED
  BY <1>5, <1>6, <1>8

LEMMA NearestFound ==
  ASSUME NEW v \in Nat, NEW n \in Nat \ {0}
  PROVE  \E d \in 1..n : Nearest(v, n, d)
<1> DEFINE S == {k \in Nat \ {0} : \A d \in 1..k : ~Nearest(v, k, d)}
<1>1. SUFFICES ASSUME S # {} PROVE FALSE
  OBVIOUS
<1>2. PICK k \in S : \A j \in S : k <= j
  <2> HIDE DEF S
  <2>1. S \subseteq Nat
    BY DEF S
  <2> QED
    BY <2>1, <1>1, LeastOf
<1>3. CASE k = 1
  <2>1. 1..1 = {1} /\ Miss(v, 1) \in Nat
    BY MissNat
  <2>2. Nearest(v, 1, 1)
    BY <2>1 DEF Nearest
  <2> QED
    BY <2>1, <2>2, <1>3
<1>4. CASE k # 1
  <2> DEFINE j == k - 1
  <2>1. j \in Nat \ {0} /\ j < k /\ j + 1 = k
    BY <1>4
  <2>2. j \notin S
    <3> HIDE DEF S
    <3>1. S \subseteq Nat
      BY DEF S
    <3> QED
      BY <2>1, <3>1, <1>2
  <2> HIDE DEF j
  <2>3. PICK d \in 1..j : Nearest(v, j, d)
    BY <2>1, <2>2
  <2>4. Nearest(v, k, d) \/ Nearest(v, k, k)
    BY <2>1, <2>3, NearestStep
  <2>5. d \in 1..k /\ k \in 1..k
    BY <2>1
  <2> QED
    BY <2>4, <2>5
<1> QED
  BY <1>3, <1>4

LEMMA DecimalRatio ==
  ASSUME NEW v \in Int
  PROVE  sourceAspectFromDouble(v) \in Ratio \cup {Bad}
<1> DEFINE hits == {i \in 1..Len(CommonAspects) :
                      Gap(v * CommonAspects[i][2], 1000 * CommonAspects[i][1]) < 5 * CommonAspects[i][2]}
           y == CHOOSE d \in 1..100 : Nearest(v, 100, d)
<1>1. sourceAspectFromDouble(v) =
        IF ~Believed(v, 1000) THEN Bad
        ELSE IF Common(v) # 0 THEN CommonAspects[Common(v)]
        ELSE IF Miss(v, y) > y THEN Bad ELSE reduceSourceAspect(Rounded(v, y), y)
  BY DEF sourceAspectFromDouble
<1>2. CASE ~Believed(v, 1000)
  BY <1>1, <1>2
<1>3. CASE Believed(v, 1000) /\ Common(v) # 0
  <2>1. Common(v) = IF hits # {} THEN Min(hits) ELSE 0
    BY DEF Common, SelectInSeq
  <2>2. hits \subseteq 1..8
    BY DEF CommonAspects
  <2> HIDE DEF hits
  <2>3. hits \subseteq Nat /\ hits # {}
    BY <2>1, <2>2, <1>3
  <2>4. Min(hits) \in hits
    BY <2>3, MinOf
  <2>5. Common(v) \in 1..8
    BY <2>1, <2>2, <2>3, <2>4
  <2>6. \A i \in 1..8 : CommonAspects[i] \in Ratio
    BY DEF CommonAspects, Ratio
  <2> QED
    BY <2>5, <2>6, <1>1, <1>3
<1>4. CASE Believed(v, 1000) /\ Common(v) = 0
  <2>1. v \in Nat
    BY <1>4 DEF Believed
  <2>2. 100 \in Nat \ {0}
    OBVIOUS
  <2>3. \E d \in 1..100 : Nearest(v, 100, d)
    BY <2>1, <2>2, NearestFound
  <2>4. y \in 1..100
    BY <2>3
  <2> HIDE DEF y
  <2>5. Rounded(v, y) \in Int
    <3>1. y \in Nat
      BY <2>4
    <3> QED
      BY <3>1, <2>1, MissNat
  <2>6. y \in Int
    BY <2>4
  <2>7. reduceSourceAspect(Rounded(v, y), y) \in Ratio \cup {Bad}
    BY <2>5, <2>6, ReducedRatio
  <2> QED
    BY <2>7, <1>1, <1>4
<1> QED
  BY <1>2, <1>3, <1>4

LEMMA TextRatio ==
  ASSUME NEW t, Shape(t)
  PROVE  sourceAspectFromText(t) \in Ratio \cup {Bad}
<1>1. CASE t = Bad
  BY <1>1 DEF sourceAspectFromText
<1>2. CASE t # Bad /\ Len(t) = 1
  <2>1. t[1] \in Int
    BY <1>2 DEF Shape
  <2>2. sourceAspectFromText(t) = sourceAspectFromDouble(t[1])
    BY <1>2 DEF sourceAspectFromText
  <2> QED
    BY <2>1, <2>2, DecimalRatio
<1>3. CASE t # Bad /\ Len(t) = 2
  <2>1. t[1] \in Int /\ t[2] \in Int
    BY <1>3 DEF Shape
  <2>2. reduceSourceAspect(t[1], t[2]) \in Ratio \cup {Bad}
    BY <2>1, ReducedRatio
  <2>3. \/ sourceAspectFromText(t) = Bad
        \/ sourceAspectFromText(t) = reduceSourceAspect(t[1], t[2])
    BY <1>3 DEF sourceAspectFromText
  <2> QED
    BY <2>2, <2>3
<1> QED
  BY <1>1, <1>2, <1>3 DEF Shape

\* The streams that are read of an item are its own, or none.
LEMMA FirstIsFound ==
  ASSUME NEW m \in Metas, NEW chosen
  PROVE  FirstStream(m, chosen) \in ToSet(m.streams) \cup {NoStream}
<1> DEFINE n == Len(m.streams)
           S == {i \in 1..n : m.streams[i] \in chosen}
<1>1. m.streams \in Seq(ToSet(m.streams))
  BY MetasAssumption
<1>2. n \in Nat /\ DOMAIN m.streams = 1..n
  BY <1>1
<1>3. \A i \in 1..n : m.streams[i] \in ToSet(m.streams)
  BY <1>2 DEF ToSet
<1>4. S \subseteq 1..n
  OBVIOUS
<1> HIDE DEF S, n
<1>5. S # {} => Min(S) \in 1..n /\ Min(S) # 0
  BY <1>2, <1>4, MinWithin
<1>6. FirstStream(m, chosen) = IF S # {} /\ Min(S) # 0 THEN m.streams[Min(S)] ELSE NoStream
  BY <1>2 DEF FirstStream, SelectInSeq, S, n
<1> QED
  BY <1>3, <1>5, <1>6

LEMMA StreamsFound ==
  ASSUME NEW m \in Metas
  PROVE  /\ VideoStream(m) \in ToSet(m.streams) \cup {NoStream}
         /\ FirstStream(m, {s \in Videos(m) : s.tag = "type"}) \in ToSet(m.streams) \cup {NoStream}
         /\ FirstStream(m, ToSet(m.streams)) \in ToSet(m.streams) \cup {NoStream}
BY FirstIsFound DEF VideoStream

LEMMA StreamRead ==
  ASSUME NEW m \in Metas, NEW s \in ToSet(m.streams) \cup {NoStream}
  PROVE  Rate(s.rate) /\ Shape(s.dar) /\ Shape(s.sar) /\ Pixels(s.size)
<1>1. CASE s = NoStream
  BY <1>1 DEF NoStream, Rate, Shape, Pixels
<1>2. CASE s # NoStream
  <2>1. s \in ToSet(m.streams)
    BY <1>2
  <2> QED
    BY <2>1, MetasAssumption
<1> QED
  BY <1>1, <1>2

LEMMA ItemRead ==
  ASSUME NEW m \in Metas
  PROVE  /\ Rate(StreamRate(m))
         /\ MediaSize(m) \in Seq(Nat) /\ Len(MediaSize(m)) = 2
         /\ Shape(Given(m.dar, VideoStream(m).dar)) /\ Shape(Given(m.sar, VideoStream(m).sar))
<1> DEFINE v == VideoStream(m)
           t == FirstStream(m, {s \in Videos(m) : s.tag = "type"})
           f == FirstStream(m, ToSet(m.streams))
<1>1. Rate(t.rate) /\ Rate(f.rate)
  <2>1. {t, f} \subseteq ToSet(m.streams) \cup {NoStream}
    BY StreamsFound
  <2> HIDE DEF t, f
  <2> QED
    BY <2>1, StreamRead
<1>2. Shape(v.dar) /\ Shape(v.sar) /\ Pixels(v.size)
  <2>1. v \in ToSet(m.streams) \cup {NoStream}
    BY StreamsFound
  <2> HIDE DEF v
  <2> QED
    BY <2>1, StreamRead
<1>3. Shape(m.dar) /\ Shape(m.sar) /\ Pixels(m.size)
  BY MetasAssumption
<1>4. StreamRate(m) = Given(t.rate, f.rate)
  BY DEF StreamRate
<1>5. MediaSize(m) = Given(v.size, Given(m.size, <<0, 0>>))
  BY DEF MediaSize
<1> HIDE DEF v, t, f
<1>6. Rate(StreamRate(m))
  BY <1>1, <1>4 DEF Given
<1>7. MediaSize(m) \in Seq(Nat) /\ Len(MediaSize(m)) = 2
  <2>1. <<0, 0>> \in Seq(Nat) /\ Len(<<0, 0>>) = 2
    OBVIOUS
  <2> QED
    BY <1>2, <1>3, <1>5, <2>1 DEF Given, Pixels
<1>8. Shape(Given(m.dar, v.dar)) /\ Shape(Given(m.sar, v.sar))
  BY <1>2, <1>3 DEF Given
<1> QED
  BY <1>6, <1>7, <1>8 DEF v

LEMMA ItemRatio ==
  ASSUME NEW m \in Metas
  PROVE  sourceAspectFromPlexMetadata(m) \in Ratio \cup {Bad}
<1> DEFINE v == VideoStream(m)
           dar == Given(m.dar, v.dar)
           sar == Given(m.sar, v.sar)
           square == Given(m.anamorphic, v.anamorphic) = "no"
           display == sourceAspectFromText(dar)
           sample == sourceAspectFromText(sar)
           pixels == MediaSize(m)
<1>1. pixels[1] \in Nat /\ pixels[2] \in Nat
  BY ItemRead
<1>2. display \in Ratio \cup {Bad} /\ sample \in Ratio \cup {Bad}
  BY ItemRead, TextRatio
<1>3. sourceAspectFromPlexMetadata(m) =
        IF display # Bad THEN display
        ELSE IF sample # Bad /\ pixels[1] > 0 /\ pixels[2] > 0
             THEN reduceSourceAspect(pixels[1] * sample[1], pixels[2] * sample[2])
        ELSE IF square THEN reduceSourceAspect(pixels[1], pixels[2]) ELSE Bad
  BY DEF sourceAspectFromPlexMetadata, sourceAspectFromMetadata
<1> HIDE DEF v, dar, sar, square, display, sample, pixels
<1>4. CASE display # Bad
  BY <1>2, <1>3, <1>4
<1>5. CASE display = Bad /\ sample # Bad /\ pixels[1] > 0 /\ pixels[2] > 0
  <2>1. sample[1] \in Nat /\ sample[2] \in Nat
    BY <1>2, <1>5 DEF Ratio
  <2> DEFINE a == pixels[1] * sample[1]  b == pixels[2] * sample[2]
  <2>2. a \in Int /\ b \in Int
    BY <2>1, <1>1
  <2> HIDE DEF a, b
  <2>3. reduceSourceAspect(a, b) \in Ratio \cup {Bad}
    BY <2>2, ReducedRatio
  <2>4. sourceAspectFromPlexMetadata(m) = reduceSourceAspect(a, b)
    BY <1>3, <1>5 DEF a, b
  <2> QED
    BY <2>3, <2>4
<1>6. CASE display = Bad /\ ~(sample # Bad /\ pixels[1] > 0 /\ pixels[2] > 0)
  <2>1. reduceSourceAspect(pixels[1], pixels[2]) \in Ratio \cup {Bad}
    BY <1>1, ReducedRatio
  <2> QED
    BY <2>1, <1>3, <1>6
<1> QED
  BY <1>4, <1>5, <1>6

------------------------------------------------------------------------------
(* The frame rate.                                                          *)

\* snapStdFps gives the standard rate it is near, or the rate itself.
LEMMA Snapped ==
  ASSUME NEW v \in Nat \ {0}, v <= 1000 * 1000
  PROVE  \/ \E i \in 1..11 : snapStdFps(v) = kStdFps[i] /\ Near(v, kStdFps[i])
         \/ snapStdFps(v) = <<v, 1000>> /\ \A i \in 1..11 : ~Near(v, kStdFps[i])
<1> DEFINE I == {i \in 1..Len(kStdFps) : Near(v, kStdFps[i])}
<1>1. I \subseteq 1..11 /\ I = {i \in 1..11 : Near(v, kStdFps[i])}
  BY DEF kStdFps
<1>2. snapStdFps(v) = IF I # {} /\ Min(I) # 0 THEN kStdFps[Min(I)] ELSE <<v, 1000>>
  BY DEF snapStdFps, SelectInSeq
<1> HIDE DEF I
<1>3. CASE I # {}
  <2>1. I \subseteq Nat
    BY <1>1
  <2>2. Min(I) \in I
    BY <2>1, <1>3, MinOf
  <2> QED
    BY <2>2, <1>1, <1>2, <1>3
<1>4. CASE I = {}
  BY <1>1, <1>2, <1>4
<1> QED
  BY <1>3, <1>4

\* A standard rate the display cannot keep up with is halved, and no other changes.
Paced(f) == setContentFpsRational(capExactFps(f))

LEMMA HalvedOrKept ==
  ASSUME NEW i \in 1..11
  PROVE  \E a \in Nat, b \in Nat : /\ Paced(kStdFps[i]) = <<a, b>>
                                   /\ kStdFps[i] = <<a, b>> \/ kStdFps[i] = <<2 * a, b>>
<1>1. \A a, b \in Nat : <<a, b>> # Bad
  BY ResolveAssumption
<1>2. CASE i \in 1..7
  <2>1. PICK a \in Nat, b \in Nat : /\ kStdFps[i] = <<a, b>> /\ a * 100 <= 3001 * b /\ b <= a /\ a <= 240 * b
    <3>1. kStdFps[i] \in {<<12, 1>>, <<15, 1>>, <<24000, 1001>>, <<24, 1>>, <<25, 1>>, <<30000, 1001>>, <<30, 1>>}
      BY <1>2 DEF kStdFps
    <3> QED
      BY <3>1
  <2>2. <<a, b>> # Bad
    BY <1>1
  <2>3. setContentFpsRational(capExactFps(<<a, b>>)) = <<a, b>>
    BY <2>1, <2>2 DEF capExactFps, setContentFpsRational
  <2> QED
    BY <2>1, <2>3 DEF Paced
<1>3. CASE i = 8
  <2>1. kStdFps[i] = <<48, 1>>
    BY <1>3 DEF kStdFps
  <2>2. <<48, 1>> # Bad /\ <<24, 1>> # Bad
    BY <1>1
  <2>3. capExactFps(<<48, 1>>) = <<24, 1>>
    BY <2>2 DEF capExactFps
  <2>4. setContentFpsRational(<<24, 1>>) = <<24, 1>>
    BY <2>2 DEF setContentFpsRational
  <2>5. kStdFps[i] = <<2 * 24, 1>>
    BY <2>1
  <2>6. Paced(kStdFps[i]) = <<24, 1>>
    BY <2>1, <2>3, <2>4 DEF Paced
  <2> QED
    BY <2>5, <2>6
<1>4. CASE i = 9
  <2>1. kStdFps[i] = <<50, 1>>
    BY <1>4 DEF kStdFps
  <2>2. <<50, 1>> # Bad /\ <<25, 1>> # Bad
    BY <1>1
  <2>3. capExactFps(<<50, 1>>) = <<25, 1>>
    BY <2>2 DEF capExactFps
  <2>4. setContentFpsRational(<<25, 1>>) = <<25, 1>>
    BY <2>2 DEF setContentFpsRational
  <2>5. kStdFps[i] = <<2 * 25, 1>>
    BY <2>1
  <2>6. Paced(kStdFps[i]) = <<25, 1>>
    BY <2>1, <2>3, <2>4 DEF Paced
  <2> QED
    BY <2>5, <2>6
<1>5. CASE i = 10
  <2>1. kStdFps[i] = <<60000, 1001>>
    BY <1>5 DEF kStdFps
  <2>2. <<60000, 1001>> # Bad /\ <<30000, 1001>> # Bad
    BY <1>1
  <2>3. capExactFps(<<60000, 1001>>) = <<30000, 1001>>
    BY <2>2 DEF capExactFps
  <2>4. setContentFpsRational(<<30000, 1001>>) = <<30000, 1001>>
    BY <2>2 DEF setContentFpsRational
  <2>5. kStdFps[i] = <<2 * 30000, 1001>>
    BY <2>1
  <2>6. Paced(kStdFps[i]) = <<30000, 1001>>
    BY <2>1, <2>3, <2>4 DEF Paced
  <2> QED
    BY <2>5, <2>6
<1>6. CASE i = 11
  <2>1. kStdFps[i] = <<60, 1>>
    BY <1>6 DEF kStdFps
  <2>2. <<60, 1>> # Bad /\ <<30, 1>> # Bad
    BY <1>1
  <2>3. capExactFps(<<60, 1>>) = <<30, 1>>
    BY <2>2 DEF capExactFps
  <2>4. setContentFpsRational(<<30, 1>>) = <<30, 1>>
    BY <2>2 DEF setContentFpsRational
  <2>5. kStdFps[i] = <<2 * 30, 1>>
    BY <2>1
  <2>6. Paced(kStdFps[i]) = <<30, 1>>
    BY <2>1, <2>3, <2>4 DEF Paced
  <2> QED
    BY <2>5, <2>6
<1> QED
  BY <1>2, <1>3, <1>4, <1>5, <1>6

LEMMA InStepOf ==
  ASSUME NEW v \in Nat, NEW a \in Nat, NEW b \in Nat, NEW f, Near(v, f),
         f = <<a, b>> \/ f = <<2 * a, b>>, NEW g, g[1] = a, g[2] = b
  PROVE  InStep(v, g)
<1>1. CASE f = <<a, b>>
  <2>1. Gap(v * b, 1 * a * 1000) <= 10 * b
    BY <1>1 DEF Near
  <2> QED
    BY <2>1 DEF InStep
<1>2. CASE f = <<2 * a, b>>
  <2>1. Gap(v * b, 2 * a * 1000) <= 10 * b
    BY <1>2 DEF Near
  <2> QED
    BY <2>1 DEF InStep
<1> QED
  BY <1>1, <1>2

LEMMA StandardPaced ==
  ASSUME NEW v \in Nat, NEW i \in 1..11, Near(v, kStdFps[i])
  PROVE  InStep(v, Paced(kStdFps[i]))
<1>1. PICK a \in Nat, b \in Nat : /\ Paced(kStdFps[i]) = <<a, b>>
                                  /\ kStdFps[i] = <<a, b>> \/ kStdFps[i] = <<2 * a, b>>
  BY HalvedOrKept
<1>2. Paced(kStdFps[i])[1] = a /\ Paced(kStdFps[i])[2] = b
  BY <1>1
<1> QED
  BY <1>1, <1>2, InStepOf

\* The paced rate of RatesAgree.
LEMMA PacedRate ==
  ASSUME NEW v \in Nat \ {0}, v <= 1000 * 1000, Showable(v)
  PROVE  InStep(v, Paced(snapStdFps(v)))
<1> DEFINE p == Paced(snapStdFps(v))
<1>1. ASSUME NEW i \in 1..11, snapStdFps(v) = kStdFps[i], Near(v, kStdFps[i])
      PROVE  InStep(v, p)
  <2>1. InStep(v, Paced(kStdFps[i]))
    BY <1>1, StandardPaced
  <2> QED
    BY <2>1, <1>1
<1>2. ASSUME snapStdFps(v) = <<v, 1000>>, \A i \in 1..11 : ~Near(v, kStdFps[i])
      PROVE  InStep(v, p)
  <2>1. 1000 <= v /\ v <= 30010
    <3>1. DOMAIN kStdFps = 1..11
      BY DEF kStdFps
    <3>2. (1000 <= v /\ v <= 30010) \/ \E i \in 1..11 : Near(v, kStdFps[i])
      BY <3>1 DEF Showable
    <3>3. (1000 <= v /\ v <= 30010)
      BY <3>2, <1>2
    <3> QED
      BY <3>3
  <2>2. <<v, 1000>> # Bad
    BY ResolveAssumption
  <2>3. capExactFps(<<v, 1000>>) = <<v, 1000>>
    <3>1. v * 100 <= 3001 * 1000
      BY <2>1
    <3> QED
      BY <3>1 DEF capExactFps
  <2>4. setContentFpsRational(<<v, 1000>>) = <<v, 1000>>
    <3>1. ~(v < 1000) /\ ~(v > 240 * 1000)
      BY <2>1
    <3> QED
      BY <3>1, <2>2 DEF setContentFpsRational
  <2>5. p = <<v, 1000>>
    BY <1>2, <2>3, <2>4 DEF Paced
  <2> HIDE DEF p
  <2>6. Gap(v * 1000, 1 * v * 1000) <= 10 * 1000
    BY DEF Gap
  <2> QED
    BY <2>5, <2>6 DEF InStep
<1> HIDE DEF p
<1>3. InStep(v, p)
  BY <1>1, <1>2, Snapped
<1> QED
  BY <1>3 DEF p

\* The hint's special case, 25, is the nearest option all the same.
LEMMA NearestToPal ==
  ASSUME NEW v \in Nat, v \div 1000 = 25
  PROVE  bucketFps(v) = 24
<1>1. v \in 25000..25999
  BY FloorOf
<1> DEFINE d(i) == Gap(v, <<12, 24, 30, 60>>[i] * 1000)
           First(i) == \A j \in 1..4 : d(i) < d(j) \/ (d(i) = d(j) /\ i <= j)
<1>2. d(1) = v - 12000 /\ d(2) = v - 24000 /\ d(3) = 30000 - v /\ d(4) = 60000 - v
  BY <1>1 DEF Gap
<1> HIDE DEF d
<1>3. First(2) /\ \A i \in 1..4 : First(i) => i = 2
  BY <1>1, <1>2
<1> DEFINE c == CHOOSE i \in 1..4 : First(i)
<1>4. c = 2
  <2> HIDE DEF First
  <2> QED
    BY <1>3
<1>5. bucketFps(v) = <<12, 24, 30, 60>>[c]
  BY DEF bucketFps, First, d
<1> HIDE DEF First, c
<1> QED
  BY <1>4, <1>5

LEMMA HintNearest ==
  ASSUME NEW m \in Metas, StreamRate(m) # Bad \/ m.vfr.name = "number"
  PROVE  contentFpsHint(m.vfr, StreamRate(m)) = bucketFps(SourceRate(m))
<1>1. CASE StreamRate(m) # Bad
  BY <1>1 DEF contentFpsHint, SourceRate
<1>2. CASE StreamRate(m) = Bad
  <2>1. m.vfr.name = "number" /\ m.vfr.v \in Nat
    BY <1>2, MetasAssumption
  <2>2. contentFpsHint(m.vfr, StreamRate(m)) = IF m.vfr.v \div 1000 = 25 THEN 24 ELSE bucketFps(m.vfr.v)
    BY <1>2, <2>1 DEF contentFpsHint
  <2>3. SourceRate(m) = m.vfr.v
    BY <1>2 DEF SourceRate
  <2> QED
    BY <2>1, <2>2, <2>3, NearestToPal
<1> QED
  BY <1>1, <1>2

\* The rates that are near a standard one.
LEMMA NearHertz ==
  ASSUME NEW v \in Nat, NEW a \in Nat, NEW b \in Nat \ {0}, Near(v, <<a, b>>), 11 * b <= a, a <= 60 * b
  PROVE  10990 <= v /\ v <= 60010
<1>1. Gap(v * b, a * 1000) <= 10 * b
  BY DEF Near
<1>2. v * b \in Nat /\ v * b <= 60010 * b /\ 10990 * b <= v * b
  BY <1>1 DEF Gap
<1>3. v <= 60010
  <2> SUFFICES ASSUME v >= 60011 PROVE FALSE
    OBVIOUS
  <2>1. v * b >= 60011 * b
    OBVIOUS
  <2> QED
    BY <2>1, <1>2
<1>4. 10990 <= v
  <2> SUFFICES ASSUME v <= 10989 PROVE FALSE
    OBVIOUS
  <2>1. v * b <= 10989 * b
    OBVIOUS
  <2> QED
    BY <2>1, <1>2
<1> QED
  BY <1>3, <1>4

LEMMA StandardHertz ==
  ASSUME NEW v \in Nat, NEW i \in 1..11, Near(v, kStdFps[i])
  PROVE  10990 <= v /\ v <= 60010
<1>1. CASE i \in 1..7
  <2>1. kStdFps[i] \in {<<12, 1>>, <<15, 1>>, <<24000, 1001>>, <<24, 1>>, <<25, 1>>, <<30000, 1001>>, <<30, 1>>}
    BY <1>1 DEF kStdFps
  <2>2. PICK a \in Nat, b \in Nat \ {0} : kStdFps[i] = <<a, b>> /\ 11 * b <= a /\ a <= 60 * b
    BY <2>1
  <2> QED
    BY <2>2, NearHertz
<1>2. CASE i \in 8..11
  <2>1. kStdFps[i] \in {<<48, 1>>, <<50, 1>>, <<60000, 1001>>, <<60, 1>>}
    BY <1>2 DEF kStdFps
  <2>2. PICK a \in Nat, b \in Nat \ {0} : kStdFps[i] = <<a, b>> /\ 11 * b <= a /\ a <= 60 * b
    BY <2>1
  <2> QED
    BY <2>2, NearHertz
<1> QED
  BY <1>1, <1>2

LEMMA StandardRate ==
  ASSUME NEW v \in Nat, Showable(v)
  PROVE  v # 0 /\ v <= 1000 * 1000 /\ snapStdFps(v) # Bad
<1>1. v # 0 /\ v <= 1000 * 1000
  <2>1. ASSUME NEW i \in 1..11, Near(v, kStdFps[i]) PROVE 10990 <= v /\ v <= 60010
    BY <2>1, StandardHertz
  <2>2. DOMAIN kStdFps = 1..11
    BY DEF kStdFps
  <2>3. (1000 <= v /\ v <= 30010) \/ \E i \in 1..11 : Near(v, kStdFps[i])
    BY <2>2 DEF Showable
  <2>4. 1000 <= v /\ v <= 60010
    BY <2>1, <2>3
  <2> QED
    BY <2>4 
<1>2. \A i \in 1..11 : kStdFps[i] \in Nat \X Nat
  BY DEF kStdFps
<1>3. snapStdFps(v) \in Nat \X Nat
  BY <1>1, <1>2, Snapped
<1>4. Bad \notin Nat \X Nat
  BY ResolveAssumption
<1> QED
  BY <1>1, <1>3, <1>4

\* The rate the configuration lets an item be paced by: the item's or its own.
RateOf(m, conf) == IF conf = Bad THEN SourceRate(m) ELSE conf

LEMMA PacedByRate ==
  ASSUME NEW m, NEW conf, conf # 0, snapStdFps(RateOf(m, conf)) # Bad,
         StreamRate(m) # Bad \/ m.vfr.name = "number"
  PROVE  PacedBy(conf, parseExactFps(m.vfr, StreamRate(m))) = Paced(snapStdFps(RateOf(m, conf)))
<1>1. CASE conf = Bad
  <2>1. parseExactFps(m.vfr, StreamRate(m)) = snapStdFps(SourceRate(m))
    BY <1>1 DEF parseExactFps, SourceRate, RateOf
  <2> QED
    BY <1>1, <2>1 DEF PacedBy, applyContentFpsConf, Paced, RateOf
<1>2. CASE conf # Bad
  BY <1>2 DEF PacedBy, applyContentFpsConf, Given, Paced, RateOf
<1> QED
  BY <1>1, <1>2

LEMMA SourceRateNat ==
  ASSUME NEW m \in Metas, StreamRate(m) # Bad \/ m.vfr.name = "number"
  PROVE  SourceRate(m) \in Nat
<1>1. CASE StreamRate(m) # Bad
  BY <1>1, ItemRead DEF SourceRate, Rate
<1>2. CASE StreamRate(m) = Bad
  BY <1>2, MetasAssumption DEF SourceRate
<1> QED
  BY <1>1, <1>2

\* RatesAgree, of what an item says and whatever rate the configuration puts over it.
ConfRate(conf) == conf = Bad \/ conf \in Nat

LEMMA RateOfItem ==
  ASSUME NEW m \in Metas, StreamRate(m) # Bad \/ m.vfr.name = "number",
         NEW conf, ConfRate(conf), Showable(RateOf(m, conf))
  PROVE  InStep(RateOf(m, conf), PacedBy(conf, parseExactFps(m.vfr, StreamRate(m))))
<1> DEFINE v == RateOf(m, conf)  f == parseExactFps(m.vfr, StreamRate(m))
<1>1. v \in Nat
  <2>1. SourceRate(m) \in Nat
    BY SourceRateNat
  <2> QED
    BY <2>1 DEF RateOf, ConfRate
<1>2. Showable(v)
  OBVIOUS
<1> HIDE DEF v
<1>3. v # 0 /\ v <= 1000 * 1000 /\ snapStdFps(v) # Bad
  BY <1>1, <1>2, StandardRate
<1>4. conf # 0
  <2>1. Bad \notin Nat
    BY ResolveAssumption
  <2>2. conf # Bad => v = conf
    BY DEF v, RateOf
  <2> QED
    BY <1>3, <2>1, <2>2
<1>5. snapStdFps(RateOf(m, conf)) # Bad
  BY <1>3 DEF v
<1>6. PacedBy(conf, f) = Paced(snapStdFps(v))
  BY <1>4, <1>5, PacedByRate DEF v
<1>7. v \in Nat \ {0}
  BY <1>1, <1>3
<1>8. InStep(v, Paced(snapStdFps(v)))
  BY <1>2, <1>3, <1>7, PacedRate
<1> HIDE DEF f
<1>9. InStep(v, PacedBy(conf, f))
  BY <1>6, <1>8
<1> QED
  BY <1>9 DEF v, f

------------------------------------------------------------------------------
(* The raster.                                                              *)

LEMMA EvenOf ==
  ASSUME NEW n \in Nat
  PROVE  /\ Even(n) \in Nat /\ Even(n) >= 2
         /\ (n < 2 /\ Even(n) = 2) \/ (Even(n) <= n /\ n <= Even(n) + 1)
BY DEF Even

LEMMA EvenWithin ==
  ASSUME NEW n \in Nat, n >= 2
  PROVE  Even(n) \in 2..n
<1>1. Even(n) \in Nat /\ Even(n) >= 2 /\ Even(n) <= n
  BY EvenOf
<1> QED
  BY <1>1

\* One side cut to a shape: the product with the shape is kept but for two of its
\* units, and never exceeded by more than the least picture does.
LEMMA SideKept ==
  ASSUME NEW w \in Nat, NEW y \in Nat, NEW x \in Nat \ {0}
  PROVE  LET e == Even((w * y) \div x)
         IN  /\ e \in Nat /\ e >= 2
             /\ e = 2 \/ e * x <= w * y
             /\ Gap(w * y, e * x) <= 2 * x
             /\ (w * y) \div x >= 2 => e * x <= w * y
<1> DEFINE p == w * y  q == p \div x  e == Even(q)
<1>1. p \in Nat
  OBVIOUS
<1> HIDE DEF p
<1>2. q \in Nat /\ x * q <= p /\ p < x * q + x
  BY <1>1, FloorOf
<1> HIDE DEF q
<1>3. e \in Nat /\ e >= 2 /\ ((q < 2 /\ e = 2) \/ (e <= q /\ q <= e + 1))
  BY <1>2, EvenOf
<1> HIDE DEF e
<1>4. CASE q < 2 /\ e = 2
  <2>1. x * q <= x * 1
    BY <1>2, <1>4
  <2>2. e * x = 2 * x /\ p < 2 * x
    BY <1>1, <1>2, <1>4, <2>1
  <2>3. Gap(p, e * x) <= 2 * x
    BY <1>1, <2>2 DEF Gap
  <2> QED
    BY <1>3, <1>4, <2>3 DEF p, q, e
<1>5. CASE e <= q /\ q <= e + 1
  <2>1. x * e <= x * q /\ x * q <= x * (e + 1)
    BY <1>2, <1>3, <1>5
  <2>2. x * (e + 1) = e * x + x /\ x * e = e * x /\ x * q \in Nat /\ e * x \in Nat
    BY <1>2, <1>3
  <2>3. e * x <= p /\ p < e * x + 2 * x
    BY <1>1, <1>2, <2>1, <2>2
  <2>4. Gap(p, e * x) <= 2 * x
    BY <1>1, <2>2, <2>3 DEF Gap
  <2> QED
    BY <1>3, <2>3, <2>4 DEF p, q, e
<1> QED
  BY <1>3, <1>4, <1>5

LEMMA CancelLess ==
  ASSUME NEW a \in Nat, NEW b \in Nat, NEW c \in Nat \ {0}, a * c <= b * c
  PROVE  a <= b
<1> SUFFICES ASSUME b + 1 <= a PROVE FALSE
  OBVIOUS
<1>1. (b + 1) * c <= a * c
  OBVIOUS
<1>2. (b + 1) * c = b * c + c /\ b * c \in Nat /\ a * c \in Nat
  OBVIOUS
<1> QED
  BY <1>1, <1>2

\* A side within the ladder's: of the two, the shape decides which is whole.
LEMMA SideWithin ==
  ASSUME NEW w \in Nat, NEW h \in Nat, h >= 2, NEW y \in Nat, NEW x \in Nat \ {0}, w * y <= h * x
  PROVE  Even((w * y) \div x) <= h
<1> DEFINE e == Even((w * y) \div x)
<1>1. e \in Nat /\ (e = 2 \/ e * x <= w * y)
  BY SideKept
<1> HIDE DEF e
<1>2. CASE e = 2
  BY <1>2 DEF e
<1>3. CASE e * x <= w * y
  <2>1. w * y \in Nat /\ h * x \in Nat /\ e * x \in Nat
    BY <1>1
  <2>2. e * x <= h * x
    BY <1>3, <2>1
  <2>3. e <= h
    BY <1>1, <2>2, CancelLess
  <2> QED
    BY <2>3 DEF e
<1> QED
  BY <1>1, <1>2, <1>3

\* The raster keeps a shape to a few pixels.
KeepsShape(r, a) == Gap(r[1] * a[2], r[2] * a[1]) <= 2 * (a[1] + a[2])

LEMMA InLadderFits ==
  ASSUME NEW l, l.w \in Nat, l.h \in Nat, l.w >= 2, l.h >= 2, l.w % 2 = 0, l.h % 2 = 0,
         NEW a \in Ratio
  PROVE  LET r == InLadder(l, a)
         IN  r[1] \in 2..l.w /\ r[2] \in 2..l.h /\ KeepsShape(r, a)
<1> DEFINE w == l.w  h == l.h  x == a[1]  y == a[2]  r == InLadder(l, a)
<1>1. x \in Nat \ {0} /\ y \in Nat \ {0} /\ w \in Nat /\ h \in Nat /\ w >= 2 /\ h >= 2
  BY DEF Ratio
<1>2. Even(w) = w /\ Even(h) = h
  BY <1>1 DEF Even
<1>3. r = IF x * h >= y * w THEN <<w, Even((w * y) \div x)>> ELSE <<Even((h * x) \div y), h>>
  BY <1>2 DEF InLadder
<1> HIDE DEF w, h, x, y, r
<1>4. x * h \in Nat /\ y * w \in Nat /\ x * h = h * x /\ y * w = w * y
  BY <1>1
<1>5. CASE x * h >= y * w
  <2> DEFINE e == Even((w * y) \div x)
  <2>1. e \in Nat /\ e >= 2 /\ Gap(w * y, e * x) <= 2 * x
    BY <1>1, SideKept
  <2>2. e <= h
    BY <1>1, <1>4, <1>5, SideWithin
  <2>3. r = <<w, e>>
    BY <1>3, <1>5
  <2> HIDE DEF e
  <2>4. Gap(r[1] * y, r[2] * x) <= 2 * x /\ r[1] = w /\ r[2] = e
    BY <2>1, <2>3
  <2>5. Gap(r[1] * y, r[2] * x) \in Int
    BY <1>1, <2>1, <2>4 DEF Gap
  <2>6. Gap(r[1] * y, r[2] * x) <= 2 * (x + y)
    BY <1>1, <2>4, <2>5
  <2> QED
    BY <1>1, <2>1, <2>2, <2>4, <2>6 DEF KeepsShape, w, h, x, y, r
<1>6. CASE x * h < y * w
  <2> DEFINE e == Even((h * x) \div y)
  <2>1. e \in Nat /\ e >= 2 /\ Gap(h * x, e * y) <= 2 * y
    BY <1>1, SideKept
  <2>2. e <= w
    <3>1. h * x <= w * y
      BY <1>4, <1>6
    <3> QED
      BY <1>1, <3>1, SideWithin
  <2>3. r = <<e, h>>
    BY <1>1, <1>3, <1>4, <1>6
  <2> HIDE DEF e
  <2>4. r[1] = e /\ r[2] = h
    BY <2>3
  <2>5. Gap(e * y, h * x) = Gap(h * x, e * y) /\ Gap(h * x, e * y) \in Int
    <3>1. e * y \in Int /\ h * x \in Int
      BY <1>1, <2>1
    <3> QED
      BY <3>1 DEF Gap
  <2>6. Gap(r[1] * y, r[2] * x) <= 2 * (x + y)
    BY <1>1, <2>1, <2>4, <2>5
  <2> QED
    BY <1>1, <2>1, <2>2, <2>4, <2>6 DEF KeepsShape, w, h, x, y, r
<1> QED
  BY <1>4, <1>5, <1>6

\* A raster of the 480 row that is over the decoder's budget is of a shape between
\* 513:480 and 640:385.
LEMMA OverBudgetShape ==
  ASSUME NEW l, l.w = 640, l.h = 480, NEW a \in Ratio,
         InLadder(l, a)[1] * InLadder(l, a)[2] > PixelBudget
  PROVE  385 * a[1] <= 640 * a[2] /\ 513 * a[2] <= 480 * a[1]
<1> DEFINE x == a[1]  y == a[2]
<1>1. x \in Nat \ {0} /\ y \in Nat \ {0}
  BY DEF Ratio
<1>2. Even(640) = 640 /\ Even(480) = 480 /\ PixelBudget = 640 * 384
  BY DEF Even, PixelBudget
<1> DEFINE e == Even((640 * y) \div x)  f == Even((480 * x) \div y)
<1>3. InLadder(l, a) = IF x * 480 >= y * 640 THEN <<640, e>> ELSE <<f, 480>>
  BY <1>2 DEF InLadder
<1>4. e \in Nat /\ (e = 2 \/ e * x <= 640 * y)
  BY <1>1, SideKept
<1>5. f \in Nat /\ (f = 2 \/ f * y <= 480 * x)
  BY <1>1, SideKept
<1> HIDE DEF x, y, e, f
<1>6. CASE x * 480 >= y * 640
  <2>1. 640 * e > 640 * 384
    BY <1>2, <1>3, <1>6
  <2>2. e >= 385 /\ e * x <= 640 * y
    BY <2>1, <1>4
  <2>3. 385 * x <= e * x
    BY <2>2, <1>1, <1>4
  <2>4. 385 * x <= 640 * y
    BY <2>2, <2>3, <1>1, <1>4
  <2> QED
    BY <2>4, <1>1, <1>6 DEF x, y
<1>7. CASE x * 480 < y * 640
  <2>1. f * 480 > 640 * 384
    BY <1>1, <1>2, <1>3, <1>7
  <2>2. f >= 513 /\ f * y <= 480 * x
    BY <2>1, <1>5
  <2>3. 513 * y <= f * y
    BY <2>2, <1>1, <1>5
  <2>4. 513 * y <= 480 * x
    BY <2>2, <2>3, <1>1, <1>5
  <2> QED
    BY <2>4, <1>1, <1>7 DEF x, y
<1> QED
  BY <1>1, <1>6, <1>7

\* The width of a raster of such a shape within the budget.
BudgetSide(x, y) == Isqrt((PixelBudget * x) \div y)

OverShape(x, y) == 385 * x <= 640 * y /\ 513 * y <= 480 * x
WidthWithin(w, x, y) == w \in 2..639 /\ (w * w) * y <= (640 * 384) * x

LEMMA BudgetWidth ==
  ASSUME NEW x \in Nat \ {0}, NEW y \in Nat \ {0}, OverShape(x, y)
  PROVE  WidthWithin(BudgetSide(x, y), x, y)
<1>0. 385 * x <= 640 * y /\ 513 * y <= 480 * x
  BY DEF OverShape
<1> DEFINE p == PixelBudget * x  n == p \div y  w == BudgetSide(x, y)
<1>1. p = (640 * 384) * x /\ p \in Nat
  BY DEF PixelBudget
<1> HIDE DEF p
<1>2. n \in Nat /\ y * n <= p /\ p < y * n + y
  BY <1>1, FloorOf
<1> HIDE DEF n
<1>3. n < 640 * 640
  <2> SUFFICES ASSUME n >= 640 * 640 PROVE FALSE
    BY <1>2
  <2>1. y * n >= y * 640 * 640
    BY <1>2
  <2> QED
    BY <2>1, <1>0, <1>1, <1>2
<1>4. n >= 16
  <2> SUFFICES ASSUME n <= 15 PROVE FALSE
    BY <1>2
  <2>1. y * n <= y * 15
    BY <1>2
  <2> QED
    BY <2>1, <1>0, <1>1, <1>2
<1>5. w \in 0..1024 /\ w * w <= n /\ n < (w + 1) * (w + 1)
  <2>1. w = Isqrt(n)
    BY DEF n, p, BudgetSide
  <2>2. n < 1025 * 1025
    BY <1>2, <1>3
  <2> QED
    BY <2>1, <2>2, <1>2, IsqrtFound
<1> HIDE DEF w
<1>6. w < 640
  <2> SUFFICES ASSUME w >= 640 PROVE FALSE
    BY <1>5
  <2>1. w * w >= 640 * 640
    BY <1>5
  <2> QED
    BY <2>1, <1>2, <1>3, <1>5
<1>7. w >= 2
  <2> SUFFICES ASSUME w \in {0, 1} PROVE FALSE
    BY <1>5
  <2> QED
    BY <1>2, <1>4, <1>5
<1>8. (w * w) * y <= (640 * 384) * x
  <2> DEFINE s == w * w
  <2>1. s \in Nat /\ s <= n
    BY <1>5
  <2> HIDE DEF s
  <2>2. s * y <= n * y /\ n * y = y * n /\ s * y \in Nat /\ y * n \in Nat
    BY <2>1, <1>2
  <2>3. s * y <= (640 * 384) * x
    BY <2>2, <1>1, <1>2
  <2> QED
    BY <2>3 DEF s
<1> QED
  BY <1>5, <1>6, <1>7, <1>8 DEF w, WidthWithin

LEMMA InBudgetFits ==
  ASSUME NEW a \in Ratio, 385 * a[1] <= 640 * a[2], 513 * a[2] <= 480 * a[1]
  PROVE  LET r == InBudget(a)
         IN  r[1] \in 2..640 /\ r[2] \in 2..480 /\ r[1] * r[2] <= PixelBudget /\ KeepsShape(r, a)
<1> DEFINE x == a[1]  y == a[2]  w == BudgetSide(x, y)
           c == Even(w)  e == Even((c * y) \div x)  r == InBudget(a)
<1>1. x \in Nat \ {0} /\ y \in Nat \ {0}
  BY DEF Ratio
<1>2. w \in 2..639 /\ (w * w) * y <= (640 * 384) * x
  <2>1. 385 * x <= 640 * y /\ 513 * y <= 480 * x
    OBVIOUS
  <2> HIDE DEF x, y, w
  <2>2. OverShape(x, y)
    BY <2>1 DEF OverShape
  <2>3. WidthWithin(w, x, y)
    BY <1>1, <2>2, BudgetWidth DEF w
  <2> QED
    BY <2>3 DEF WidthWithin
<1>3. r = <<c, e>>
  BY DEF InBudget, BudgetSide
<1>10. 513 * y <= 480 * x
  OBVIOUS
<1> HIDE DEF w, x, y
<1>4. c \in 2..639 /\ c <= w
  <2>1. w \in Nat /\ w >= 2 /\ w <= 639
    BY <1>2
  <2>2. c \in 2..w
    BY <2>1, EvenWithin
  <2> QED
    BY <2>1, <2>2
<1> HIDE DEF c
<1>5. e \in Nat /\ e >= 2 /\ (e = 2 \/ e * x <= c * y) /\ Gap(c * y, e * x) <= 2 * x
  <2>1. c \in Nat
    BY <1>4
  <2> QED
    BY <2>1, <1>1, SideKept
<1> HIDE DEF e, r
<1>6. (c * c) * y <= (640 * 384) * x
  <2> DEFINE s == c * c  t == w * w
  <2>1. s <= t /\ s \in Nat /\ t \in Nat
    BY <1>2, <1>4
  <2>2. t * y <= (640 * 384) * x
    BY <1>2
  <2> HIDE DEF s, t
  <2>3. s * y <= t * y /\ s * y \in Nat /\ t * y \in Nat
    BY <1>1, <2>1
  <2>4. s * y <= (640 * 384) * x
    BY <1>1, <2>2, <2>3
  <2> QED
    BY <2>4 DEF s
<1>7. e <= 480 /\ c * e <= 640 * 384
  <2>1. CASE e = 2
    BY <1>4, <2>1
  <2>2. CASE e * x <= c * y
    <3>1. c * (e * x) <= c * (c * y)
      <4> DEFINE s == e * x  t == c * y
      <4>1. s <= t /\ s \in Nat /\ t \in Nat
        BY <2>2, <1>1, <1>4, <1>5
      <4> HIDE DEF s, t
      <4>2. c * s <= c * t
        BY <4>1, <1>4
      <4> QED
        BY <4>2 DEF s, t
    <3>2. c * (e * x) = (c * e) * x /\ c * (c * y) = (c * c) * y
      BY <1>1, <1>4, <1>5
    <3>3. (c * e) * x <= (640 * 384) * x
      <4> DEFINE s == (c * e) * x  t == (c * c) * y
      <4>1. s \in Nat /\ t \in Nat /\ s <= t /\ t <= (640 * 384) * x
        BY <3>1, <3>2, <1>1, <1>4, <1>5, <1>6
      <4> HIDE DEF s, t
      <4>2. s <= (640 * 384) * x
        BY <4>1, <1>1
      <4> QED
        BY <4>2 DEF s
    <3>4. c * e <= 640 * 384
      <4> DEFINE k == c * e
      <4>1. k \in Nat
        BY <1>4, <1>5
      <4>2. k * x <= (640 * 384) * x
        BY <3>3
      <4> HIDE DEF k
      <4>3. k <= 640 * 384
        BY <4>1, <4>2, <1>1, CancelLess
      <4> QED
        BY <4>3 DEF k
    <3>5. e <= 480
      <4> SUFFICES ASSUME e >= 481 PROVE FALSE
        BY <1>5
      <4>1. c <= 510
        <5> SUFFICES ASSUME c >= 511 PROVE FALSE
          BY <1>4
        <5>1. c * e >= 511 * e
          BY <1>4, <1>5
        <5> QED
          BY <5>1, <3>4, <1>4, <1>5
      <4>2. 481 * x <= e * x /\ c * y <= 510 * y
        BY <4>1, <1>1, <1>4, <1>5
      <4>3. e * x \in Nat /\ c * y \in Nat
        BY <1>1, <1>4, <1>5
      <4>4. 481 * x <= 510 * y
        BY <4>2, <4>3, <2>2, <1>1
      <4> QED
        BY <4>4, <1>10, <1>1
    <3> QED
      BY <3>4, <3>5
  <2> QED
    BY <1>5, <2>1, <2>2
<1>8. Gap(r[1] * y, r[2] * x) <= 2 * (x + y)
  <2>1. r[1] = c /\ r[2] = e
    BY <1>3
  <2>2. Gap(c * y, e * x) \in Int
    BY <1>1, <1>4, <1>5 DEF Gap
  <2> QED
    BY <2>1, <2>2, <1>1, <1>5
<1>9. r[1] = c /\ r[2] = e /\ PixelBudget = 640 * 384
  BY <1>3 DEF PixelBudget
<1> QED
  BY <1>4, <1>5, <1>7, <1>8, <1>9 DEF KeepsShape, x, y, r

\* RasterFits, of what a row of the menu asks for a shape.
RasterFitsShape(l, label, conf, a) ==
    LET full == Profiles[label]
    IN  /\ l.w <= full.w /\ l.h <= full.h
        /\ (\A f \in DOMAIN conf : conf[f] = Bad) => validateWeakLadder(l)
        /\ (full.h <= 480 /\ a # Bad) =>
              /\ l.w * l.h <= PixelBudget
              /\ Gap(l.w * a[2], l.h * a[1]) <= 2 * (a[1] + a[2])

LEMMA FittedRaster ==
  ASSUME NEW l, l.w \in Nat, l.h \in Nat,
         (l.w = 320 /\ l.h = 240) \/ (l.w = 640 /\ l.h = 480),
         DOMAIN l = {"w", "h", "kbps", "quality", "profile", "level"},
         NEW a \in Ratio, a # Bad
  PROVE  LET f == fitWeakLadderToAspect(l, a)
         IN  /\ f.w \in 2..l.w /\ f.h \in 2..l.h /\ f.w * f.h <= PixelBudget
             /\ Gap(f.w * a[2], f.h * a[1]) <= 2 * (a[1] + a[2])
             /\ f.kbps = l.kbps /\ f.quality = l.quality /\ f.profile = l.profile /\ f.level = l.level
<1> DEFINE fit == InLadder(l, a)
           over == l.w <= 640 /\ l.h <= 480 /\ fit[1] * fit[2] > PixelBudget
           r == IF over THEN InBudget(a) ELSE fit
           f == fitWeakLadderToAspect(l, a)
<1>1. fit[1] \in 2..l.w /\ fit[2] \in 2..l.h /\ KeepsShape(fit, a)
  BY InLadderFits
<1>2. f = [l EXCEPT !.w = r[1], !.h = r[2]]
  BY DEF fitWeakLadderToAspect
<1>3. r[1] \in 2..l.w /\ r[2] \in 2..l.h /\ r[1] * r[2] <= PixelBudget /\ KeepsShape(r, a)
  <2>1. CASE over
    <3>1. l.w = 640 /\ l.h = 480
      <4>1. ASSUME l.w = 320, l.h = 240 PROVE FALSE
        <5> DEFINE s == fit[1]  t == fit[2]
        <5>1. s \in 2..320 /\ t \in 2..240 /\ s * t > 640 * 384
          BY <1>1, <2>1, <4>1 DEF PixelBudget
        <5> HIDE DEF s, t
        <5>2. s * t <= 320 * t
          BY <5>1
        <5> QED
          BY <5>1, <5>2
      <4> QED
        BY <4>1
    <3>2. 385 * a[1] <= 640 * a[2] /\ 513 * a[2] <= 480 * a[1]
      BY <2>1, <3>1, OverBudgetShape
    <3>3. r = InBudget(a)
      BY <2>1
    <3> HIDE DEF r
    <3> QED
      BY <3>1, <3>2, <3>3, InBudgetFits
  <2>2. CASE ~over
    <3> DEFINE s == fit[1]  t == fit[2]
    <3>1. r = fit /\ l.w <= 640 /\ l.h <= 480
      BY <2>2
    <3>2. s \in Int /\ t \in Int
      BY <1>1
    <3>3. ~(s * t > PixelBudget)
      BY <2>2, <3>1
    <3> HIDE DEF s, t
    <3>4. s * t <= PixelBudget
      BY <3>2, <3>3 DEF PixelBudget
    <3> HIDE DEF r
    <3> QED
      BY <1>1, <3>1, <3>4 DEF s, t
  <2> QED
    BY <2>1, <2>2
<1> HIDE DEF r, f
<1>4. /\ f.w = r[1] /\ f.h = r[2] /\ f.kbps = l.kbps /\ f.quality = l.quality
      /\ f.profile = l.profile /\ f.level = l.level
  BY <1>2
<1> QED
  BY <1>3, <1>4 DEF KeepsShape, f

LEMMA RasterOfRow ==
  ASSUME NEW label \in DOMAIN Profiles, NEW conf, DOMAIN conf = {"kbps", "quality", "profile"},
         NEW a \in Ratio \cup {Bad}
  PROVE  RasterFitsShape(fitWeakLadderToAspect(weakForContentResolution(label, conf), a), label, conf, a)
<1> DEFINE p == Profiles[label]
           l == weakForContentResolution(label, conf)
           f == fitWeakLadderToAspect(l, a)
           plain == \A k \in DOMAIN conf : conf[k] = Bad
<1>1. l = [p EXCEPT !.kbps = Given(conf.kbps, ContentKbps[label]), !.quality = Given(conf.quality, p.quality),
                    !.profile = Given(conf.profile, p.profile)]
  BY DEF weakForContentResolution
<1>2. DOMAIN p = {"w", "h", "kbps", "quality", "profile", "level"}
  BY DEF Profiles
<1>3. DOMAIN l = DOMAIN p /\ l.w = p.w /\ l.h = p.h /\ l.level = p.level
  BY <1>1, <1>2
<1>4. plain => l.kbps = ContentKbps[label] /\ l.quality = p.quality /\ l.profile = p.profile
  BY <1>1, <1>2 DEF Given
<1>5. /\ label = "p240" => p.w = 320 /\ p.h = 240 /\ p.quality = 40 /\ p.profile = "baseline" /\ p.level = 30
                            /\ ContentKbps[label] = 1000
      /\ label = "p480" => p.w = 640 /\ p.h = 480 /\ p.quality = 60 /\ p.profile = "baseline" /\ p.level = 30
                            /\ ContentKbps[label] = 2500
      /\ label = "p720" => p.w = 1280 /\ p.h = 720 /\ p.quality = 70 /\ p.profile = "main" /\ p.level = 31
                            /\ ContentKbps[label] = 20000
  BY DEF Profiles, ContentKbps
<1>6. label \in {"p240", "p480", "p720"}
  BY DEF Profiles
<1> HIDE DEF l, p, plain
<1>7. CASE a = Bad \/ label = "p720"
  <2>1. f = l
    BY <1>3, <1>5, <1>7 DEF fitWeakLadderToAspect
  <2>2. plain => validateWeakLadder(l)
    BY <1>3, <1>4, <1>5, <1>6 DEF validateWeakLadder
  <2> HIDE DEF f
  <2>3. ~(p.h <= 480 /\ a # Bad)
    BY <1>5, <1>7
  <2>4. l.w <= p.w /\ l.h <= p.h
    BY <1>3, <1>5, <1>6
  <2> QED
    BY <2>1, <2>2, <2>3, <2>4 DEF RasterFitsShape, p, plain, f, l
<1>8. CASE a # Bad /\ label # "p720"
  <2>1. a \in Ratio
    BY <1>8
  <2>2. /\ f.w \in 2..l.w /\ f.h \in 2..l.h /\ f.w * f.h <= PixelBudget
        /\ Gap(f.w * a[2], f.h * a[1]) <= 2 * (a[1] + a[2])
        /\ f.kbps = l.kbps /\ f.quality = l.quality /\ f.profile = l.profile /\ f.level = l.level
    BY <1>2, <1>3, <1>5, <1>6, <1>8, <2>1, FittedRaster
  <2> HIDE DEF f
  <2>3. plain => validateWeakLadder(f)
    BY <2>2, <1>3, <1>4, <1>5, <1>6, <1>8 DEF validateWeakLadder
  <2>4. f.w <= p.w /\ f.h <= p.h
    BY <2>2, <1>3, <1>5, <1>6
  <2> QED
    BY <2>2, <2>3, <2>4 DEF RasterFitsShape, p, plain, f, l
<1> QED
  BY <1>7, <1>8

------------------------------------------------------------------------------
(* The queue.                                                               *)

LEMMA FirstIndex ==
  ASSUME NEW n \in Nat, NEW I, I \subseteq 1..n, NEW i \in I, \A j \in 1..(i - 1) : j \notin I
  PROVE  Min(I) = i
<1>1. I \subseteq Nat /\ I # {}
  OBVIOUS
<1>2. Min(I) \in I /\ Min(I) <= i
  BY <1>1, MinOf
<1>3. Min(I) \notin 1..(i - 1)
  BY <1>2
<1>4. Min(I) \in 1..n /\ i \in 1..n
  BY <1>2
<1> QED
  BY <1>2, <1>3, <1>4

\* QueueItemFound, of any queue.
QueueFound(q) ==
    \A i \in DOMAIN q.items :
        LET it == q.items[i]
        IN  /\ (/\ q.itemId = it.id /\ q.itemId # <<>>
                /\ \A j \in 1..(i - 1) : /\ ~Occurs(q.items[j].key, q.itemId)
                                         /\ q.itemId \notin {q.items[j].ratingKey, q.items[j].id})
                  => currentIndex(q) = i
            /\ (/\ q.itemId = <<>> /\ q.key = it.key
                /\ \A j \in 1..(i - 1) : /\ q.key # q.items[j].key
                                         /\ q.items[j].ratingKey = <<>> \/ ~Occurs(q.key, q.items[j].ratingKey))
                  => currentIndex(q) = i

LEMMA ItemOfQueue ==
  ASSUME NEW q, q.items \in Seq(ToSet(q.items))
  PROVE  QueueFound(q)
<1> DEFINE n == Len(q.items)
           ById(it) == it.id = q.itemId \/ it.ratingKey = q.itemId \/ Occurs(it.key, q.itemId)
           ByKey(it) == it.key = q.key \/ (it.ratingKey # <<>> /\ Occurs(q.key, it.ratingKey))
           I == {k \in 1..n : ById(q.items[k])}
           K == {k \in 1..n : ByKey(q.items[k])}
<1> SUFFICES ASSUME NEW i \in DOMAIN q.items
             PROVE  /\ (/\ q.itemId = q.items[i].id /\ q.itemId # <<>>
                        /\ \A j \in 1..(i - 1) : /\ ~Occurs(q.items[j].key, q.itemId)
                                                 /\ q.itemId \notin {q.items[j].ratingKey, q.items[j].id})
                          => currentIndex(q) = i
                    /\ (/\ q.itemId = <<>> /\ q.key = q.items[i].key
                        /\ \A j \in 1..(i - 1) :
                             /\ q.key # q.items[j].key
                             /\ q.items[j].ratingKey = <<>> \/ ~Occurs(q.key, q.items[j].ratingKey))
                          => currentIndex(q) = i
  BY DEF QueueFound
<1>1. n \in Nat /\ i \in 1..n
  OBVIOUS
<1>2. ASSUME q.itemId = q.items[i].id, q.itemId # <<>>,
             \A j \in 1..(i - 1) : /\ ~Occurs(q.items[j].key, q.itemId)
                                   /\ q.itemId \notin {q.items[j].ratingKey, q.items[j].id}
      PROVE  currentIndex(q) = i
  <2>1. i \in I /\ \A j \in 1..(i - 1) : j \notin I
    BY <1>1, <1>2
  <2>2. I \subseteq 1..n
    OBVIOUS
  <2>3. currentIndex(q) = LET s == IF I # {} THEN Min(I) ELSE 0 IN IF s = 0 THEN 1 ELSE s
    BY <1>2 DEF currentIndex, FirstItem, SelectInSeq
  <2> HIDE DEF I, n
  <2>4. Min(I) = i
    BY <1>1, <2>1, <2>2, FirstIndex
  <2> QED
    BY <1>1, <2>1, <2>3, <2>4
<1>3. ASSUME q.itemId = <<>>, q.key = q.items[i].key,
             \A j \in 1..(i - 1) : /\ q.key # q.items[j].key
                                   /\ q.items[j].ratingKey = <<>> \/ ~Occurs(q.key, q.items[j].ratingKey)
      PROVE  currentIndex(q) = i
  <2>1. i \in K /\ \A j \in 1..(i - 1) : j \notin K
    BY <1>1, <1>3
  <2>2. K \subseteq 1..n
    OBVIOUS
  <2>3. currentIndex(q) = LET s == IF K # {} THEN Min(K) ELSE 0 IN IF s = 0 THEN 1 ELSE s
    BY <1>3 DEF currentIndex, FirstItem, SelectInSeq
  <2> HIDE DEF K, n
  <2>4. Min(K) = i
    BY <1>1, <2>1, <2>2, FirstIndex
  <2> QED
    BY <1>1, <2>1, <2>3, <2>4
<1> QED
  BY <1>2, <1>3

------------------------------------------------------------------------------
(* The cast.                                                                *)

Resolving == {"metadata", "decision", "fallback", "unresolved", "probe"}
Sources == {"none", "test", "direct", "part", "universal"}
Tokens == 0..(TokenMod - 1)

\* The cast is known while it is resolved, and all that is left of it afterwards is
\* whether another layout may be tried.
AskShape ==
    IF at \in Resolving THEN ask \in Asks
    ELSE ask \in [kind : {"none"}, relayout : BOOLEAN, queue : {NoAsk.queue}]

CastShapes ==
    /\ at \in Resolving \cup {"boot", "idle", "publish", "ack", "retry", "start", "play", "failed"}
    /\ screen.fb \in BOOLEAN /\ screen.env \in {"unset", "0", "1"}
    /\ DOMAIN screen = {"mode", "hd", "fb", "env"} /\ casts \in 0..MaxCasts
    /\ token \in Tokens /\ core.token \in Tokens /\ (plxj = Bad \/ plxj.token \in Tokens)
    /\ DOMAIN result = {"from", "url", "fps", "hint", "aspect"} /\ result.from \in Sources

\* Whoever is asked is the server the cast selects or, when it names none, one of the
\* configuration's; and a cast that names one leaves no other to ask.
ServersKept ==
    at \in {"metadata", "decision", "fallback", "unresolved"} =>
        /\ left \in Seq(ToSet(ask.servers)) /\ (ask.address # Bad => left = <<>>)
        /\ base = Selected(ask) \/ (ask.address = Bad /\ base \in ToSet(ask.servers))
        /\ at # "unresolved" => base # Bad

\* What the first exchange told is what the second is asked with, and what is read
\* from it stays that of the item; a library item falls back only behind a refusal.
ItemKnown ==
    /\ meta \in Metas \cup {Bad}
    /\ (at \in {"decision", "fallback", "probe"} /\ meta # Bad) =>
         /\ result.fps = Described(meta).fps /\ result.hint = Described(meta).hint
         /\ result.aspect = Described(meta).aspect
    /\ (at \in {"decision", "fallback"} /\ meta = Bad) => result.aspect = Bad
    /\ at \notin {"decision", "fallback", "probe", "unresolved"} => meta = Bad
    /\ (at = "fallback" /\ ask.kind = "library") => refused

\* While an acknowledgement is awaited, the word in the mailbox is none, or of an
\* older packet, or what the core holds: the new token is not the one last read.
AckKnown ==
    /\ at \in {"ack", "start", "play"} => result.aspect # Bad
    /\ at = "ack" => plxj = Bad \/ plxj.token # token \/ plxj = core

LEMMA NewToken ==
  ASSUME CastShapes
  PROVE  NextToken \in Tokens /\ (plxj # Bad => plxj.token # NextToken)
<1> DEFINE last == IF plxj # Bad THEN plxj.token ELSE token
<1>1. last \in Tokens
  BY DEF CastShapes
<1>2. NextToken = (last + 1) % TokenMod
  BY DEF NextToken, readSourceAspectAck
<1> HIDE DEF last
<1>3. TokenMod \in Nat \ {0, 1}
  BY ResolveAssumption
<1>4. (last + 1) % TokenMod = IF last = TokenMod - 1 THEN 0 ELSE last + 1
  <2>1. CASE last = TokenMod - 1
    BY <2>1, <1>3
  <2>2. CASE last # TokenMod - 1
    BY <2>2, <1>1, <1>3 DEF Tokens
  <2> QED
    BY <2>1, <2>2
<1>5. NextToken \in Tokens /\ NextToken # last
  BY <1>1, <1>2, <1>3, <1>4 DEF Tokens
<1>6. plxj # Bad => plxj.token = last
  BY DEF last
<1> QED
  BY <1>5, <1>6

LEMMA SentToken ==
  ASSUME CastShapes, NEW a, SendSourceAspect(a)
  PROVE  token' = NextToken /\ token' \in Tokens /\ core'.token \in Tokens
<1>1. token' = NextToken /\ (core' = core \/ core' = [aspect |-> a, token |-> NextToken])
  BY DEF SendSourceAspect
<1>2. NextToken \in Tokens
  BY NewToken
<1> HIDE DEF NextToken
<1> QED
  BY <1>1, <1>2 DEF CastShapes

LEMMA NoResultShape ==
  /\ DOMAIN NoResult = {"from", "url", "fps", "hint", "aspect"} /\ NoResult.from = "none" /\ NoResult.aspect = Bad
  /\ DOMAIN TestPattern = DOMAIN NoResult /\ TestPattern.from = "test"
  /\ \A m : DOMAIN Described(m) = DOMAIN NoResult /\ Described(m).from = "none"
  /\ \A m : Described(m).aspect = sourceAspectFromPlexMetadata(m)
  /\ \A m : Described(m).fps = parseExactFps(m.vfr, StreamRate(m))
  /\ \A m : Described(m).hint = contentFpsHint(m.vfr, StreamRate(m))
BY DEF NoResult, TestPattern, Described

LEMMA CastShapesStep ==
  ASSUME CastShapes, AskShape, [CastNext]_castVars
  PROVE  CastShapes'
<1> USE DEF CastShapes, Resolving, Sources
<1>1. CASE Boot \/ Start
  <2>1. /\ casts' = casts /\ plxj' = plxj /\ result' = result
        /\ \/ at' = "play" /\ screen' = screen /\ token' = token /\ core' = core
           \/ initPresent("idle", "idle") \/ initPresent("play", "failed")
    BY <1>1 DEF Boot, Start
  <2>2. CASE at' = "play" /\ screen' = screen /\ token' = token /\ core' = core
    BY <2>1, <2>2
  <2>3. ASSUME NEW good \in {"idle", "play"}, NEW bad \in {"idle", "failed"}, initPresent(good, bad)
        PROVE  CastShapes'
    <3>1. /\ at' \in {good, bad}
          /\ \E fb, fpga \in BOOLEAN :
               screen' = [screen EXCEPT !.fb = fb,
                                        !.env = IF fpga /\ screen.hd /\ @ = "unset" THEN "1" ELSE @]
          /\ SendSourceAspect(<<16, 9>>) \/ (token' = token /\ core' = core)
      BY <2>3 DEF initPresent
    <3>2. token' \in Tokens /\ core'.token \in Tokens
      BY <3>1, SentToken
    <3>3. /\ screen'.fb \in BOOLEAN /\ screen'.env \in {"unset", "0", "1"}
          /\ DOMAIN screen' = {"mode", "hd", "fb", "env"}
      BY <3>1
    <3> QED
      BY <2>1, <3>1, <3>2, <3>3
  <2> QED
    BY <2>1, <2>2, <2>3
<1>2. CASE Resolve
  <2>1. casts' \in 0..MaxCasts
    BY <1>2, ResolveAssumption DEF Resolve
  <2>2. at' \in {"probe", "unresolved", "metadata"}
    BY <1>2 DEF Resolve
  <2>3. result' \in {TestPattern, [NoResult EXCEPT !.from = "direct"], NoResult}
    BY <1>2 DEF Resolve
  <2>4. DOMAIN result' = {"from", "url", "fps", "hint", "aspect"} /\ result'.from \in Sources
    BY <2>3, NoResultShape
  <2>5. UNCHANGED <<screen, token, core, plxj>>
    BY <1>2 DEF Resolve
  <2> QED
    BY <2>1, <2>2, <2>4, <2>5
<1>3. CASE FetchMetadata
  <2>1. PICK m \in Metas \cup {Bad} :
          LET r == IF m = Bad THEN NoResult ELSE Described(m)
          IN  (result' = r \/ result' = [r EXCEPT !.from = "part"])
              /\ at' \in {"probe", "decision", "fallback"}
    BY <1>3 DEF FetchMetadata, DirectPart
  <2>2. DOMAIN result' = {"from", "url", "fps", "hint", "aspect"} /\ result'.from \in Sources
    BY <2>1, NoResultShape
  <2>3. UNCHANGED <<screen, token, core, plxj, casts>>
    BY <1>3 DEF FetchMetadata
  <2> QED
    BY <2>1, <2>2, <2>3
<1>4. CASE Decide
  <2>1. \/ \E u : result' = [result EXCEPT !.from = "universal", !.url = u]
        \/ result' = result
    BY <1>4 DEF Decide
  <2>2. UNCHANGED <<screen, token, core, plxj, casts>> /\ at' \in {"probe", "fallback"}
    BY <1>4 DEF Decide
  <2> QED
    BY <2>1, <2>2
<1>5. CASE FallBack
  <2>1. result' = [result EXCEPT !.from = "part"] \/ result' = result
    BY <1>5 DEF FallBack, DirectPart
  <2>2. UNCHANGED <<screen, token, core, plxj, casts>> /\ at' \in {"probe", "unresolved"}
    BY <1>5 DEF FallBack, DirectPart
  <2> QED
    BY <2>1, <2>2
<1>6. CASE Unresolved
  <2>1. result' \in {TestPattern, result, NoResult} /\ at' \in {"probe", "metadata", "unresolved"}
    BY <1>6 DEF Unresolved
  <2>2. UNCHANGED <<screen, token, core, plxj, casts>>
    BY <1>6 DEF Unresolved
  <2> QED
    BY <2>1, <2>2, NoResultShape
<1>7. CASE Probe
  <2>1. PICK a : result' = [NoResult EXCEPT !.from = result.from, !.aspect = a]
    BY <1>7 DEF Probe
  <2>2. UNCHANGED <<screen, token, core, plxj, casts>> /\ at' = "publish"
    BY <1>7 DEF Probe
  <2> QED
    BY <2>1, <2>2, NoResultShape
<1>8. CASE setSourceAspect
  <2>1. /\ at' \in {"start", "ack", "retry"} /\ UNCHANGED <<screen, result, plxj, casts>>
        /\ SendSourceAspect(result.aspect) \/ (token' = token /\ core' = core)
    BY <1>8 DEF setSourceAspect, NotAcked
  <2>2. token' \in Tokens /\ core'.token \in Tokens
    BY <2>1, SentToken
  <2> QED
    BY <2>1, <2>2
<1>9. CASE AwaitAck
  BY <1>9 DEF AwaitAck, NotAcked
<1>10. CASE RetryLayout
  BY <1>10 DEF RetryLayout
<1>11. CASE Return
  BY <1>11, NoResultShape DEF Return, Over
<1>12. CASE CorePublishes
  BY <1>12 DEF CorePublishes
<1>13. CASE UNCHANGED castVars
  BY <1>13 DEF castVars
<1> QED
  BY <1>1, <1>2, <1>3, <1>4, <1>5, <1>6, <1>7, <1>8, <1>9, <1>10, <1>11, <1>12, <1>13 DEF CastNext

LEMMA AskShapeStep ==
  ASSUME CastShapes, AskShape, [CastNext]_castVars
  PROVE  AskShape'
<1> USE DEF AskShape, Resolving
<1>1. CASE Boot
  BY <1>1 DEF Boot, initPresent
<1>2. CASE Resolve
  BY <1>2 DEF Resolve
<1>3. CASE FetchMetadata
  BY <1>3 DEF FetchMetadata, DirectPart
<1>4. CASE Decide
  BY <1>4 DEF Decide
<1>5. CASE FallBack
  BY <1>5 DEF FallBack, DirectPart
<1>6. CASE Unresolved
  BY <1>6 DEF Unresolved
<1>7. CASE Probe
  <2>1. ask' = [NoAsk EXCEPT !.relayout = ask.relayout] /\ at' = "publish" /\ ask \in Asks
    BY <1>7 DEF Probe
  <2>2. ask.relayout \in BOOLEAN
    BY <2>1, AsksAssumption
  <2> QED
    BY <2>1, <2>2 DEF NoAsk
<1>8. CASE setSourceAspect
  BY <1>8 DEF setSourceAspect, NotAcked
<1>9. CASE AwaitAck
  BY <1>9 DEF AwaitAck, NotAcked
<1>10. CASE RetryLayout
  BY <1>10 DEF RetryLayout
<1>11. CASE Return
  BY <1>11 DEF Return, Over, NoAsk
<1>12. CASE CorePublishes
  BY <1>12 DEF CorePublishes
<1>13. CASE UNCHANGED castVars
  BY <1>13 DEF castVars
<1>14. CASE Start
  BY <1>14 DEF Start, initPresent
<1> QED
  BY <1>1, <1>2, <1>3, <1>4, <1>5, <1>6, <1>7, <1>8, <1>9, <1>10, <1>11, <1>12, <1>13, <1>14 DEF CastNext

LEMMA SelectedServer ==
  ASSUME NEW a \in Asks, a.address = Bad, Selected(a) # Bad
  PROVE  Selected(a) \in ToSet(a.servers)
<1>1. Selected(a) = defaultPms(a)
  BY DEF Selected, buildPlexBase, Given
<1>2. a.servers \in Seq(ToSet(a.servers))
  BY AsksAssumption
<1>3. a.servers # <<>> /\ Selected(a) = a.servers[1]
  BY <1>1 DEF defaultPms
<1>4. 1 \in DOMAIN a.servers
  BY <1>2, <1>3
<1> QED
  BY <1>3, <1>4 DEF ToSet

LEMMA ServersKeptStep ==
  ASSUME CastShapes, AskShape, ServersKept, [CastNext]_castVars
  PROVE  ServersKept'
<1> USE DEF ServersKept
<1>1. CASE Boot
  BY <1>1 DEF Boot, initPresent
<1>2. CASE Resolve
  <2> SUFFICES ASSUME at' \in {"metadata", "decision", "fallback", "unresolved"}
               PROVE  /\ left' \in Seq(ToSet(ask'.servers)) /\ (ask'.address # Bad => left' = <<>>)
                      /\ base' = Selected(ask')
                      /\ at' # "unresolved" => base' # Bad
    OBVIOUS
  <2>1. /\ base' = Selected(ask') /\ left' = OtherServers(ask') /\ ask' \in Asks
        /\ at' = IF base' = Bad THEN "unresolved" ELSE "metadata"
    BY <1>2 DEF Resolve
  <2>2. ask'.servers \in Seq(ToSet(ask'.servers))
    BY <2>1, AsksAssumption
  <2>3. left' \in Seq(ToSet(ask'.servers)) /\ (ask'.address # Bad => left' = <<>>)
    <3>1. CASE ask'.address = Bad
      BY <3>1, <2>1, <2>2 DEF OtherServers
    <3>2. CASE ask'.address # Bad
      BY <3>2, <2>1 DEF OtherServers
    <3> QED
      BY <3>1, <3>2
  <2> QED
    BY <2>1, <2>3
<1>3. CASE FetchMetadata
  BY <1>3 DEF FetchMetadata, DirectPart
<1>4. CASE Decide
  BY <1>4 DEF Decide
<1>5. CASE FallBack
  BY <1>5 DEF FallBack, DirectPart
<1>6. CASE Unresolved
  <2>1. CASE left = <<>>
    BY <1>6, <2>1 DEF Unresolved
  <2>2. CASE left # <<>>
    <3>1. /\ at = "unresolved" /\ ask' = ask /\ left' = Tail(left)
          /\ \/ at' = at /\ base' = base
             \/ base' = Head(left) /\ at' = "metadata"
      BY <1>6, <2>2 DEF Unresolved
    <3>2. left \in Seq(ToSet(ask.servers)) /\ ask.address = Bad /\ ask \in Asks
      BY <2>2, <3>1 DEF AskShape, Resolving
    <3>3. left' \in Seq(ToSet(ask.servers)) /\ Head(left) \in ToSet(ask.servers)
      BY <2>2, <3>1, <3>2
    <3>4. Bad \notin ToSet(ask.servers)
      BY <3>2, AsksAssumption
    <3> QED
      BY <3>1, <3>2, <3>3, <3>4
  <2> QED
    BY <2>1, <2>2
<1>7. CASE Probe
  BY <1>7 DEF Probe
<1>8. CASE setSourceAspect
  BY <1>8 DEF setSourceAspect, NotAcked
<1>9. CASE AwaitAck
  BY <1>9 DEF AwaitAck, NotAcked
<1>10. CASE RetryLayout
  BY <1>10 DEF RetryLayout
<1>11. CASE Return
  BY <1>11 DEF Return, Over
<1>12. CASE CorePublishes
  BY <1>12 DEF CorePublishes
<1>13. CASE UNCHANGED castVars
  BY <1>13 DEF castVars
<1>14. CASE Start
  BY <1>14 DEF Start, initPresent
<1> QED
  BY <1>1, <1>2, <1>3, <1>4, <1>5, <1>6, <1>7, <1>8, <1>9, <1>10, <1>11, <1>12, <1>13, <1>14 DEF CastNext

LEMMA ItemKnownStep ==
  ASSUME CastShapes, AskShape, ItemKnown, [CastNext]_castVars
  PROVE  ItemKnown'
<1> USE DEF ItemKnown
<1>0. Bad \notin Metas
  BY MetasAssumption
<1>1. CASE Boot
  BY <1>1 DEF Boot, initPresent
<1>2. CASE Resolve
  <2>1. at = "idle" /\ meta' = meta /\ at' \in {"probe", "metadata", "unresolved"}
    BY <1>2 DEF Resolve
  <2> QED
    BY <2>1
<1>3. CASE FetchMetadata
  <2>1. PICK m \in Metas \cup {Bad} :
          LET r == IF m = Bad THEN NoResult ELSE Described(m)
          IN  /\ meta' = m
              /\ \/ DirectWanted(m) /\ DirectPart(m, r)
                 \/ /\ ~(DirectWanted(m) /\ m.part) /\ result' = r
                    /\ at' = IF ask.kind = "library" THEN "decision" ELSE "fallback"
    BY <1>3 DEF FetchMetadata
  <2> DEFINE r == IF m = Bad THEN NoResult ELSE Described(m)
  <2>2. ask' = ask
    BY <1>3 DEF FetchMetadata
  <2>3. CASE DirectWanted(m) /\ DirectPart(m, r)
    <3>1. m # Bad /\ at' = "probe" /\ result' = [Described(m) EXCEPT !.from = "part"]
      BY <2>3 DEF DirectPart
    <3>2. /\ result'.fps = Described(m).fps /\ result'.hint = Described(m).hint
          /\ result'.aspect = Described(m).aspect
      BY <3>1, NoResultShape
    <3> QED
      BY <2>1, <3>1, <3>2
  <2>4. CASE ~(DirectWanted(m) /\ m.part) /\ result' = r
             /\ at' = IF ask.kind = "library" THEN "decision" ELSE "fallback"
    <3>1. m = Bad => result'.aspect = Bad
      BY <2>4, NoResultShape
    <3>2. m # Bad => result' = Described(m)
      BY <2>4
    <3>3. at' \in {"decision", "fallback"} /\ (at' = "fallback" => ask'.kind # "library") /\ meta' = m
      BY <2>1, <2>2, <2>4
    <3> QED
      BY <3>1, <3>2, <3>3
  <2> QED
    BY <2>1, <2>3, <2>4
<1>4. CASE Decide
  <2>1. at = "decision" /\ meta' = meta /\ ask' = ask
    BY <1>4 DEF Decide
  <2>2. \/ at' = "probe" /\ \E u : result' = [result EXCEPT !.from = "universal", !.url = u]
        \/ at' = "fallback" /\ refused' = TRUE /\ result' = result
    BY <1>4 DEF Decide
  <2>3. result'.fps = result.fps /\ result'.hint = result.hint /\ result'.aspect = result.aspect
    BY <2>2 DEF CastShapes
  <2> QED
    BY <2>1, <2>2, <2>3
<1>5. CASE FallBack
  <2>1. at = "fallback" /\ meta' = meta /\ ask' = ask /\ refused' = refused
    BY <1>5 DEF FallBack
  <2>2. \/ at' = "probe" /\ result' = [result EXCEPT !.from = "part"]
        \/ at' = "unresolved" /\ result' = result
    BY <1>5 DEF FallBack, DirectPart
  <2>3. result'.fps = result.fps /\ result'.hint = result.hint /\ result'.aspect = result.aspect
    BY <2>2 DEF CastShapes
  <2> QED
    BY <2>1, <2>2, <2>3
<1>6. CASE Unresolved
  <2>1. meta' = Bad /\ at' \in {"probe", "metadata", "unresolved"}
    BY <1>6 DEF Unresolved
  <2> QED
    BY <2>1
<1>7. CASE Probe
  BY <1>7 DEF Probe
<1>8. CASE setSourceAspect
  BY <1>8 DEF setSourceAspect, NotAcked
<1>9. CASE AwaitAck
  BY <1>9 DEF AwaitAck, NotAcked
<1>10. CASE RetryLayout
  BY <1>10 DEF RetryLayout
<1>11. CASE Return
  BY <1>11 DEF Return, Over
<1>12. CASE CorePublishes
  BY <1>12 DEF CorePublishes
<1>13. CASE UNCHANGED castVars
  BY <1>13 DEF castVars
<1>14. CASE Start
  BY <1>14 DEF Start, initPresent
<1> QED
  BY <1>1, <1>2, <1>3, <1>4, <1>5, <1>6, <1>7, <1>8, <1>9, <1>10, <1>11, <1>12, <1>13, <1>14 DEF CastNext

LEMMA AckKnownStep ==
  ASSUME CastShapes, AckKnown, [CastNext]_castVars
  PROVE  AckKnown'
<1> USE DEF AckKnown
<1>1. CASE Boot
  BY <1>1 DEF Boot, initPresent
<1>2. CASE Resolve
  BY <1>2 DEF Resolve
<1>3. CASE FetchMetadata
  BY <1>3 DEF FetchMetadata, DirectPart
<1>4. CASE Decide
  BY <1>4 DEF Decide
<1>5. CASE FallBack
  BY <1>5 DEF FallBack, DirectPart
<1>6. CASE Unresolved
  BY <1>6 DEF Unresolved
<1>7. CASE Probe
  BY <1>7 DEF Probe
<1>8. CASE setSourceAspect
  <2>1. /\ result' = result /\ plxj' = plxj
        /\ \/ at' = "retry"
           \/ at' = "start" /\ result.aspect # Bad
           \/ at' = "ack" /\ result.aspect # Bad /\ SendSourceAspect(result.aspect)
    BY <1>8 DEF setSourceAspect, NotAcked
  <2>2. CASE at' = "ack"
    <3>1. token' = NextToken /\ (plxj # Bad => plxj.token # NextToken)
      BY <2>1, <2>2, SentToken, NewToken
    <3> HIDE DEF NextToken
    <3> QED
      BY <2>1, <2>2, <3>1
  <2>3. CASE at' # "ack"
    BY <2>1, <2>3
  <2> QED
    BY <2>2, <2>3
<1>9. CASE AwaitAck
  BY <1>9 DEF AwaitAck, NotAcked
<1>10. CASE RetryLayout
  BY <1>10 DEF RetryLayout
<1>11. CASE Return
  BY <1>11 DEF Return, Over
<1>12. CASE CorePublishes
  BY <1>12 DEF CorePublishes
<1>13. CASE UNCHANGED castVars
  BY <1>13 DEF castVars
<1>14. CASE Start
  BY <1>14 DEF Start, initPresent
<1> QED
  BY <1>1, <1>2, <1>3, <1>4, <1>5, <1>6, <1>7, <1>8, <1>9, <1>10, <1>11, <1>12, <1>13, <1>14 DEF CastNext

\* Playback starts behind a word that matches, or where none is required.
LEMMA AspectTakenStep ==
  ASSUME CastShapes, AckKnown, AspectTaken, [CastNext]_castVars
  PROVE  AspectTaken'
<1> USE DEF AspectTaken
<1>1. CASE Boot
  BY <1>1 DEF Boot, initPresent
<1>2. CASE Resolve
  BY <1>2 DEF Resolve
<1>3. CASE FetchMetadata
  BY <1>3 DEF FetchMetadata, DirectPart
<1>4. CASE Decide
  BY <1>4 DEF Decide
<1>5. CASE FallBack
  BY <1>5 DEF FallBack, DirectPart
<1>6. CASE Unresolved
  BY <1>6 DEF Unresolved
<1>7. CASE Probe
  BY <1>7 DEF Probe
<1>8. CASE setSourceAspect
  BY <1>8 DEF setSourceAspect, NotAcked, publishing
<1>9. CASE AwaitAck
  <2>1. /\ at = "ack" /\ at' # "play" /\ UNCHANGED <<screen, result, core>>
        /\ \/ plxj # Bad /\ plxj.token = token /\ plxj.aspect = result.aspect
           \/ at' = "retry"
           \/ at' = "start" /\ publishing = "optional"
    BY <1>9 DEF AwaitAck, NotAcked, AckMatches, readSourceAspectAck
  <2> QED
    BY <2>1 DEF AckKnown, publishing
<1>10. CASE RetryLayout
  BY <1>10 DEF RetryLayout
<1>11. CASE Return
  BY <1>11 DEF Return, Over
<1>12. CASE CorePublishes
  BY <1>12 DEF CorePublishes, publishing
<1>13. CASE UNCHANGED castVars
  BY <1>13 DEF castVars, publishing
<1>14. CASE Start
  <2>1. result' = result /\ at' \in {"play", "failed"}
    BY <1>14 DEF Start, initPresent
  <2>2. result.aspect # Bad
    BY <1>14 DEF Start, AckKnown
  <2>3. CASE screen' = screen /\ core' = core /\ at = "start"
    BY <2>1, <2>2, <2>3 DEF publishing
  <2>4. CASE initPresent("play", "failed") /\ at \in {"start", "play"}
    <3>1. PICK fb, fpga \in BOOLEAN :
            /\ screen' = [screen EXCEPT !.fb = fb,
                                        !.env = IF fpga /\ screen.hd /\ @ = "unset" THEN "1" ELSE @]
            /\ \/ fpga /\ screen.hd /\ SendSourceAspect(<<16, 9>>)
               \/ UNCHANGED <<token, core>>
      BY <2>4 DEF initPresent
    <3>2. screen'.hd = screen.hd /\ screen'.mode = screen.mode /\ (publishing' = "required" => publishing = "required")
      BY <3>1 DEF publishing, CastShapes
    <3>3. core' = core \/ (screen.hd /\ core'.aspect = <<16, 9>>)
      BY <3>1 DEF SendSourceAspect
    <3> QED
      BY <2>1, <2>2, <2>4, <3>2, <3>3
  <2> QED
    BY <1>14, <2>3, <2>4 DEF Start
<1> QED
  BY <1>1, <1>2, <1>3, <1>4, <1>5, <1>6, <1>7, <1>8, <1>9, <1>10, <1>11, <1>12, <1>13, <1>14 DEF CastNext

\* A part of a library item goes to the probe as wanted so or light, or behind a
\* refusal.
LEMMA HeavyLastStep ==
  ASSUME CastShapes, ItemKnown, HeavyLast, [CastNext]_castVars
  PROVE  HeavyLast'
<1> USE DEF HeavyLast
<1>1. CASE Boot
  BY <1>1 DEF Boot, initPresent
<1>2. CASE Resolve
  <2>1. at' = "probe" => result' \in {TestPattern, [NoResult EXCEPT !.from = "direct"]}
    BY <1>2 DEF Resolve
  <2> QED
    BY <2>1, NoResultShape
<1>3. CASE FetchMetadata
  <2>1. PICK m \in Metas \cup {Bad} : meta' = m /\ (at' = "probe" => DirectWanted(m))
    BY <1>3 DEF FetchMetadata, DirectPart
  <2>2. ask' = ask
    BY <1>3 DEF FetchMetadata
  <2> QED
    BY <2>1, <2>2 DEF DirectWanted, Matches
<1>4. CASE Decide
  <2>1. \/ \E u : result' = [result EXCEPT !.from = "universal", !.url = u]
        \/ at' = "fallback"
    BY <1>4 DEF Decide
  <2> QED
    BY <2>1 DEF CastShapes
<1>5. CASE FallBack
  BY <1>5 DEF FallBack, ItemKnown
<1>6. CASE Unresolved
  <2>1. at' = "probe" => result' = TestPattern
    BY <1>6 DEF Unresolved
  <2> QED
    BY <2>1, NoResultShape
<1>7. CASE Probe
  BY <1>7 DEF Probe
<1>8. CASE setSourceAspect
  BY <1>8 DEF setSourceAspect, NotAcked
<1>9. CASE AwaitAck
  BY <1>9 DEF AwaitAck, NotAcked
<1>10. CASE RetryLayout
  BY <1>10 DEF RetryLayout
<1>11. CASE Return
  BY <1>11 DEF Return, Over
<1>12. CASE CorePublishes
  BY <1>12 DEF CorePublishes, Matches
<1>13. CASE UNCHANGED castVars
  BY <1>13 DEF castVars, Matches
<1>14. CASE Start
  BY <1>14 DEF Start, initPresent
<1> QED
  BY <1>1, <1>2, <1>3, <1>4, <1>5, <1>6, <1>7, <1>8, <1>9, <1>10, <1>11, <1>12, <1>13, <1>14 DEF CastNext

\* The shape a server has told of the item, and the raster that was asked of it.
ShapeOf(m) == IF m = Bad THEN Bad ELSE sourceAspectFromPlexMetadata(m)
AskedFits == RasterFitsShape(result.url.ladder, ask.content, ask.conf, ShapeOf(meta))
RasterAsked == (at = "probe" /\ result.from = "universal") => AskedFits

LEMMA RasterAskedFits ==
  ASSUME RasterAsked
  PROVE  RasterFits
BY DEF RasterAsked, AskedFits, ShapeOf, RasterFitsShape, RasterFits

LEMMA RasterAskedStep ==
  ASSUME CastShapes, AskShape, ItemKnown, RasterAsked, [CastNext]_castVars
  PROVE  RasterAsked'
<1> USE DEF RasterAsked
<1>1. CASE Boot
  BY <1>1 DEF Boot, initPresent
<1>2. CASE Resolve
  <2>1. at' = "probe" => result' \in {TestPattern, [NoResult EXCEPT !.from = "direct"]}
    BY <1>2 DEF Resolve
  <2> QED
    BY <2>1, NoResultShape
<1>3. CASE FetchMetadata
  <2>1. PICK m \in Metas \cup {Bad} :
          at' = "probe" => result' = [(IF m = Bad THEN NoResult ELSE Described(m)) EXCEPT !.from = "part"]
    BY <1>3 DEF FetchMetadata, DirectPart
  <2> QED
    BY <2>1, NoResultShape
<1>4. CASE Decide
  <2>1. at = "decision" /\ meta' = meta /\ ask' = ask /\ ask \in Asks
    BY <1>4 DEF Decide, AskShape, Resolving
  <2> DEFINE f == fitWeakLadderToAspect(weakForContentResolution(ask.content, ask.conf), result.aspect)
  <2>2. \/ at' = "fallback"
        \/ result' = [result EXCEPT !.from = "universal", !.url = buildUniversalTranscodeUrl(f, ask.offsetMs)]
    BY <1>4 DEF Decide
  <2>3. ask.content \in DOMAIN Profiles /\ DOMAIN ask.conf = {"kbps", "quality", "profile"}
    BY <2>1, AsksAssumption
  <2>4. result.aspect = ShapeOf(meta)
    <3>1. CASE meta = Bad
      BY <3>1, <2>1 DEF ItemKnown, ShapeOf
    <3>2. CASE meta # Bad
      BY <3>2, <2>1, NoResultShape DEF ItemKnown, ShapeOf
    <3> QED
      BY <3>1, <3>2
  <2>5. ShapeOf(meta) \in Ratio \cup {Bad}
    BY ItemRatio DEF ItemKnown, ShapeOf
  <2>6. RasterFitsShape(f, ask.content, ask.conf, ShapeOf(meta))
    BY <2>3, <2>4, <2>5, RasterOfRow
  <2> HIDE DEF f
  <2>7. CASE at' # "fallback"
    <3> DEFINE u == buildUniversalTranscodeUrl(f, ask.offsetMs)
    <3>4. u.ladder = f
      BY DEF buildUniversalTranscodeUrl
    <3>5. result' = [result EXCEPT !.from = "universal", !.url = u]
      BY <2>2, <2>7
    <3> HIDE DEF u
    <3>1. result'.url.ladder = f
      BY <3>4, <3>5 DEF CastShapes
    <3>2. ShapeOf(meta)' = ShapeOf(meta)
      BY <2>1 DEF ShapeOf
    <3>3. AskedFits'
      BY <2>1, <2>6, <3>1, <3>2 DEF AskedFits
    <3> QED
      BY <3>3
  <2> QED
    BY <2>7
<1>5. CASE FallBack
  <2>1. at' = "probe" => result' = [result EXCEPT !.from = "part"]
    BY <1>5 DEF FallBack, DirectPart
  <2> QED
    BY <2>1 DEF CastShapes
<1>6. CASE Unresolved
  <2>1. at' = "probe" => result' = TestPattern
    BY <1>6 DEF Unresolved
  <2> QED
    BY <2>1, NoResultShape
<1>7. CASE Probe
  BY <1>7 DEF Probe
<1>8. CASE setSourceAspect
  BY <1>8 DEF setSourceAspect, NotAcked
<1>9. CASE AwaitAck
  BY <1>9 DEF AwaitAck, NotAcked
<1>10. CASE RetryLayout
  BY <1>10 DEF RetryLayout
<1>11. CASE Return
  BY <1>11 DEF Return, Over
<1>12. CASE CorePublishes
  <2>1. UNCHANGED <<at, ask, meta, result>>
    BY <1>12 DEF CorePublishes
  <2>2. AskedFits' = AskedFits
    BY <2>1 DEF AskedFits, ShapeOf
  <2> QED
    BY <2>1, <2>2
<1>13. CASE UNCHANGED castVars
  <2>1. UNCHANGED <<at, ask, meta, result>>
    BY <1>13 DEF castVars
  <2>2. AskedFits' = AskedFits
    BY <2>1 DEF AskedFits, ShapeOf
  <2> QED
    BY <2>1, <2>2
<1>14. CASE Start
  BY <1>14 DEF Start, initPresent
<1> QED
  BY <1>1, <1>2, <1>3, <1>4, <1>5, <1>6, <1>7, <1>8, <1>9, <1>10, <1>11, <1>12, <1>13, <1>14 DEF CastNext

\* The rates that are handed over are read from the item.
LEMMA RatesKept ==
  ASSUME AskShape, ItemKnown
  PROVE  RatesAgree
<1> SUFFICES ASSUME at = "probe", meta # Bad, StreamRate(meta) # Bad \/ meta.vfr.name = "number"
             PROVE  LET rate == IF ask.contentFps = Bad THEN SourceRate(meta) ELSE ask.contentFps
                    IN  /\ Showable(rate) => InStep(rate, PacedBy(ask.contentFps, result.fps))
                        /\ result.hint = bucketFps(SourceRate(meta))
  BY DEF RatesAgree
<1>1. meta \in Metas /\ ask \in Asks
  BY DEF ItemKnown, AskShape, Resolving
<1>2. /\ result.fps = parseExactFps(meta.vfr, StreamRate(meta))
      /\ result.hint = contentFpsHint(meta.vfr, StreamRate(meta))
  BY NoResultShape DEF ItemKnown
<1>3. ConfRate(ask.contentFps)
  BY <1>1, AsksAssumption DEF ConfRate
<1>4. Showable(RateOf(meta, ask.contentFps))
        => InStep(RateOf(meta, ask.contentFps), PacedBy(ask.contentFps, result.fps))
  BY <1>1, <1>2, <1>3, RateOfItem
<1>5. result.hint = bucketFps(SourceRate(meta))
  BY <1>1, <1>2, HintNearest
<1> QED
  BY <1>4, <1>5 DEF RateOf

LEMMA TokenIsKept ==
  ASSUME AskShape, ServersKept
  PROVE  TokenKept
<1> SUFFICES ASSUME at \in {"metadata", "decision"}
             PROVE  /\ TokenFor(ask) = "conf" => base \in ToSet(ask.servers)
                    /\ ask.address \notin Unreachable \cup {Bad} => base = ask.address /\ TokenFor(ask) # "conf"
  BY DEF TokenKept
<1>1. ask \in Asks
  BY DEF AskShape, Resolving
<1>2. Bad # "conf"
  BY ResolveAssumption
<1>3. TokenFor(ask) = "conf" => ask.address = Bad
  BY <1>2 DEF TokenFor
<1>4. base # Bad /\ (base = Selected(ask) \/ (ask.address = Bad /\ base \in ToSet(ask.servers)))
  BY DEF ServersKept
<1>5. ask.address = Bad => base \in ToSet(ask.servers)
  BY <1>1, <1>4, SelectedServer
<1>6. ask.address \notin Unreachable \cup {Bad} => Selected(ask) = ask.address
  BY DEF Selected, buildPlexBase, Given
<1> QED
  BY <1>3, <1>4, <1>5, <1>6

LEMMA QueueIsKept ==
  ASSUME AskShape
  PROVE  QueueItemFound
<1>1. ask.queue.items \in Seq(ToSet(ask.queue.items))
  <2>1. CASE ask \in Asks
    BY <2>1, AsksAssumption
  <2>2. CASE ask \in [kind : {"none"}, relayout : BOOLEAN, queue : {NoAsk.queue}]
    <3>1. ask.queue.items = <<>>
      BY <2>2 DEF NoAsk
    <3> QED
      BY <3>1 DEF ToSet
  <2> QED
    BY <2>1, <2>2 DEF AskShape
<1> DEFINE q == ask.queue
<1> HIDE DEF q
<1>2. QueueFound(q)
  BY <1>1, ItemOfQueue DEF q
<1> QED
  BY <1>2 DEF QueueFound, QueueItemFound, q

------------------------------------------------------------------------------
CastInv ==
    /\ CastShapes /\ AskShape /\ ServersKept /\ ItemKnown /\ AckKnown
    /\ AspectTaken /\ HeavyLast /\ RasterAsked

LEMMA CastInvInit ==
  ASSUME CastInit
  PROVE  CastInv
<1> USE DEF CastInit
<1>1. CastShapes
  <2>1. /\ screen.fb \in BOOLEAN /\ screen.env \in {"unset", "0", "1"}
        /\ DOMAIN screen = {"mode", "hd", "fb", "env"}
    BY ResolveAssumption
  <2>2. 0 \in Tokens /\ casts \in 0..MaxCasts
    BY ResolveAssumption DEF Tokens
  <2>3. token \in Tokens /\ core.token \in Tokens /\ (plxj = Bad \/ plxj.token \in Tokens)
    BY <2>2
  <2>4. DOMAIN result = {"from", "url", "fps", "hint", "aspect"} /\ result.from \in Sources
    BY NoResultShape DEF Sources
  <2> QED
    BY <2>1, <2>2, <2>3, <2>4 DEF CastShapes
<1>2. AskShape
  BY DEF AskShape, Resolving, NoAsk
<1>3. ServersKept /\ ItemKnown /\ AckKnown
  BY DEF ServersKept, ItemKnown, AckKnown
<1>4. AspectTaken /\ HeavyLast /\ RasterAsked
  BY DEF AspectTaken, HeavyLast, RasterAsked
<1> QED
  BY <1>1, <1>2, <1>3, <1>4 DEF CastInv

LEMMA CastInvStep ==
  ASSUME CastInv, [CastNext]_castVars
  PROVE  CastInv'
<1> USE DEF CastInv
<1>1. CastShapes' /\ AskShape'
  BY CastShapesStep, AskShapeStep
<1>2. ServersKept' /\ ItemKnown' /\ AckKnown'
  BY ServersKeptStep, ItemKnownStep, AckKnownStep
<1>3. AspectTaken' /\ HeavyLast' /\ RasterAsked'
  BY AspectTakenStep, HeavyLastStep, RasterAskedStep
<1> QED
  BY <1>1, <1>2, <1>3

\* setSourceAspect and resolvePlayTarget: whatever the servers answer, and whatever
\* packets the core misses, a cast that reaches the player is fit to play - streams
\* too heavy for the ARM come last, the raster asked for is legal and of the shape,
\* the frame rates agree, the configuration's token stays with its own servers, the
\* item of the queue is the one that was asked for - and the core knows its shape.
THEOREM CastIsSound == CastSpec => []CastSound
<1>1. CastInit => CastInv
  BY CastInvInit
<1>2. CastInv /\ [CastNext]_castVars => CastInv'
  BY CastInvStep
<1>3. CastInv => CastSound
  BY RasterAskedFits, RatesKept, TokenIsKept, QueueIsKept DEF CastInv, CastSound, ResolverSound
<1> QED
  BY <1>1, <1>2, <1>3, PTL DEF CastSpec

\* The shape of the resolver's state: the token of a packet is one byte.
THEOREM CastTypeCorrect == CastSpec => []CastTypeOK
<1>1. CastInit => CastInv
  BY CastInvInit
<1>2. CastInv /\ [CastNext]_castVars => CastInv'
  BY CastInvStep
<1>3. ASSUME CastShapes, AskShape PROVE CastTypeOK
  <2>1. ask.kind \in KeyKinds \cup {"none"}
    <3>1. CASE ask \in Asks
      BY <3>1, AsksAssumption
    <3>2. CASE ask \in [kind : {"none"}, relayout : BOOLEAN, queue : {NoAsk.queue}]
      BY <3>2
    <3> QED
      BY <1>3, <3>1, <3>2 DEF AskShape
  <2> QED
    BY <1>3, <2>1 DEF CastTypeOK, CastShapes, Resolving, Sources, Tokens
<1> QED
  BY <1>1, <1>2, <1>3, PTL DEF CastSpec, CastInv

------------------------------------------------------------------------------
(* NalStream.  Where the pump has got to, and the switches it reads.        *)

Progress ==
    /\ taken \in Nat /\ taken <= Len(stream) /\ Len(stream) \in Nat
    /\ acc \in [base : Nat, parseFrom : Nat] /\ acc.base + acc.parseFrom <= taken
    /\ pump \in {"begin", "read", "consume", "tail", "end", "done"} /\ paused \in BOOLEAN

\* A unit that is named has been read.
Named(unit) == unit \in Int /\ -1 <= unit /\ unit <= taken
Decoders ==
    /\ f3 \in [active : BOOLEAN, fatal : BOOLEAN, paused : BOOLEAN]
    /\ DOMAIN disp = {"active", "paused", "spsDelivered", "ppsDelivered", "sps", "pps", "seq"}
    /\ Named(disp.sps) /\ Named(disp.pps)
    /\ DOMAIN host = {"sps", "pps", "cabacSkip", "presented"}
    /\ Named(host.sps) /\ Named(host.pps)

\* A start code is three or four bytes, and the first one at or behind a place is
\* behind it and inside what is scanned.
LEMMA CodeLength == \A i : annexBStartLen(i) \in {0, 3, 4}
BY DEF annexBStartLen

LEMMA CodeFound ==
  ASSUME Progress, NEW i \in Nat, NEW short \in Nat, FirstCodeAt(i, short) # None
  PROVE  /\ FirstCodeAt(i, short) \in Nat /\ i <= FirstCodeAt(i, short)
         /\ FirstCodeAt(i, short) + short < size
         /\ annexBStartLen(FirstCodeAt(i, short)) \in {3, 4}
<1> DEFINE codes == {k \in i..(size - short - 1) : annexBStartLen(k) # 0}
<1>1. FirstCodeAt(i, short) = IF codes # {} THEN Min(codes) ELSE None
  BY DEF FirstCodeAt
<1>2. size \in Int
  BY DEF Progress, size
<1>3. codes \subseteq Nat
  BY <1>2
<1>4. codes # {}
  BY <1>1
<1>5. Min(codes) \in codes
  <2> HIDE DEF codes
  <2> QED
    BY <1>3, <1>4, MinOf
<1>6. \A k \in codes : k \in Nat /\ i <= k /\ k + short < size /\ annexBStartLen(k) \in {3, 4}
  BY <1>2, CodeLength
<1> HIDE DEF codes
<1> QED
  BY <1>1, <1>4, <1>5, <1>6

\* What a unit does to the decoders: they name it or keep what they had.
LEMMA UnitHandled ==
  ASSUME Decoders, NEW from, NEW to, NEW sc, Named(from + sc), HandleUnit(from, to, sc), taken' = taken
  PROVE  Decoders'
<1> DEFINE unit == from + sc  type == annexBNalType(from, to, sc)
<1>0. /\ Named(unit) /\ pushF3Nal(type, unit)
      /\ \/ host' = [host EXCEPT !.sps = unit]
         \/ \E skip : host' = [host EXCEPT !.pps = unit, !.cabacSkip = skip]
         \/ tryReconNal
         \/ host' = host
  BY DEF HandleUnit
<1> HIDE DEF unit, type
<1>1. Named(unit)' /\ (\A u : Named(u)' <=> Named(u))
  BY <1>0 DEF Named
<1>2. DOMAIN host' = DOMAIN host /\ Named(host'.sps) /\ Named(host'.pps)
  BY <1>0 DEF tryReconNal, Decoders
<1>3. /\ f3' \in [active : BOOLEAN, fatal : BOOLEAN, paused : BOOLEAN]
      /\ DOMAIN disp' = DOMAIN disp /\ Named(disp'.sps) /\ Named(disp'.pps)
  <2> DEFINE kept == [disp EXCEPT !.sps = IF type = 7 THEN unit ELSE @,
                                  !.pps = IF type = 8 THEN unit ELSE @]
  <2>1. DOMAIN kept = DOMAIN disp /\ Named(kept.sps) /\ Named(kept.pps)
    BY <1>0 DEF Decoders
  <2>2. \/ f3' = f3 /\ disp' = disp
        \/ f3' = f3 /\ disp' = kept
        \/ f3' = f3 /\ DOMAIN disp' = DOMAIN kept /\ disp'.sps = kept.sps /\ disp'.pps = kept.pps
        \/ f3' = [f3 EXCEPT !.fatal = TRUE] /\ \E e : disp' = [kept EXCEPT !.active = e]
    <3>1. CASE f3.active /\ ~f3.fatal
      <4>1. HandleNal(type, unit)
        BY <1>0, <3>1 DEF pushF3Nal
      <4>2. CASE kept.paused /\ type # 0 /\ disp' = kept /\ UNCHANGED <<f3, fabric, slices>>
        BY <4>2
      <4>3. CASE \E x, y, z : /\ disp' = [kept EXCEPT !.spsDelivered = @ \/ x, !.ppsDelivered = @ \/ y,
                                                       !.seq = z]
                             /\ UNCHANGED f3
        BY <4>3
      <4>4. CASE /\ f3' = [f3 EXCEPT !.fatal = TRUE]
                 /\ \E ended \in BOOLEAN : disp' = [kept EXCEPT !.active = ~ended]
        BY <4>4
      <4>5. \/ kept.paused /\ type # 0 /\ disp' = kept /\ UNCHANGED <<f3, fabric, slices>>
            \/ \E x, y, z : /\ disp' = [kept EXCEPT !.spsDelivered = @ \/ x, !.ppsDelivered = @ \/ y,
                                                    !.seq = z]
                           /\ UNCHANGED f3
            \/ /\ f3' = [f3 EXCEPT !.fatal = TRUE]
               /\ \E ended \in BOOLEAN : disp' = [kept EXCEPT !.active = ~ended]
        BY <4>1, Zenon DEF HandleNal
      <4> QED
        BY <4>2, <4>3, <4>4, <4>5
    <3>2. CASE ~(f3.active /\ ~f3.fatal)
      BY <1>0, <3>2 DEF pushF3Nal
    <3> QED
      BY <3>1, <3>2
  <2> HIDE DEF kept
  <2>3. f3' \in [active : BOOLEAN, fatal : BOOLEAN, paused : BOOLEAN]
    BY <2>2 DEF Decoders
  <2>4. DOMAIN disp' = DOMAIN disp /\ Named(disp'.sps) /\ Named(disp'.pps)
    BY <2>1, <2>2 DEF Decoders
  <2> QED
    BY <2>3, <2>4
<1> QED
  BY <1>1, <1>2, <1>3 DEF Decoders

\* The part of NalTypeOK that the theorem is about follows from the two.
LEMMA NalShape == Progress /\ Decoders => NalTypeOK
<1> SUFFICES ASSUME Progress, Decoders PROVE NalTypeOK
  OBVIOUS
<1>1. taken \in 0..Len(stream) /\ acc.base \in 0..taken /\ acc.parseFrom \in 0..size
  BY DEF Progress, size
<1> QED
  BY <1>1 DEF Progress, Decoders, Named, NalTypeOK

LEMMA NalStarts == NalInit => Progress /\ Decoders
<1> SUFFICES ASSUME NalInit PROVE Progress /\ Decoders
  OBVIOUS
<1>1. Len(stream) \in Nat
  BY NalAssumption DEF NalInit
<1> QED
  BY <1>1 DEF NalInit, Progress, Decoders, Named, None

\* A read moves forward by what there is to read.
LEMMA ReadProceeds ==
  ASSUME Progress, Decoders, NEW n \in Reads, Read(n)
  PROVE  Progress' /\ Decoders'
<1>1. n \in Nat
  BY NalAssumption
<1> QED
  BY <1>1 DEF Progress, Decoders, Named, Read

\* The next unit is parsed from where the code behind this one was found.
LEMMA UnitProceeds ==
  ASSUME Progress, Decoders, ConsumeUnit
  PROVE  Progress' /\ Decoders'
<1> DEFINE i  == FirstCodeAt(acc.parseFrom, 3)
           sc == annexBStartLen(i)
           j  == FirstCodeAt(i + sc, 2)
<1>1. /\ acc' = [acc EXCEPT !.parseFrom = j]
      /\ \/ i + sc < j /\ HandleUnit(absolute(i), absolute(j), sc)
         \/ UNCHANGED <<f3, disp, host>>
      /\ UNCHANGED <<stream, taken, pump, paused>>
  BY DEF ConsumeUnit
<1>2. i # None /\ j # None
  BY DEF ConsumeUnit, NothingComplete
<1>3. acc.parseFrom \in Nat /\ acc.base \in Nat /\ taken \in Nat
  BY DEF Progress
<1>4. i \in Nat /\ i + 3 < size /\ sc \in {3, 4}
  BY <1>2, <1>3, CodeFound
<1>5. i + sc \in Nat
  BY <1>4
<1>6. j \in Nat /\ j + 2 < size /\ i + sc <= j
  BY <1>2, <1>5, CodeFound
<1> HIDE DEF i, sc, j
<1>7. Progress'
  <2>1. acc' \in [base : Nat, parseFrom : Nat] /\ acc'.base + acc'.parseFrom <= taken
    BY <1>1, <1>2, <1>3, <1>6 DEF Progress, size, None
  <2> QED
    BY <1>1, <2>1 DEF Progress
<1>8. Decoders'
  <2>1. CASE i + sc < j /\ HandleUnit(absolute(i), absolute(j), sc)
    <3>1. Named(absolute(i) + sc)
      BY <1>3, <1>4, <1>6 DEF Named, absolute, size
    <3> QED
      BY <1>1, <2>1, <3>1, UnitHandled
  <2>2. CASE UNCHANGED <<f3, disp, host>>
    BY <1>1, <2>2 DEF Decoders, Named
  <2> QED
    BY <1>1, <2>1, <2>2
<1> QED
  BY <1>7, <1>8

\* What is kept begins at the head of a unit, or where the scan for one ended, or
\* is nothing.
LEMMA CompactKeeps ==
  ASSUME Progress, Decoders, Compact
  PROVE  Progress' /\ Decoders'
<1> DEFINE i    == FirstCodeAt(acc.parseFrom, 3)
           head == IF i = None THEN Unfound(acc.parseFrom) ELSE i
           over == head > 0 /\ size - head > MaxAcc
<1>1. /\ acc' = [base |-> IF over THEN taken ELSE absolute(head), parseFrom |-> 0]
      /\ pump' = "read" /\ UNCHANGED <<stream, taken, paused, f3, disp, host>>
  BY DEF Compact
<1>2. acc.parseFrom \in Nat /\ acc.base \in Nat /\ taken \in Nat /\ acc.base + acc.parseFrom <= taken
  BY DEF Progress
<1>3. i = None \/ (i \in Nat /\ i + 3 < size)
  <2>1. 3 \in Nat /\ (i # None => i \in Nat /\ i + 3 < size)
    BY <1>2, CodeFound
  <2> QED
    BY <2>1
<1> HIDE DEF i
<1>4. head \in Nat /\ head <= size
  BY <1>2, <1>3 DEF Unfound, size
<1> HIDE DEF head, over
<1>5. acc' \in [base : Nat, parseFrom : Nat] /\ acc'.base + acc'.parseFrom <= taken
  BY <1>1, <1>2, <1>4 DEF absolute, size
<1>6. Progress'
  BY <1>1, <1>5 DEF Progress
<1>7. Decoders'
  BY <1>1 DEF Decoders, Named
<1> QED
  BY <1>6, <1>7

\* The last unit ends where the bytes end.
LEMMA TailProceeds ==
  ASSUME Progress, Decoders, TailUnit
  PROVE  Progress' /\ Decoders'
<1> DEFINE sc == annexBStartLen(acc.parseFrom)
<1>1. /\ \/ /\ sc # 0 /\ acc.parseFrom + sc < size
            /\ HandleUnit(absolute(acc.parseFrom), taken, sc)
         \/ UNCHANGED <<f3, disp, host>>
      /\ pump' = "end" /\ UNCHANGED <<stream, taken, acc, paused>>
  BY DEF TailUnit
<1>2. acc.parseFrom \in Nat /\ acc.base \in Nat /\ taken \in Nat /\ sc \in {0, 3, 4}
  BY CodeLength DEF Progress
<1> HIDE DEF sc
<1>3. Progress'
  BY <1>1 DEF Progress
<1>4. Decoders'
  <2>1. CASE /\ sc # 0 /\ acc.parseFrom + sc < size
             /\ HandleUnit(absolute(acc.parseFrom), taken, sc)
    <3>1. Named(absolute(acc.parseFrom) + sc)
      BY <1>2, <2>1 DEF Named, absolute, size
    <3> QED
      BY <1>1, <2>1, <3>1, UnitHandled
  <2>2. CASE UNCHANGED <<f3, disp, host>>
    BY <1>1, <2>2 DEF Decoders, Named
  <2> QED
    BY <1>1, <2>1, <2>2
<1> QED
  BY <1>3, <1>4

LEMMA NalStep == Progress /\ Decoders /\ [NalNext]_nalVars => Progress' /\ Decoders'
<1> SUFFICES ASSUME Progress, Decoders, [NalNext]_nalVars PROVE Progress' /\ Decoders'
  OBVIOUS
<1>1. CASE Begin
  BY <1>1 DEF Begin, Progress, Decoders, Named
<1>2. CASE SyncF3Pause
  BY <1>2 DEF SyncF3Pause, Progress, Decoders, Named
<1>3. ASSUME NEW n \in Reads, Read(n) PROVE Progress' /\ Decoders'
  BY <1>3, ReadProceeds
<1>4. CASE ConsumeUnit
  BY <1>4, UnitProceeds
<1>5. CASE Compact
  BY <1>5, CompactKeeps
<1>6. CASE LoopEnds
  BY <1>6 DEF LoopEnds, Progress, Decoders, Named
<1>7. CASE TailUnit
  BY <1>7, TailProceeds
<1>8. CASE End
  BY <1>8 DEF End, Progress, Decoders, Named
<1>9. CASE PauseToggles
  BY <1>9 DEF PauseToggles, Progress, Decoders, Named
<1>10. CASE StopPump
  BY <1>10 DEF StopPump, Progress, Decoders, Named
<1>11. CASE UNCHANGED nalVars
  BY <1>11 DEF nalVars, Progress, Decoders, Named
<1> QED
  BY <1>1, <1>2, <1>3, <1>4, <1>5, <1>6, <1>7, <1>8, <1>9, <1>10, <1>11 DEF NalNext

\* The stream pump never reads or parses past the bytes it has: parseFrom stays
\* inside the accumulator, the accumulator inside the stream, and a unit that a
\* decoder names has been read (streamPump, consumeCompleteNals, compactAcc).
THEOREM NalTypeCorrect == NalSpec => []NalTypeOK
<1>1. NalSpec => [](Progress /\ Decoders)
  BY NalStarts, NalStep, PTL DEF NalSpec
<1> QED
  BY <1>1, NalShape, PTL

------------------------------------------------------------------------------
(* Cutting.  Where the codes are does not depend on the reads: a code is at *)
(* a place of the stream, and the scans find it once enough has been read.  *)

\* Codes do not overlap: behind one, the next is three bytes on or more.
LEMMA CodesApart ==
  ASSUME NEW p \in Codes
  PROVE  p \in Nat /\ p + 1 \notin Codes /\ p + 2 \notin Codes /\ (Len(stream) \in Nat => p + 3 <= Len(stream))
BY DEF Codes

\* What a scan sees at a place: a code there, a zero in front of one, or neither.
LEMMA CodeSeen ==
  ASSUME Progress, NEW i \in Nat
  PROVE  /\ annexBStartLen(i) = 4 => i + 3 < size /\ absolute(i) + 1 \in Codes /\ byte(absolute(i)) = 0
                                     /\ absolute(i) \notin Codes
         /\ annexBStartLen(i) = 3 => i + 2 < size /\ absolute(i) \in Codes
         /\ annexBStartLen(i) = 0 => /\ i + 2 < size => absolute(i) \notin Codes
                                     /\ i + 3 < size /\ byte(absolute(i)) = 0 => absolute(i) + 1 \notin Codes
<1> DEFINE b == absolute(i)
<1>1. /\ b = acc.base + i /\ b \in Nat /\ size \in Nat /\ Len(stream) \in Nat
      /\ (i + 2 < size => b + 3 <= Len(stream)) /\ (i + 3 < size => b + 4 <= Len(stream))
  BY DEF Progress, absolute, size
<1>2. absolute(i + 0) = b /\ absolute(i + 1) = b + 1 /\ absolute(i + 2) = b + 2 /\ absolute(i + 3) = b + 3
  BY <1>1 DEF absolute, Progress
<1> DEFINE four == /\ i + 3 < size /\ byte(b) = 0 /\ byte(b + 1) = 0 /\ byte(b + 2) = 0 /\ byte(b + 3) = 1
           three == i + 2 < size /\ byte(b) = 0 /\ byte(b + 1) = 0 /\ byte(b + 2) = 1
<1>3. annexBStartLen(i) = IF four THEN 4 ELSE IF three THEN 3 ELSE 0
  <2>1. (i + 3 < size /\ \A k \in 0..2 : byte(absolute(i + k)) = 0 /\ byte(absolute(i + 3)) = 1) <=> four
    BY <1>2
  <2> QED
    BY <1>2, <2>1 DEF annexBStartLen
<1>4. \A p \in Nat : p + 3 <= Len(stream) => (p \in Codes <=> byte(p) = 0 /\ byte(p + 1) = 0 /\ byte(p + 2) = 1)
  BY <1>1 DEF Codes
<1> HIDE DEF b
<1>5. /\ i + 2 < size => (b \in Codes <=> byte(b) = 0 /\ byte(b + 1) = 0 /\ byte(b + 2) = 1)
      /\ i + 3 < size => (b + 1 \in Codes <=> byte(b + 1) = 0 /\ byte(b + 2) = 0 /\ byte(b + 3) = 1)
  <2>1. i + 3 < size => (b + 1 \in Codes <=> byte(b + 1) = 0 /\ byte((b + 1) + 1) = 0 /\ byte((b + 1) + 2) = 1)
    BY <1>1, <1>4
  <2>2. (b + 1) + 1 = b + 2 /\ (b + 1) + 2 = b + 3
    BY <1>1
  <2> QED
    BY <1>1, <1>4, <2>1, <2>2
<1>6. i + 3 < size => i + 2 < size
  BY <1>1
<1>7. b = absolute(i)
  BY DEF b
<1> QED
  BY <1>3, <1>5, <1>6, <1>7

\* The scan passes nothing.
LEMMA ScanPassesNone ==
  ASSUME Progress, NEW i \in Nat, NEW short \in Nat
  PROVE  /\ FirstCodeAt(i, short) # None =>
              \A k \in Nat : i <= k /\ k < FirstCodeAt(i, short) => annexBStartLen(k) = 0
         /\ FirstCodeAt(i, short) = None => \A k \in Nat : i <= k /\ k + short < size => annexBStartLen(k) = 0
<1> DEFINE codes == {k \in i..(size - short - 1) : annexBStartLen(k) # 0}
<1>1. FirstCodeAt(i, short) = IF codes # {} THEN Min(codes) ELSE None
  BY DEF FirstCodeAt
<1>2. size \in Int
  BY DEF Progress, size
<1>3. codes \subseteq Nat
  BY <1>2
<1>4. codes # {} => Min(codes) \in codes /\ \A k \in codes : Min(codes) <= k
  <2> HIDE DEF codes
  <2> QED
    BY <1>3, MinOf
<1>5. codes = {} \/ Min(codes) # None
  BY <1>3, <1>4 DEF None
<1>6. ASSUME NEW k \in Nat, i <= k, k + short < size, annexBStartLen(k) # 0 PROVE k \in codes
  BY <1>2, <1>6
<1>7. ASSUME codes # {} PROVE Min(codes) \in Nat /\ Min(codes) + short < size
  BY <1>2, <1>4, <1>7
<1> HIDE DEF codes
<1>8. ASSUME FirstCodeAt(i, short) # None, NEW k \in Nat, i <= k, k < FirstCodeAt(i, short)
      PROVE  annexBStartLen(k) = 0
  <2>1. codes # {} /\ FirstCodeAt(i, short) = Min(codes)
    BY <1>1, <1>8
  <2>2. k + short < size
    BY <1>2, <1>7, <1>8, <2>1
  <2>3. k \notin codes
    BY <1>3, <1>4, <1>7, <1>8, <2>1
  <2> QED
    BY <1>6, <1>8, <2>2, <2>3
<1>9. ASSUME FirstCodeAt(i, short) = None, NEW k \in Nat, i <= k, k + short < size
      PROVE  annexBStartLen(k) = 0
  BY <1>1, <1>5, <1>6, <1>9
<1> QED
  BY <1>8, <1>9

\* A unit ends at the next code, less a zero in front of it, or at the end.
LEMMA UnitEnds ==
  ASSUME NEW p \in Codes
  PROVE  /\ \A q \in Codes : q > p /\ (\A c \in Codes : c > p => q <= c) =>
              UnitEnd(p) = IF q > p + 3 /\ byte(q - 1) = 0 THEN q - 1 ELSE q
         /\ (\A c \in Codes : ~(c > p)) => UnitEnd(p) = Len(stream)
<1> DEFINE next == {q \in Codes : q > p}
<1>1. UnitEnd(p) = LET q == Min(next) IN
                   IF next = {} THEN Len(stream) ELSE IF q > p + 3 /\ byte(q - 1) = 0 THEN q - 1 ELSE q
  BY DEF UnitEnd
<1>2. Codes \subseteq Int
  BY DEF Codes
<1>3. ASSUME NEW q \in Codes, q > p, \A c \in Codes : c > p => q <= c PROVE q = Min(next) /\ next # {}
  <2>1. q \in next /\ \A c \in next : q <= c
    BY <1>3
  <2>2. next \subseteq Int
    BY <1>2
  <2> HIDE DEF next
  <2>3. Min(next) \in next /\ \A c \in next : Min(next) <= c
    <3>1. \E x \in next : \A c \in next : x <= c
      BY <2>1
    <3> QED
      BY <3>1 DEF Min
  <2>4. q <= Min(next) /\ Min(next) <= q /\ q \in Int /\ Min(next) \in Int
    BY <2>1, <2>2, <2>3
  <2>5. q = Min(next)
    BY <2>4
  <2> QED
    BY <2>1, <2>5
<1>4. (\A c \in Codes : ~(c > p)) => next = {}
  OBVIOUS
<1> HIDE DEF next
<1> QED
  BY <1>1, <1>3, <1>4

\* What the pump cuts between two codes it has found is a unit of the stream, and
\* nothing else begins there.
CutAt(lo, p, hi) ==
    /\ p \in Codes /\ lo <= p /\ p + 3 <= hi
    /\ hi = UnitEnd(p)
    /\ \A c \in Codes : lo <= c /\ c < hi => c = p

\* The head of a unit: no code lies between the place the scan began and its own.
LEMMA HeadFound ==
  ASSUME Progress, NEW n \in Nat, NEW i \in Nat, n <= i, i + 2 < size, annexBStartLen(i) \in {3, 4},
         \A k \in Nat : n <= k /\ k < i => annexBStartLen(k) = 0
  PROVE  /\ absolute(i) + annexBStartLen(i) - 3 \in Codes
         /\ \A c \in Codes : absolute(n) <= c /\ c < absolute(i) + annexBStartLen(i)
              => c = absolute(i) + annexBStartLen(i) - 3
<1> DEFINE sc == annexBStartLen(i)
           p  == absolute(i) + sc - 3
<1>1. acc.base \in Nat /\ size \in Nat
  BY DEF Progress, size
<1>2. p \in Codes
  <2>1. sc = 4 => absolute(i) + 1 \in Codes
    BY CodeSeen
  <2>2. sc = 3 => absolute(i) \in Codes
    BY CodeSeen
  <2>3. absolute(i) \in Nat
    BY <1>1 DEF absolute
  <2> QED
    BY <2>1, <2>2, <2>3
<1>3. ASSUME NEW c \in Codes, absolute(n) <= c, c < absolute(i) + sc, c # p PROVE FALSE
  <2>1. c \in Nat
    BY <1>3, CodesApart
  <2>2. p \in Nat /\ p + 1 # c /\ p + 2 # c
    BY <1>2, CodesApart
  <2>3. c < p
    BY <1>1, <1>3, <2>1, <2>2 DEF absolute
  <2>4. CASE c < absolute(i)
    <3>1. PICK k \in Nat : c = absolute(k)
      <4>1. c - acc.base \in Nat
        BY <1>1, <1>3, <2>1 DEF absolute
      <4>2. c = absolute(c - acc.base)
        BY <1>1, <2>1 DEF absolute
      <4> QED
        BY <4>1, <4>2
    <3>2. n <= k /\ k < i
      BY <1>1, <1>3, <2>4, <3>1 DEF absolute
    <3>3. annexBStartLen(k) = 0 /\ k + 2 < size
      BY <1>1, <3>2
    <3>4. absolute(k) \notin Codes
      BY <3>3, CodeSeen
    <3> QED
      BY <3>1, <3>4
  <2>5. CASE c = absolute(i)
    <3>1. sc = 4
      BY <1>1, <2>3, <2>5 DEF absolute
    <3> QED
      BY <2>5, <3>1, CodeSeen
  <2> QED
    BY <1>1, <2>1, <2>3, <2>4, <2>5 DEF absolute
<1> QED
  BY <1>2, <1>3

LEMMA UnitFound ==
  ASSUME Progress, NEW i, NEW j, i = FirstCodeAt(acc.parseFrom, 3), i # None,
         j = FirstCodeAt(i + annexBStartLen(i), 2), j # None
  PROVE  /\ i \in Nat /\ j \in Nat /\ annexBStartLen(i) \in {3, 4}
         /\ i + annexBStartLen(i) <= j /\ j + 2 < size
         /\ CutAt(absolute(acc.parseFrom), absolute(i) + annexBStartLen(i) - 3, absolute(j))
<1> DEFINE n  == acc.parseFrom
           sc == annexBStartLen(i)
           p  == absolute(i) + sc - 3
<1>1. n \in Nat /\ acc.base \in Nat /\ size \in Nat /\ 3 \in Nat /\ 2 \in Nat
  BY DEF Progress, size
<1>2. i \in Nat /\ n <= i /\ i + 3 < size /\ sc \in {3, 4}
  BY <1>1, CodeFound
<1>3. i + sc \in Nat
  BY <1>2
<1>4. j \in Nat /\ i + sc <= j /\ j + 2 < size /\ annexBStartLen(j) \in {3, 4}
  BY <1>1, <1>3, CodeFound
<1>5. \A k \in Nat : n <= k /\ k < i => annexBStartLen(k) = 0
  BY <1>1, ScanPassesNone
<1>6. \A k \in Nat : i + sc <= k /\ k < j => annexBStartLen(k) = 0
  BY <1>1, <1>3, ScanPassesNone
<1>7. /\ p \in Codes
      /\ \A c \in Codes : absolute(n) <= c /\ c < absolute(i) + sc => c = p
  <2>1. i + 2 < size
    BY <1>1, <1>2
  <2> QED
    BY <1>1, <1>2, <1>5, <2>1, HeadFound
<1> DEFINE tc == annexBStartLen(j)
           q  == absolute(j) + tc - 3
<1>8. /\ q \in Codes
      /\ \A c \in Codes : absolute(i + sc) <= c /\ c < absolute(j) + tc => c = q
  BY <1>3, <1>4, <1>6, HeadFound
<1>9. absolute(i + sc) = absolute(i) + sc /\ absolute(i) = acc.base + i /\ absolute(j) = acc.base + j
      /\ absolute(n) = acc.base + n
  BY <1>1, <1>2 DEF absolute
<1>10. \A c \in Codes : c \in Nat
  BY CodesApart
<1>11. tc = 4 => byte(absolute(j)) = 0
  BY <1>4, CodeSeen
<1>12. tc = 3 /\ i + sc < j => byte(absolute(j) - 1) # 0
  <2> SUFFICES ASSUME tc = 3, i + sc < j, byte(absolute(j) - 1) = 0 PROVE FALSE
    OBVIOUS
  <2>1. j - 1 \in Nat /\ i + sc <= j - 1 /\ j - 1 < j /\ (j - 1) + 3 < size
    BY <1>1, <1>2, <1>4
  <2>2. annexBStartLen(j - 1) = 0
    BY <1>6, <2>1
  <2>3. absolute(j - 1) = absolute(j) - 1 /\ absolute(j - 1) + 1 = absolute(j)
    BY <1>1, <1>4 DEF absolute
  <2>4. absolute(j) \notin Codes
    BY <2>1, <2>2, <2>3, CodeSeen
  <2>5. q = absolute(j)
    BY <1>1, <1>4, <1>9
  <2> QED
    BY <1>8, <2>4, <2>5
<1> HIDE DEF p, q, sc, tc, n
<1>13. /\ p = absolute(i) + sc - 3 /\ q = absolute(j) + tc - 3 /\ sc \in {3, 4} /\ tc \in {3, 4}
       /\ n = acc.parseFrom
  BY <1>2, <1>4 DEF p, q, sc, tc, n
<1>14. p \in Nat /\ q \in Nat /\ q > p
  BY <1>1, <1>2, <1>4, <1>7, <1>8, <1>9, <1>10, <1>13
<1>15. \A c \in Codes : c > p => q <= c
  <2> SUFFICES ASSUME NEW c \in Codes, c > p, c < q PROVE FALSE
    BY <1>10, <1>14
  <2>1. c >= absolute(i) + sc
    BY <1>1, <1>2, <1>7, <1>9, <1>10, <1>13
  <2> QED
    BY <1>1, <1>2, <1>4, <1>8, <1>9, <1>10, <1>13, <2>1
<1>16. UnitEnd(p) = IF q > p + 3 /\ byte(q - 1) = 0 THEN q - 1 ELSE q
  BY <1>7, <1>8, <1>14, <1>15, UnitEnds
<1>17. UnitEnd(p) = absolute(j)
  <2>1. CASE tc = 4
    <3>1. q = absolute(j) + 1 /\ q > p + 3 /\ q - 1 = absolute(j)
      BY <1>1, <1>2, <1>4, <1>9, <1>13, <2>1
    <3> QED
      BY <1>11, <1>16, <2>1, <3>1
  <2>2. CASE tc = 3
    <3>1. q = absolute(j)
      BY <1>1, <1>2, <1>4, <1>9, <1>13, <2>2
    <3>2. q > p + 3 => i + sc < j
      BY <1>1, <1>2, <1>4, <1>9, <1>13, <3>1
    <3> QED
      BY <1>12, <1>16, <2>2, <3>1, <3>2
  <2> QED
    BY <1>13, <2>1, <2>2
<1>18. absolute(n) <= p /\ p + 3 <= absolute(j)
  BY <1>1, <1>2, <1>4, <1>9, <1>13
<1>19. ASSUME NEW c \in Codes, absolute(n) <= c, c < absolute(j) PROVE c = p
  <2>1. CASE c < absolute(i) + sc
    BY <1>7, <1>19, <2>1
  <2>2. CASE c >= absolute(i) + sc
    <3>1. c < absolute(j) + tc /\ absolute(i + sc) <= c
      BY <1>1, <1>2, <1>4, <1>9, <1>10, <1>13, <1>19, <2>2
    <3>2. c = q
      BY <1>8, <3>1
    <3> QED
      BY <1>1, <1>4, <1>9, <1>13, <1>19, <3>2
  <2> QED
    BY <1>1, <1>2, <1>9, <1>10, <1>13, <2>1, <2>2
<1>20. CutAt(absolute(n), p, absolute(j))
  BY <1>7, <1>17, <1>18, <1>19 DEF CutAt
<1> QED
  BY <1>2, <1>4, <1>20 DEF p, sc, n

\* Behind the last unit no code has been read: the scans have looked everywhere.
NoCodeFrom(lo) == \A c \in Codes : lo <= c => c + 3 > taken

LEMMA NoneBehind ==
  ASSUME Progress, NEW i, i = FirstCodeAt(acc.parseFrom, 3), i # None,
         FirstCodeAt(i + annexBStartLen(i), 2) = None
  PROVE  /\ i \in Nat /\ i + 3 < size /\ annexBStartLen(i) \in {3, 4}
         /\ absolute(i) + annexBStartLen(i) - 3 \in Codes
         /\ \A c \in Codes : absolute(acc.parseFrom) <= c /\ c < absolute(i) => FALSE
         /\ NoCodeFrom(absolute(i) + annexBStartLen(i))
<1> DEFINE n  == acc.parseFrom
           sc == annexBStartLen(i)
<1>1. n \in Nat /\ acc.base \in Nat /\ size \in Nat /\ 3 \in Nat /\ 2 \in Nat /\ taken \in Nat
      /\ size = taken - acc.base
  BY DEF Progress, size
<1>2. i \in Nat /\ n <= i /\ i + 3 < size /\ sc \in {3, 4}
  BY <1>1, CodeFound
<1>3. i + sc \in Nat
  BY <1>2
<1>4. \A k \in Nat : i + sc <= k /\ k + 2 < size => annexBStartLen(k) = 0
  BY <1>1, <1>3, ScanPassesNone
<1>5. /\ absolute(i) + sc - 3 \in Codes
      /\ \A c \in Codes : absolute(n) <= c /\ c < absolute(i) + sc => c = absolute(i) + sc - 3
  <2>1. i + 2 < size /\ \A k \in Nat : n <= k /\ k < i => annexBStartLen(k) = 0
    BY <1>1, <1>2, ScanPassesNone
  <2> QED
    BY <1>1, <1>2, <2>1, HeadFound
<1>6. absolute(i) = acc.base + i
  BY DEF absolute
<1>7. ASSUME NEW c \in Codes, absolute(i) + sc <= c, c + 3 <= taken PROVE FALSE
  <2>1. c \in Nat
    BY CodesApart
  <2>2. c - acc.base \in Nat /\ i + sc <= c - acc.base /\ (c - acc.base) + 2 < size
        /\ c = absolute(c - acc.base)
    BY <1>1, <1>2, <1>6, <1>7, <2>1 DEF absolute
  <2> QED
    BY <1>4, <2>2, CodeSeen
<1>8. NoCodeFrom(absolute(i) + sc)
  <2> SUFFICES ASSUME NEW c \in Codes, absolute(i) + sc <= c, ~(c + 3 > taken) PROVE FALSE
    BY DEF NoCodeFrom
  <2>1. c \in Nat
    BY CodesApart
  <2> QED
    BY <1>1, <1>7, <2>1
<1> HIDE DEF n, sc
<1>9. ASSUME NEW c \in Codes, absolute(n) <= c, c < absolute(i) PROVE FALSE
  <2>1. c \in Nat
    BY CodesApart
  <2> QED
    BY <1>1, <1>2, <1>5, <1>6, <1>9, <2>1
<1> QED
  BY <1>2, <1>5, <1>8, <1>9 DEF n, sc

LEMMA NoneFound ==
  ASSUME Progress, FirstCodeAt(acc.parseFrom, 3) = None
  PROVE  \A c \in Codes : absolute(acc.parseFrom) <= c => c + 3 >= taken
<1> SUFFICES ASSUME NEW c \in Codes, absolute(acc.parseFrom) <= c, ~(c + 3 >= taken) PROVE FALSE
  OBVIOUS
<1>1. acc.parseFrom \in Nat /\ acc.base \in Nat /\ size \in Nat /\ 3 \in Nat /\ taken \in Nat
      /\ size = taken - acc.base
  BY DEF Progress, size
<1>2. c \in Nat
  BY CodesApart
<1>3. /\ c - acc.base \in Nat /\ acc.parseFrom <= c - acc.base /\ (c - acc.base) + 3 < size
      /\ c = absolute(c - acc.base) /\ (c - acc.base) + 2 < size
  BY <1>1, <1>2 DEF absolute
<1>4. annexBStartLen(c - acc.base) = 0
  BY <1>1, <1>3, ScanPassesNone
<1> QED
  BY <1>3, <1>4, CodeSeen

------------------------------------------------------------------------------
(* What has been cut when.                                                  *)

Cut == [from : Nat, to : Nat, type : Nat]

\* The units follow each other, and the pump is behind them.
InOrder ==
    /\ stream \in Seq(0..255) /\ cuts \in Seq(Cut)
    /\ \A k \in 1..Len(cuts) : cuts[k].from <= cuts[k].to
    /\ \A k \in 1..(Len(cuts) - 1) : cuts[k].to <= cuts[k + 1].from
    /\ pump \notin {"end", "done"} => \A k \in 1..Len(cuts) : cuts[k].to <= absolute(acc.parseFrom)

\* Each is a unit of the stream.
IsUnit(from, to) == from - 3 \in Codes /\ to = UnitEnd(from - 3) /\ from < to
OnlyUnits ==
    taken = Len(stream) \/ pump \notin {"end", "done"} =>
      \A k \in 1..Len(cuts) : IsUnit(cuts[k].from, cuts[k].to)

\* None that begins in front of the pump was missed.
CutFrom(p) == \E k \in 1..Len(cuts) : cuts[k].from = p + 3 /\ cuts[k].to = UnitEnd(p)
CutBefore(lo) == \A p \in Codes : p < lo /\ p + 3 < UnitEnd(p) => CutFrom(p)
NoneMissed ==
    ~stopped =>
      /\ pump \notin {"end", "done"} => CutBefore(absolute(acc.parseFrom))
      /\ pump \in {"end", "done"} /\ taken = Len(stream) =>
           \A p \in Codes : p + 3 < UnitEnd(p) => CutFrom(p)

\* Between two reads the accumulator begins with the unit whose end is not in sight,
\* or holds no unit that has begun.
KeptUnit == annexBStartLen(0) \in {3, 4} /\ NoCodeFrom(acc.base + annexBStartLen(0))
KeptRest == \A c \in Codes : acc.base <= c => c + 3 >= taken
KeptHead ==
    ~stopped /\ pump \in {"begin", "read", "tail"} => acc.parseFrom = 0 /\ (KeptUnit \/ KeptRest)

\* While the bytes of a read are cut, either nothing was cut yet and every code but
\* the one at the head lies in those bytes, or what is left is hardly longer than
\* they are: so what compactAcc keeps, when it drops, is short.
OnlyNewCodes(m) ==
    \/ annexBStartLen(0) \in {3, 4} /\ \A c \in Codes : acc.base + annexBStartLen(0) <= c => c + 3 > taken - m
    \/ \A c \in Codes : acc.base <= c => c + 3 >= taken - m
RestShort ==
    ~stopped /\ pump = "consume" =>
      \E m \in Reads : (acc.parseFrom = 0 /\ OnlyNewCodes(m)) \/ size - acc.parseFrom <= m + 4

CutInv == InOrder /\ OnlyUnits /\ NoneMissed /\ KeptHead /\ RestShort

LEMMA StreamStays ==
  ASSUME stream' = stream
  PROVE  /\ Codes' = Codes /\ \A p : UnitEnd(p)' = UnitEnd(p) /\ byte(p)' = byte(p)
         /\ \A from, to : IsUnit(from, to)' <=> IsUnit(from, to)
         /\ Units' = Units
<1>1. Codes' = Codes /\ \A p : byte(p)' = byte(p)
  BY DEF Codes, byte
<1>2. \A p : UnitEnd(p)' = UnitEnd(p)
  BY <1>1 DEF UnitEnd
<1> QED
  BY <1>1, <1>2 DEF IsUnit, Units

LEMMA UnitIs ==
  ASSUME NEW from \in Nat, NEW to \in Nat
  PROVE  IsUnit(from, to) => [from |-> from, to |-> to] \in Units
<1> SUFFICES ASSUME IsUnit(from, to) PROVE [from |-> from, to |-> to] \in Units
  OBVIOUS
<1>1. from - 3 \in {q \in Codes : q + 3 < UnitEnd(q)} /\ (from - 3) + 3 = from
  BY DEF IsUnit
<1> QED
  BY <1>1 DEF IsUnit, Units

LEMMA CutsStart == NalInit => CutInv
<1> SUFFICES ASSUME NalInit PROVE CutInv
  OBVIOUS
<1>1. Len(cuts) = 0 /\ cuts \in Seq(Cut) /\ stream \in Seq(0..255) /\ pump = "begin" /\ taken = 0
      /\ acc.base = 0 /\ acc.parseFrom = 0 /\ absolute(acc.parseFrom) = 0
  BY NalAssumption DEF NalInit, absolute
<1>2. \A c \in Codes : c \in Nat
  BY CodesApart
<1> QED
  BY <1>1, <1>2 DEF CutInv, InOrder, OnlyUnits, NoneMissed, CutBefore, KeptHead, KeptRest,
     RestShort

\* A code that has been read stays where it is.
LEMMA HeadStays ==
  ASSUME Progress, UNCHANGED <<stream, acc>>, taken' \in Nat, taken <= taken', annexBStartLen(0) \in {3, 4}
  PROVE  annexBStartLen(0)' = annexBStartLen(0)
<1>1. taken \in Nat /\ acc.base \in Nat /\ size = taken - acc.base /\ size' = taken' - acc.base
  BY DEF Progress, size
<1>2. /\ absolute(0) = acc.base /\ absolute(1) = acc.base + 1 /\ absolute(2) = acc.base + 2
      /\ absolute(3) = acc.base + 3
  BY <1>1 DEF absolute
<1>3. \A i : absolute(i)' = absolute(i) /\ byte(i)' = byte(i)
  BY DEF absolute, byte
<1> DEFINE Zeros == byte(absolute(0)) = 0 /\ byte(absolute(1)) = 0
           Four  == Zeros /\ byte(absolute(2)) = 0 /\ byte(absolute(3)) = 1
           Three == Zeros /\ byte(absolute(2)) = 1
<1>4. annexBStartLen(0) = IF 3 < size /\ Four THEN 4 ELSE IF 2 < size /\ Three THEN 3 ELSE 0
  BY <1>1 DEF annexBStartLen
<1>5. annexBStartLen(0)' = IF 3 < size' /\ Four THEN 4 ELSE IF 2 < size' /\ Three THEN 3 ELSE 0
  <2>1. annexBStartLen(0)' = IF 0 + 3 < size' /\ \A k \in 0..2 : byte(absolute(0 + k)) = 0 /\ byte(absolute(0 + 3)) = 1
                             THEN 4
                             ELSE IF 0 + 2 < size' /\ byte(absolute(0)) = 0 /\ byte(absolute(0 + 1)) = 0
                                     /\ byte(absolute(0 + 2)) = 1 THEN 3 ELSE 0
    BY <1>3 DEF annexBStartLen
  <2> QED
    BY <1>1, <2>1
<1>6. size <= size' /\ size \in Int /\ size' \in Int
  BY <1>1
<1>7. ~(Four /\ Three)
  OBVIOUS
<1> HIDE DEF Four, Three
<1> QED
  BY <1>4, <1>5, <1>6, <1>7

\* The steps that neither parse nor drop.
LEMMA CutsFrame ==
  ASSUME Progress, CutInv, UNCHANGED <<stream, acc, cuts>>, stopped => stopped',
         pump' \in {"end", "done"} <=> pump \in {"end", "done"},
         pump' \in {"begin", "read", "tail"} => pump \in {"begin", "read", "tail"} /\ taken' = taken,
         pump \in {"end", "done"} => taken' = taken,
         pump' = "consume" => \/ pump = "consume" /\ taken' = taken
                              \/ pump = "read" /\ \E n \in Reads : taken' = taken + n
  PROVE  CutInv'
<1>1. /\ Codes' = Codes /\ \A p : UnitEnd(p)' = UnitEnd(p)
      /\ \A from, to : IsUnit(from, to)' <=> IsUnit(from, to)
  BY StreamStays
<1>2. \A i : absolute(i)' = absolute(i)
  BY DEF absolute
<1>3. InOrder'
  BY <1>2 DEF CutInv, InOrder
<1>4. OnlyUnits'
  BY <1>1 DEF CutInv, OnlyUnits
<1>5. \A p : CutFrom(p)' <=> CutFrom(p)
  BY <1>1 DEF CutFrom
<1>6. NoneMissed'
  BY <1>1, <1>2, <1>5 DEF CutInv, NoneMissed, CutBefore
<1>7. KeptHead'
  <2> SUFFICES ASSUME ~stopped', pump' \in {"begin", "read", "tail"}
               PROVE  acc'.parseFrom = 0 /\ (KeptUnit' \/ KeptRest')
    BY DEF KeptHead
  <2>1. ~stopped /\ pump \in {"begin", "read", "tail"} /\ taken' = taken
    OBVIOUS
  <2>2. acc.parseFrom = 0 /\ (KeptUnit \/ KeptRest)
    BY <2>1 DEF CutInv, KeptHead
  <2>3. KeptRest => KeptRest'
    BY <1>1, <2>1 DEF KeptRest
  <2>4. annexBStartLen(0)' = annexBStartLen(0)
    BY <2>1 DEF annexBStartLen, byte, absolute, size
  <2>5. KeptUnit => KeptUnit'
    BY <1>1, <2>1, <2>4 DEF KeptUnit, NoCodeFrom
  <2> QED
    BY <2>2, <2>3, <2>5
<1>8. RestShort'
  <2> SUFFICES ASSUME ~stopped', pump' = "consume"
               PROVE  \E m \in Reads : (acc'.parseFrom = 0 /\ OnlyNewCodes(m)') \/ size' - acc'.parseFrom <= m + 4
    BY DEF RestShort
  <2>1. CASE pump = "consume" /\ taken' = taken
    <3>1. PICK m \in Reads : (acc.parseFrom = 0 /\ OnlyNewCodes(m)) \/ size - acc.parseFrom <= m + 4
      BY <2>1 DEF CutInv, RestShort
    <3>2. annexBStartLen(0)' = annexBStartLen(0) /\ size' = size
      BY <2>1 DEF annexBStartLen, byte, absolute, size
    <3>3. OnlyNewCodes(m) => OnlyNewCodes(m)'
      BY <1>1, <2>1, <3>2 DEF OnlyNewCodes
    <3> QED
      BY <3>1, <3>2, <3>3
  <2>2. ASSUME pump = "read", NEW n \in Reads, taken' = taken + n
        PROVE  acc'.parseFrom = 0 /\ OnlyNewCodes(n)'
    <3>1. acc.parseFrom = 0 /\ (KeptUnit \/ KeptRest)
      BY <2>2 DEF CutInv, KeptHead
    <3>2. taken' - n = taken /\ taken' \in Nat /\ taken <= taken'
      BY <2>2, NalAssumption DEF Progress
    <3>3. annexBStartLen(0) \in {3, 4} => annexBStartLen(0)' = annexBStartLen(0)
      BY <3>2, HeadStays
    <3> QED
      BY <1>1, <3>1, <3>2, <3>3 DEF OnlyNewCodes, KeptUnit, KeptRest, NoCodeFrom
  <2> QED
    BY <2>1, <2>2
<1> QED
  BY <1>3, <1>4, <1>6, <1>7, <1>8 DEF CutInv

\* One more unit, at the place the pump has come to or behind it.
LEMMA CutMore ==
  ASSUME InOrder, NEW c \in Cut, cuts' = Append(cuts, c), c.from <= c.to,
         \A k \in 1..Len(cuts) : cuts[k].to <= c.from
  PROVE  /\ cuts' \in Seq(Cut) /\ Len(cuts') = Len(cuts) + 1 /\ Len(cuts) \in Nat
         /\ \A k \in 1..Len(cuts) : cuts'[k] = cuts[k]
         /\ cuts'[Len(cuts) + 1] = c
         /\ \A k \in 1..Len(cuts') : cuts'[k].from <= cuts'[k].to
         /\ \A k \in 1..(Len(cuts') - 1) : cuts'[k].to <= cuts'[k + 1].from
<1>1. cuts \in Seq(Cut)
  BY DEF InOrder
<1>2. /\ cuts' \in Seq(Cut) /\ Len(cuts') = Len(cuts) + 1 /\ Len(cuts) \in Nat
      /\ \A k \in 1..Len(cuts) : cuts'[k] = cuts[k]
      /\ cuts'[Len(cuts) + 1] = c
  BY <1>1
<1>3. ASSUME NEW k \in 1..Len(cuts') PROVE cuts'[k].from <= cuts'[k].to
  <2>1. k \in 1..Len(cuts) \/ k = Len(cuts) + 1
    BY <1>2, <1>3
  <2> QED
    BY <1>2, <2>1 DEF InOrder
<1>4. ASSUME NEW k \in 1..(Len(cuts') - 1) PROVE cuts'[k].to <= cuts'[k + 1].from
  <2>1. k \in 1..Len(cuts) /\ (\/ k + 1 \in 1..Len(cuts) /\ k \in 1..(Len(cuts) - 1)
                               \/ k + 1 = Len(cuts) + 1)
    BY <1>2, <1>4
  <2> QED
    BY <1>2, <2>1 DEF InOrder
<1> QED
  BY <1>2, <1>3, <1>4

\* Nothing that was cut is lost by cutting more.
LEMMA CutStays ==
  ASSUME InOrder, NEW c \in Cut, cuts' = Append(cuts, c), stream' = stream
  PROVE  /\ \A p : CutFrom(p) => CutFrom(p)'
         /\ \A p : c.from = p + 3 /\ c.to = UnitEnd(p) => CutFrom(p)'
<1>1. cuts \in Seq(Cut)
  BY DEF InOrder
<1>2. /\ Len(cuts') = Len(cuts) + 1 /\ Len(cuts) \in Nat
      /\ \A k \in 1..Len(cuts) : cuts'[k] = cuts[k]
      /\ cuts'[Len(cuts) + 1] = c
  BY <1>1
<1>3. \A p : UnitEnd(p)' = UnitEnd(p)
  BY StreamStays
<1>4. \A k \in 1..Len(cuts) : k \in 1..Len(cuts')
  BY <1>2
<1>5. Len(cuts) + 1 \in 1..Len(cuts')
  BY <1>2
<1> QED
  BY <1>2, <1>3, <1>4, <1>5 DEF CutFrom

LEMMA ElementOf == ASSUME NEW S, NEW s \in Seq(S), NEW k \in 1..Len(s) PROVE s[k] \in S
OBVIOUS

LEMMA TypeOfUnit ==
  ASSUME Progress, InOrder, NEW from \in Nat, NEW to \in Nat, NEW sc \in Nat, to <= taken
  PROVE  annexBNalType(from, to, sc) \in Nat
<1>1. CASE sc >= to - from
  BY <1>1 DEF annexBNalType
<1>2. CASE ~(sc >= to - from)
  <2>1. (from + sc) + 1 \in 1..Len(stream)
    BY <1>2 DEF Progress
  <2>2. stream[(from + sc) + 1] \in 0..255
    BY <2>1, ElementOf DEF InOrder
  <2>3. byte(from + sc) \in 0..255
    BY <2>2 DEF byte
  <2> QED
    BY <1>2, <2>3 DEF annexBNalType
<1> QED
  BY <1>1, <1>2

\* Once a unit is cut, the next one begins with a code of the last read.
LEMMA UnitShort ==
  ASSUME Progress, RestShort, ConsumeUnit
  PROVE  RestShort'
<1> DEFINE n  == acc.parseFrom
           i  == FirstCodeAt(n, 3)
           sc == annexBStartLen(i)
           j  == FirstCodeAt(i + sc, 2)
           tc == annexBStartLen(j)
           q  == absolute(j) + tc - 3
<1>1. /\ pump = "consume" /\ ~stopped /\ acc' = [acc EXCEPT !.parseFrom = j]
      /\ UNCHANGED <<stream, taken, pump, stopped>>
  BY DEF ConsumeUnit
<1>2. i # None /\ j # None
  BY DEF ConsumeUnit, NothingComplete
<1>3. /\ acc \in [base : Nat, parseFrom : Nat] /\ n \in Nat /\ acc.base \in Nat /\ taken \in Nat
      /\ size = taken - acc.base /\ 3 \in Nat /\ 2 \in Nat
  BY DEF Progress, size
<1>4. i \in Nat /\ n <= i /\ i + 3 < size /\ sc \in {3, 4}
  BY <1>2, <1>3, CodeFound
<1>5. i + sc \in Nat
  BY <1>4
<1>6. j \in Nat /\ i + sc <= j /\ j + 2 < size /\ tc \in {3, 4}
  BY <1>2, <1>3, <1>5, CodeFound
<1>7. q \in Codes
  <2>1. tc = 4 => absolute(j) + 1 \in Codes
    BY <1>6, CodeSeen
  <2>2. tc = 3 => absolute(j) \in Codes
    BY <1>6, CodeSeen
  <2>3. absolute(j) \in Nat
    BY <1>3, <1>6 DEF absolute
  <2> QED
    BY <1>6, <2>1, <2>2, <2>3
<1>8. 0 < i /\ n = 0 => annexBStartLen(0) = 0
  BY <1>2, <1>3, <1>4, ScanPassesNone
<1>9. acc'.base = acc.base /\ acc'.parseFrom = j /\ size' = size
  BY <1>1, <1>3 DEF size
<1>10. absolute(j) = acc.base + j
  BY DEF absolute
<1>11. i = 0 => sc = annexBStartLen(0)
  OBVIOUS
<1>12. q = absolute(j) + tc - 3 /\ n = acc.parseFrom
  OBVIOUS
<1> HIDE DEF n, i, sc, j, tc, q
<1>13. PICK m \in Reads : (n = 0 /\ OnlyNewCodes(m)) \/ size - n <= m + 4
  BY <1>1, <1>12 DEF RestShort
<1>14. m \in Nat
  BY NalAssumption
<1>15. q \in Nat /\ q >= acc.base /\ q >= acc.base + i + sc /\ q + 3 <= acc.base + j + 4
  BY <1>3, <1>4, <1>6, <1>10, <1>12
<1>16. size - j <= m + 4
  <2>1. CASE size - n <= m + 4
    BY <1>3, <1>4, <1>6, <1>14, <2>1
  <2>2. CASE n = 0 /\ annexBStartLen(0) \in {3, 4}
                    /\ \A c \in Codes : acc.base + annexBStartLen(0) <= c => c + 3 > taken - m
    <3>1. i = 0 /\ sc = annexBStartLen(0)
      BY <1>4, <1>8, <1>11, <2>2
    <3>2. acc.base + annexBStartLen(0) <= q
      BY <1>3, <1>4, <1>15, <3>1
    <3>3. q + 3 > taken - m
      BY <1>7, <2>2, <3>2
    <3> QED
      BY <1>3, <1>6, <1>14, <1>15, <3>3
  <2>3. CASE \A c \in Codes : acc.base <= c => c + 3 >= taken - m
    <3>1. q + 3 >= taken - m
      BY <1>7, <1>15, <2>3
    <3> QED
      BY <1>3, <1>6, <1>14, <1>15, <3>1
  <2> QED
    BY <1>13, <2>1, <2>2, <2>3 DEF OnlyNewCodes
<1> QED
  BY <1>9, <1>16 DEF RestShort

\* What is kept when something is dropped fits under the cap: the reset of
\* compactAcc is never reached.
LEMMA RestFits ==
  ASSUME Progress, RestShort, ~stopped, pump = "consume", NEW i, i = FirstCodeAt(acc.parseFrom, 3),
         NEW head, head = IF i = None THEN Unfound(acc.parseFrom) ELSE i
  PROVE  ~(head > 0 /\ size - head > MaxAcc)
<1> SUFFICES ASSUME head > 0 PROVE size - head <= MaxAcc
  <2>1. size \in Int /\ MaxAcc \in Nat /\ head \in Nat
    <3>1. acc.parseFrom \in Nat /\ size \in Int /\ 3 \in Nat
      BY DEF Progress, size
    <3>2. i # None => i \in Nat
      BY <3>1, CodeFound
    <3> QED
      BY <3>1, <3>2, NalAssumption DEF Unfound
  <2> QED
    BY <2>1
<1> DEFINE n == acc.parseFrom
           sc == annexBStartLen(i)
           p  == absolute(i) + sc - 3
<1>1. /\ n \in Nat /\ acc.base \in Nat /\ taken \in Nat /\ size = taken - acc.base /\ size \in Nat
      /\ 3 \in Nat /\ n <= size
  BY DEF Progress, size
<1>2. PICK m \in Reads : (n = 0 /\ OnlyNewCodes(m)) \/ size - n <= m + 4
  BY DEF RestShort
<1>3. m \in Nat /\ m + 4 <= MaxAcc /\ MaxAcc \in Nat
  BY NalAssumption
<1>4. CASE i = None
  <2>1. CASE n + 3 < size
    BY <1>1, <1>3, <1>4, <2>1 DEF Unfound
  <2>2. CASE ~(n + 3 < size)
    BY <1>1, <1>3, <1>4, <2>2 DEF Unfound
  <2> QED
    BY <2>1, <2>2
<1>5. CASE i # None
  <2>1. i \in Nat /\ n <= i /\ i + 3 < size /\ sc \in {3, 4} /\ head = i
    BY <1>1, <1>5, CodeFound
  <2>2. p \in Codes
    <3>1. sc = 4 => absolute(i) + 1 \in Codes
      BY <2>1, CodeSeen
    <3>2. sc = 3 => absolute(i) \in Codes
      BY <2>1, CodeSeen
    <3>3. absolute(i) \in Nat
      BY <1>1, <2>1 DEF absolute
    <3> QED
      BY <2>1, <3>1, <3>2, <3>3
  <2>3. n = 0 => annexBStartLen(0) = 0
    BY <1>1, <1>5, <2>1, ScanPassesNone
  <2>4. p \in Nat /\ p >= acc.base /\ p + 3 <= acc.base + i + 4
    BY <1>1, <2>1 DEF absolute
  <2> HIDE DEF p, sc, n
  <2>5. CASE size - n <= m + 4
    BY <1>1, <1>3, <2>1, <2>5
  <2>6. CASE n = 0 /\ OnlyNewCodes(m)
    <3>1. p + 3 >= taken - m
      BY <2>2, <2>3, <2>4, <2>6 DEF OnlyNewCodes
    <3> QED
      BY <1>1, <1>3, <2>1, <2>4, <3>1
  <2> QED
    BY <1>2, <2>5, <2>6
<1> QED
  BY <1>4, <1>5

LEMMA UnitCuts ==
  ASSUME Progress, CutInv, ConsumeUnit
  PROVE  CutInv'
<1> DEFINE n  == absolute(acc.parseFrom)
           i  == FirstCodeAt(acc.parseFrom, 3)
           sc == annexBStartLen(i)
           j  == FirstCodeAt(i + sc, 2)
           p  == absolute(i) + sc - 3
           c  == [from |-> absolute(i) + sc, to |-> absolute(j), type |-> annexBNalType(absolute(i), absolute(j), sc)]
<1>1. /\ pump = "consume" /\ acc' = [acc EXCEPT !.parseFrom = j]
      /\ UNCHANGED <<stream, taken, pump, paused, stopped>>
      /\ IF i + sc < j THEN cuts' = Append(cuts, c) ELSE cuts' = cuts
  BY DEF ConsumeUnit, HandleUnit
<1>2. i # None /\ j # None
  BY DEF ConsumeUnit, NothingComplete
<1>3. i \in Nat /\ j \in Nat /\ sc \in {3, 4} /\ i + sc <= j /\ j + 2 < size /\ CutAt(n, p, absolute(j))
  BY <1>2, UnitFound
<1>4. /\ acc \in [base : Nat, parseFrom : Nat] /\ n \in Nat /\ taken \in Nat
      /\ absolute(i) = acc.base + i /\ absolute(j) = acc.base + j /\ absolute(j) < taken
      /\ absolute(acc.parseFrom)' = absolute(j)
  BY <1>1, <1>3 DEF Progress, absolute, size
<1> HIDE DEF n, i, j, sc, p
<1>5. p = absolute(i) + sc - 3 /\ n = absolute(acc.parseFrom) /\ absolute(i) \in Nat /\ absolute(j) \in Nat
      /\ p + 3 = absolute(i) + sc /\ n <= p /\ p \in Nat /\ p + 3 <= absolute(j)
      /\ (i + sc < j <=> p + 3 < absolute(j))
  <2>1. p \in Nat /\ n <= p /\ p + 3 <= absolute(j)
    BY <1>3, CodesApart DEF CutAt
  <2> QED
    BY <1>3, <1>4, <2>1 DEF p, n
<1>6. /\ Codes' = Codes /\ (\A x : UnitEnd(x)' = UnitEnd(x))
      /\ (\A from, to : IsUnit(from, to)' <=> IsUnit(from, to))
  BY <1>1, StreamStays
<1>7. pump \notin {"end", "done"} /\ pump' \notin {"begin", "read", "tail", "end", "done"}
  BY <1>1
<1>8. KeptHead' /\ RestShort'
  <2>1. RestShort'
    BY UnitShort DEF CutInv
  <2> QED
    BY <1>7, <2>1 DEF KeptHead
<1>9. InOrder /\ OnlyUnits /\ NoneMissed
  BY DEF CutInv
<1>10. \A k \in 1..Len(cuts) : cuts[k].to <= n
  BY <1>5, <1>7, <1>9 DEF InOrder
<1>11. \A k \in 1..Len(cuts) : IsUnit(cuts[k].from, cuts[k].to)
  BY <1>7, <1>9 DEF OnlyUnits
<1>12. CASE i + sc < j
  <2>1. c \in Cut /\ c.from = p + 3 /\ c.to = absolute(j) /\ cuts' = Append(cuts, c)
    <3>1. annexBNalType(absolute(i), absolute(j), sc) \in Nat
      <4>1. sc \in Nat /\ absolute(j) <= taken
        BY <1>3, <1>4, <1>5
      <4> QED
        BY <1>5, <1>9, <4>1, TypeOfUnit
    <3> QED
      BY <1>1, <1>3, <1>5, <1>12, <3>1 DEF Cut
  <2> HIDE DEF c
  <2>2. \A k \in 1..Len(cuts) : cuts[k].to \in Nat
    <3>1. \A k \in 1..Len(cuts) : cuts[k] \in Cut
      BY <1>9, ElementOf DEF InOrder
    <3> QED
      BY <3>1 DEF Cut
  <2>3. c.from <= c.to /\ \A k \in 1..Len(cuts) : cuts[k].to <= c.from
    BY <1>4, <1>5, <1>10, <1>12, <2>1, <2>2
  <2>4. /\ cuts' \in Seq(Cut) /\ Len(cuts') = Len(cuts) + 1 /\ Len(cuts) \in Nat
        /\ \A k \in 1..Len(cuts) : cuts'[k] = cuts[k]
        /\ cuts'[Len(cuts) + 1] = c
        /\ \A k \in 1..Len(cuts') : cuts'[k].from <= cuts'[k].to
        /\ \A k \in 1..(Len(cuts') - 1) : cuts'[k].to <= cuts'[k + 1].from
    BY <1>9, <2>1, <2>3, CutMore
  <2>5. \A k \in 1..Len(cuts') : k \in 1..Len(cuts) \/ k = Len(cuts) + 1
    BY <2>4
  <2>6. \A k \in 1..Len(cuts') : cuts'[k].to <= absolute(j)
    BY <1>4, <1>5, <1>10, <2>1, <2>2, <2>4, <2>5
  <2>7. InOrder'
    BY <1>1, <1>4, <1>9, <2>4, <2>6 DEF InOrder
  <2>8. IsUnit(c.from, c.to)
    <3>1. c.from - 3 = p /\ c.from < c.to
      BY <1>5, <1>12, <2>1
    <3> QED
      BY <1>3, <2>1, <3>1 DEF IsUnit, CutAt
  <2>9. OnlyUnits'
    <3>1. \A k \in 1..Len(cuts') : IsUnit(cuts'[k].from, cuts'[k].to)
      BY <1>11, <2>4, <2>5, <2>8
    <3> QED
      BY <1>6, <3>1 DEF OnlyUnits
  <2>10. /\ (\A x : CutFrom(x) => CutFrom(x)')
         /\ (\A x : c.from = x + 3 /\ c.to = UnitEnd(x) => CutFrom(x)')
    BY <1>1, <1>9, <2>1, CutStays
  <2>11. \A x : x = p => CutFrom(x)'
    <3>1. c.from = p + 3 /\ c.to = UnitEnd(p)
      BY <1>3, <2>1 DEF CutAt
    <3> QED
      BY <2>10, <3>1
  <2>12. NoneMissed'
    <3> SUFFICES ASSUME ~stopped PROVE CutBefore(absolute(acc.parseFrom))'
      BY <1>1, <1>7 DEF NoneMissed
    <3>1. CutBefore(n)
      BY <1>5, <1>7, <1>9 DEF NoneMissed
    <3>2. ASSUME NEW x \in Codes, x < absolute(j), x + 3 < UnitEnd(x) PROVE CutFrom(x)'
      <4>1. CASE x < n
        BY <2>10, <3>1, <3>2, <4>1 DEF CutBefore
      <4>2. CASE ~(x < n)
        <5>1. n <= x
          BY <1>4, <3>2, <4>2, CodesApart
        <5>2. x = p
          BY <1>3, <3>2, <5>1 DEF CutAt
        <5> QED
          BY <2>11, <5>2
      <4> QED
        BY <4>1, <4>2
    <3> QED
      BY <1>4, <1>6, <3>2 DEF CutBefore
  <2> QED
    BY <1>8, <2>7, <2>9, <2>12 DEF CutInv
<1>13. CASE ~(i + sc < j)
  <2>1. cuts' = cuts /\ absolute(j) = p + 3 /\ n <= absolute(j)
    BY <1>1, <1>3, <1>4, <1>5, <1>13
  <2>2. \A k \in 1..Len(cuts) : cuts[k] \in Cut
    BY <1>9 DEF InOrder
  <2>3. \A k \in 1..Len(cuts) : cuts[k].to <= absolute(j)
    BY <1>4, <1>5, <1>10, <2>1, <2>2 DEF Cut
  <2>4. InOrder'
    BY <1>1, <1>4, <1>9, <2>1, <2>3 DEF InOrder
  <2>5. OnlyUnits'
    BY <1>6, <1>11, <2>1 DEF OnlyUnits
  <2>6. NoneMissed'
    <3> SUFFICES ASSUME ~stopped PROVE CutBefore(absolute(acc.parseFrom))'
      BY <1>1, <1>7 DEF NoneMissed
    <3>1. CutBefore(n)
      BY <1>5, <1>7, <1>9 DEF NoneMissed
    <3>2. ASSUME NEW x \in Codes, x < absolute(j), x + 3 < UnitEnd(x) PROVE CutFrom(x)
      <4>1. CASE x < n
        BY <3>1, <3>2, <4>1 DEF CutBefore
      <4>2. CASE ~(x < n)
        <5>1. n <= x
          BY <1>4, <3>2, <4>2, CodesApart
        <5>2. x = p /\ UnitEnd(p) = absolute(j)
          BY <1>3, <3>2, <5>1 DEF CutAt
        <5> QED
          BY <1>5, <2>1, <3>2, <5>2
      <4> QED
        BY <4>1, <4>2
    <3>3. \A x : CutFrom(x)' <=> CutFrom(x)
      BY <1>6, <2>1 DEF CutFrom
    <3> QED
      BY <1>4, <1>6, <3>2, <3>3 DEF CutBefore
  <2> QED
    BY <1>8, <2>4, <2>5, <2>6 DEF CutInv
<1> QED
  BY <1>12, <1>13

\* What is dropped holds no unit.
LEMMA CompactCuts ==
  ASSUME Progress, CutInv, Compact
  PROVE  CutInv'
<1> DEFINE n    == absolute(acc.parseFrom)
           i    == FirstCodeAt(acc.parseFrom, 3)
           head == IF i = None THEN Unfound(acc.parseFrom) ELSE i
           over == head > 0 /\ size - head > MaxAcc
           kept == IF over THEN taken ELSE absolute(head)
<1>1. /\ pump = "consume" /\ pump' = "read" /\ (stopped \/ NothingComplete)
      /\ acc' = [base |-> kept, parseFrom |-> 0]
      /\ UNCHANGED <<stream, taken, paused, stopped, cuts>>
  BY DEF Compact, NalHistory
<1>2. /\ acc.parseFrom \in Nat /\ acc.base \in Nat /\ taken \in Nat /\ n = acc.base + acc.parseFrom
      /\ n <= taken /\ size = taken - acc.base
  BY DEF Progress, absolute, size
<1>3. /\ i = None => \A c \in Codes : n <= c => c + 3 >= taken
      /\ i # None => i \in Nat /\ i + 3 < size /\ acc.parseFrom <= i
      /\ i # None /\ ~stopped =>
           /\ i \in Nat /\ i + 3 < size /\ annexBStartLen(i) \in {3, 4}
           /\ \A c \in Codes : ~(n <= c /\ c < absolute(i))
           /\ NoCodeFrom(absolute(i) + annexBStartLen(i))
           /\ acc.parseFrom <= i
  <2>1. i = None => \A c \in Codes : n <= c => c + 3 >= taken
    BY NoneFound
  <2>2. ASSUME i # None, ~stopped PROVE FirstCodeAt(i + annexBStartLen(i), 2) = None
    BY <1>1, <2>2 DEF NothingComplete
  <2>3. i # None => i \in Nat /\ i + 3 < size /\ acc.parseFrom <= i
    <3>1. 3 \in Nat
      OBVIOUS
    <3> QED
      BY <1>2, <3>1, CodeFound
  <2> QED
    BY <2>1, <2>2, <2>3, NoneBehind
<1> HIDE DEF i, n
<1>4. head \in Nat /\ acc.parseFrom <= head /\ head <= size
  BY <1>2, <1>3 DEF Unfound
<1>5. ASSUME ~stopped, NEW c \in Codes, n <= c, c < absolute(head) PROVE FALSE
  <2>1. c \in Nat
    BY CodesApart
  <2>2. CASE i = None
    BY <1>2, <1>3, <1>5, <2>1, <2>2 DEF Unfound, absolute
  <2>3. CASE i # None
    BY <1>3, <1>5, <2>3
  <2> QED
    BY <2>2, <2>3
<1>6. n <= kept /\ kept <= taken /\ kept \in Nat /\ n \in Nat /\ absolute(head) = acc.base + head
  BY <1>2, <1>4 DEF absolute
<1>7. ~over => kept = absolute(head)
  OBVIOUS
<1>8. over => kept = taken
  OBVIOUS
<1>9. ~stopped /\ i # None => head = i
  OBVIOUS
<1>10. ~stopped /\ i = None => head = Unfound(acc.parseFrom)
  OBVIOUS
<1>o. ~stopped => ~over
  BY <1>1, RestFits DEF CutInv, i
<1> HIDE DEF head, over, kept
<1>11. acc'.base = kept /\ acc'.parseFrom = 0 /\ absolute(acc.parseFrom)' = kept
  BY <1>1, <1>2, <1>6 DEF absolute
<1>12. /\ Codes' = Codes /\ (\A x : UnitEnd(x)' = UnitEnd(x))
       /\ (\A from, to : IsUnit(from, to)' <=> IsUnit(from, to))
  BY <1>1, StreamStays
<1>13. InOrder /\ OnlyUnits /\ NoneMissed
  BY DEF CutInv
<1>14. InOrder'
  <2>1. \A k \in 1..Len(cuts) : cuts[k].to \in Nat
    <3>1. \A k \in 1..Len(cuts) : cuts[k] \in Cut
      BY <1>13, ElementOf DEF InOrder
    <3> QED
      BY <3>1 DEF Cut
  <2>2. \A k \in 1..Len(cuts) : cuts[k].to <= n
    BY <1>1, <1>13 DEF InOrder, n
  <2>3. \A k \in 1..Len(cuts) : cuts[k].to <= kept
    BY <1>2, <1>6, <2>1, <2>2
  <2> QED
    BY <1>1, <1>11, <1>13, <2>3 DEF InOrder
<1>15. OnlyUnits'
  BY <1>1, <1>12, <1>13 DEF OnlyUnits
<1>16. NoneMissed'
  <2> SUFFICES ASSUME ~stopped PROVE CutBefore(absolute(acc.parseFrom))'
    BY <1>1 DEF NoneMissed
  <2>1. CutBefore(n)
    BY <1>1, <1>13 DEF NoneMissed, n
  <2>2. \A x : CutFrom(x)' <=> CutFrom(x)
    BY <1>1, <1>12 DEF CutFrom
  <2>3. ASSUME NEW x \in Codes, x < kept, x + 3 < UnitEnd(x) PROVE CutFrom(x)
    <3>1. x < n
      BY <1>2, <1>5, <1>7, <1>o, <2>3, CodesApart
    <3> QED
      BY <2>1, <2>3, <3>1 DEF CutBefore
  <2> QED
    BY <1>11, <1>12, <2>2, <2>3 DEF CutBefore
<1>17. KeptHead'
  <2> SUFFICES ASSUME ~stopped PROVE KeptUnit' \/ KeptRest'
    BY <1>1, <1>11 DEF KeptHead
  <2>1. CASE over \/ i = None
    <3>1. ASSUME NEW c \in Codes, kept <= c PROVE c + 3 >= taken
      <4>1. c \in Nat
        BY CodesApart
      <4>2. CASE over
        BY <1>2, <1>8, <3>1, <4>1, <4>2
      <4>3. CASE i = None
        BY <1>2, <1>3, <1>6, <3>1, <4>1, <4>3
      <4> QED
        BY <2>1, <4>2, <4>3
    <3> QED
      BY <1>1, <1>11, <1>12, <3>1 DEF KeptRest
  <2>2. CASE ~over /\ i # None
    <3>1. kept = acc.base + i /\ kept = absolute(i) /\ i \in Nat
      BY <1>3, <1>6, <1>7, <1>9, <2>2
    <3>2. annexBStartLen(0)' = annexBStartLen(i)
      <4>1. \A k \in 0..3 : absolute(0 + k)' = kept + k /\ absolute(i + k) = kept + k
        BY <1>2, <1>11, <3>1 DEF absolute
      <4>2. /\ absolute(0)' = kept /\ absolute(1)' = kept + 1 /\ absolute(2)' = kept + 2 /\ absolute(3)' = kept + 3
            /\ absolute(i) = kept /\ absolute(i + 1) = kept + 1 /\ absolute(i + 2) = kept + 2
            /\ absolute(i + 3) = kept + 3
        BY <1>2, <1>11, <3>1 DEF absolute
      <4>3. size' = size - i
        BY <1>1, <1>2, <1>11, <3>1 DEF size
      <4>4. size \in Int /\ (0 + 3 < size' <=> i + 3 < size) /\ (0 + 2 < size' <=> i + 2 < size)
        BY <1>2, <3>1, <4>3
      <4>5. \A x : byte(x)' = byte(x)
        BY <1>1 DEF byte
      <4>6. \A k \in 0..2 : byte(absolute(0 + k))' = byte(absolute(i + k))
        BY <1>1, <4>1 DEF byte
      <4>7. /\ byte(absolute(0 + 3))' = byte(absolute(i + 3)) /\ byte(absolute(0))' = byte(absolute(i))
            /\ byte(absolute(0 + 1))' = byte(absolute(i + 1)) /\ byte(absolute(0 + 2))' = byte(absolute(i + 2))
        BY <1>1, <4>2 DEF byte
      <4> QED
        BY <4>4, <4>6, <4>7 DEF annexBStartLen
    <3>3. NoCodeFrom(kept + annexBStartLen(i))
      BY <1>3, <2>2, <3>1
    <3>4. KeptUnit'
      BY <1>1, <1>3, <1>11, <1>12, <2>2, <3>2, <3>3 DEF KeptUnit, NoCodeFrom
    <3> QED
      BY <3>4
  <2> QED
    BY <2>1, <2>2
<1>18. RestShort'
  BY <1>1 DEF RestShort
<1> QED
  BY <1>14, <1>15, <1>16, <1>17, <1>18 DEF CutInv

\* The last unit: no code follows it in the bytes that were read.
LEMMA TailCuts ==
  ASSUME Progress, CutInv, TailUnit
  PROVE  CutInv'
<1> DEFINE n  == absolute(acc.parseFrom)
           sc == annexBStartLen(acc.parseFrom)
           p  == n + sc - 3
           c  == [from |-> n + sc, to |-> taken, type |-> annexBNalType(n, taken, sc)]
           cut == ~stopped /\ acc.parseFrom + 3 < size /\ sc # 0 /\ acc.parseFrom + sc < size
<1>1. /\ pump = "tail" /\ pump' = "end" /\ UNCHANGED <<stream, taken, acc, paused, stopped>>
      /\ IF cut THEN cuts' = Append(cuts, c) ELSE cuts' = cuts
  BY DEF TailUnit, HandleUnit
<1>2. /\ acc.parseFrom \in Nat /\ acc.base \in Nat /\ taken \in Nat /\ n = acc.base + acc.parseFrom /\ n \in Nat
      /\ n <= taken /\ size = taken - acc.base /\ taken <= Len(stream) /\ Len(stream) \in Nat
      /\ absolute(acc.parseFrom) = n
  BY DEF Progress, absolute, size
<1>3. sc \in {0, 3, 4}
  BY CodeLength
<1>4. InOrder /\ OnlyUnits /\ NoneMissed /\ KeptHead
  BY DEF CutInv
<1>5. ~stopped => acc.parseFrom = 0 /\ n = acc.base
  BY <1>1, <1>2, <1>4 DEF KeptHead
<1>6. ~stopped =>
        \/ sc \in {3, 4} /\ NoCodeFrom(n + sc)
        \/ \A x \in Codes : n <= x => x + 3 >= taken
  <2> SUFFICES ASSUME ~stopped PROVE (sc \in {3, 4} /\ NoCodeFrom(n + sc)) \/ \A x \in Codes : n <= x => x + 3 >= taken
    OBVIOUS
  <2>1. KeptUnit \/ KeptRest
    BY <1>1, <1>4 DEF KeptHead
  <2>2. acc.parseFrom = 0 /\ n = acc.base
    BY <1>5
  <2> HIDE DEF n
  <2> QED
    BY <2>1, <2>2 DEF KeptUnit, KeptRest
\* The code at the head, when it has been read, is the only one.
<1>7. ASSUME ~stopped, sc \in {3, 4}, acc.parseFrom + sc <= size
      PROVE  /\ p \in Codes
             /\ \A x \in Codes : n <= x /\ x < n + sc => x = p
  <2>1. acc.parseFrom + 2 < size
    <3>1. sc = 4 => acc.parseFrom + 3 < size
      BY <1>2, CodeSeen
    <3>2. sc = 3 => acc.parseFrom + 2 < size
      BY <1>2, CodeSeen
    <3> QED
      BY <1>2, <1>7, <3>1, <3>2
  <2>2. \A k \in Nat : acc.parseFrom <= k /\ k < acc.parseFrom => annexBStartLen(k) = 0
    BY <1>2
  <2> QED
    BY <1>2, <1>7, <2>1, <2>2, HeadFound
<1> HIDE DEF n, sc
<1>8. cut => n + sc < taken /\ sc \in {3, 4} /\ ~stopped /\ acc.parseFrom + sc <= size /\ p \in Nat /\ p + 3 = n + sc
  <2> SUFFICES ASSUME cut
               PROVE  /\ n + sc < taken /\ sc \in {3, 4} /\ ~stopped /\ acc.parseFrom + sc <= size
                      /\ p \in Nat /\ p + 3 = n + sc
    OBVIOUS
  <2>1. ~stopped /\ sc # 0 /\ acc.parseFrom + sc < size
    OBVIOUS
  <2>2. sc \in {3, 4} /\ sc \in Nat /\ sc >= 3
    BY <1>3, <2>1
  <2>3. n + sc < taken /\ acc.parseFrom + sc <= size
    <3>1. /\ acc.parseFrom \in Nat /\ acc.base \in Nat /\ taken \in Nat /\ size \in Int
          /\ n = acc.base + acc.parseFrom /\ size = taken - acc.base
      BY <1>2
    <3> HIDE DEF cut, p, c
    <3> QED
      BY <2>1, <2>2, <3>1
  <2>4. p \in Nat /\ p + 3 = n + sc
    BY <1>2, <2>2
  <2> QED
    BY <2>1, <2>2, <2>3, <2>4
<1>9. /\ Codes' = Codes /\ (\A x : UnitEnd(x)' = UnitEnd(x))
      /\ (\A from, to : IsUnit(from, to)' <=> IsUnit(from, to))
  BY <1>1, StreamStays
<1>10. KeptHead' /\ RestShort'
  BY <1>1 DEF KeptHead, RestShort
<1>11. \A k \in 1..Len(cuts) : cuts[k].to \in Nat /\ cuts[k].to <= n
  <2>1. \A k \in 1..Len(cuts) : cuts[k] \in Cut
    BY <1>4, ElementOf DEF InOrder
  <2> QED
    BY <1>1, <1>2, <1>4, <2>1 DEF InOrder, Cut
<1>12. \A k \in 1..Len(cuts) : IsUnit(cuts[k].from, cuts[k].to)
  BY <1>1, <1>4 DEF OnlyUnits
<1>13. ASSUME cut, taken = Len(stream)
       PROVE  p \in Codes /\ UnitEnd(p) = taken /\ (\A x \in Codes : n <= x => x = p)
  <2>1. p \in Codes /\ \A x \in Codes : n <= x /\ x < n + sc => x = p
    BY <1>7, <1>8, <1>13
  <2>2. n <= p /\ p + 3 < taken
    BY <1>2, <1>8, <1>13
  <2>3. NoCodeFrom(n + sc)
    BY <1>2, <1>6, <1>8, <1>13, <2>1, <2>2
  <2>4. \A x \in Codes : n <= x => x = p
    <3> SUFFICES ASSUME NEW x \in Codes, n <= x, x # p PROVE FALSE
      OBVIOUS
    <3>1. x \in Nat /\ x + 3 <= taken
      BY <1>2, <1>13, CodesApart
    <3>2. n + sc <= x
      BY <1>2, <1>8, <1>13, <2>1, <3>1
    <3> QED
      BY <1>2, <2>3, <3>1, <3>2 DEF NoCodeFrom
  <2>5. \A x \in Codes : ~(x > p)
    <3> SUFFICES ASSUME NEW x \in Codes, x > p PROVE FALSE
      OBVIOUS
    <3>1. x \in Nat /\ p \in Nat
      BY <1>8, <1>13, CodesApart
    <3>2. n <= x /\ x # p
      BY <1>2, <2>2, <3>1
    <3> QED
      BY <2>4, <3>2
  <2>6. UnitEnd(p) = Len(stream)
    BY <2>1, <2>5, UnitEnds
  <2> QED
    BY <1>13, <2>1, <2>4, <2>6
\* When nothing is cut, nothing is left to cut.
<1>14. ASSUME ~cut, ~stopped, taken = Len(stream), NEW x \in Codes, n <= x PROVE ~(x + 3 < UnitEnd(x))
  <2>1. x \in Nat /\ x + 3 <= taken
    BY <1>2, <1>14, CodesApart
  <2>2. x + 3 = taken
    <3>1. CASE \A y \in Codes : n <= y => y + 3 >= taken
      BY <1>2, <1>14, <2>1, <3>1
    <3>2. CASE sc \in {3, 4} /\ NoCodeFrom(n + sc)
      <4>0. sc \in Nat /\ sc >= 3
        BY <3>2
      <4>1. x < n + sc
        <5>1. n + sc <= x => x + 3 > taken
          BY <3>2 DEF NoCodeFrom
        <5> QED
          BY <1>2, <2>1, <4>0, <5>1
      <4>2. acc.parseFrom + sc <= size
        <5>1. sc = 4 => acc.parseFrom + 3 < size
          BY <1>2, CodeSeen DEF sc
        <5>2. sc = 3 => acc.parseFrom + 2 < size
          BY <1>2, CodeSeen DEF sc
        <5> QED
          BY <1>2, <3>2, <5>1, <5>2
      <4>3. x = p
        BY <1>7, <1>14, <3>2, <4>1, <4>2
      <4>4. ~(acc.parseFrom + 3 < size /\ acc.parseFrom + sc < size)
        BY <1>14, <4>0
      <4>5. acc.parseFrom + sc = size
        BY <1>2, <4>0, <4>2, <4>4
      <4>6. n \in Nat /\ taken \in Nat /\ n + sc = taken
        <5>1. /\ acc.parseFrom \in Nat /\ acc.base \in Nat /\ taken \in Nat /\ size \in Int /\ n \in Nat
              /\ n = acc.base + acc.parseFrom /\ size = taken - acc.base
          BY <1>2
        <5> HIDE DEF cut, p, c
        <5> QED
          BY <4>0, <4>5, <5>1
      <4> QED
        BY <4>0, <4>3, <4>6
    <3> QED
      BY <1>6, <1>14, <3>1, <3>2
  <2>3. \A y \in Codes : ~(y > x)
    BY <1>2, <1>14, <2>1, <2>2, CodesApart
  <2>4. UnitEnd(x) = Len(stream)
    BY <2>3, UnitEnds
  <2> QED
    BY <1>14, <2>1, <2>2, <2>4
<1>15. ~stopped => CutBefore(n)
  BY <1>1, <1>2, <1>4 DEF NoneMissed
<1> HIDE DEF cut
<1>16. CASE cut
  <2>1. c \in Cut /\ c.from = p + 3 /\ c.to = taken /\ cuts' = Append(cuts, c)
    <3>1. annexBNalType(n, taken, sc) \in Nat
      <4>1. sc \in Nat /\ taken <= taken
        BY <1>2, <1>3
      <4> QED
        BY <1>2, <1>4, <4>1, TypeOfUnit
    <3> QED
      BY <1>1, <1>2, <1>8, <1>16, <3>1 DEF Cut
  <2> HIDE DEF c, p
  <2>2. p \in Nat /\ n <= p /\ p + 3 < taken
    BY <1>2, <1>8, <1>16
  <2>3. c.from <= c.to /\ \A k \in 1..Len(cuts) : cuts[k].to <= c.from
    BY <1>2, <1>11, <2>1, <2>2
  <2>4. /\ cuts' \in Seq(Cut) /\ Len(cuts') = Len(cuts) + 1 /\ Len(cuts) \in Nat
        /\ \A k \in 1..Len(cuts) : cuts'[k] = cuts[k]
        /\ cuts'[Len(cuts) + 1] = c
        /\ \A k \in 1..Len(cuts') : cuts'[k].from <= cuts'[k].to
        /\ \A k \in 1..(Len(cuts') - 1) : cuts'[k].to <= cuts'[k + 1].from
    BY <1>4, <2>1, <2>3, CutMore
  <2>5. \A k \in 1..Len(cuts') : k \in 1..Len(cuts) \/ k = Len(cuts) + 1
    BY <2>4
  <2>6. InOrder'
    BY <1>1, <1>4, <2>4 DEF InOrder
  <2>7. taken = Len(stream) => IsUnit(c.from, c.to)
    <3>1. c.from - 3 = p /\ c.from < c.to
      BY <2>1, <2>2
    <3> QED
      BY <1>13, <1>16, <2>1, <3>1 DEF IsUnit
  <2>8. OnlyUnits'
    <3>1. taken = Len(stream) => \A k \in 1..Len(cuts') : IsUnit(cuts'[k].from, cuts'[k].to)
      BY <1>12, <2>4, <2>5, <2>7
    <3> QED
      BY <1>1, <1>9, <3>1 DEF OnlyUnits
  <2>9. /\ (\A x : CutFrom(x) => CutFrom(x)')
        /\ (\A x : c.from = x + 3 /\ c.to = UnitEnd(x) => CutFrom(x)')
    BY <1>1, <1>4, <2>1, CutStays
  <2>10. NoneMissed'
    <3> SUFFICES ASSUME ~stopped, taken = Len(stream), NEW x \in Codes, x + 3 < UnitEnd(x)
                 PROVE  CutFrom(x)'
      BY <1>1, <1>9 DEF NoneMissed
    <3>1. CASE x < n
      BY <1>15, <2>9, <3>1 DEF CutBefore
    <3>2. CASE ~(x < n)
      <4>1. n <= x
        BY <1>2, <3>2, CodesApart
      <4>2. x = p /\ UnitEnd(p) = taken
        BY <1>13, <1>16, <4>1
      <4> QED
        BY <2>1, <2>9, <4>2
    <3> QED
      BY <3>1, <3>2
  <2> QED
    BY <1>10, <2>6, <2>8, <2>10 DEF CutInv
<1>17. CASE ~cut
  <2>1. cuts' = cuts
    BY <1>1, <1>17
  <2>2. InOrder'
    BY <1>1, <1>4, <2>1 DEF InOrder
  <2>3. OnlyUnits'
    BY <1>9, <1>12, <2>1 DEF OnlyUnits
  <2>4. \A x : CutFrom(x)' <=> CutFrom(x)
    BY <1>9, <2>1 DEF CutFrom
  <2>5. NoneMissed'
    <3> SUFFICES ASSUME ~stopped, taken = Len(stream), NEW x \in Codes, x + 3 < UnitEnd(x)
                 PROVE  CutFrom(x)
      BY <1>1, <1>9, <2>4 DEF NoneMissed
    <3>1. x < n
      BY <1>2, <1>14, <1>17, CodesApart
    <3> QED
      BY <1>15, <3>1 DEF CutBefore
  <2> QED
    BY <1>10, <2>2, <2>3, <2>5 DEF CutInv
<1> QED
  BY <1>16, <1>17

LEMMA CutsStep == Progress /\ CutInv /\ [NalNext]_nalVars => CutInv'
<1> SUFFICES ASSUME Progress, CutInv, [NalNext]_nalVars PROVE CutInv'
  OBVIOUS
<1>1. CASE ConsumeUnit
  BY <1>1, UnitCuts
<1>2. CASE Compact
  BY <1>2, CompactCuts
<1>3. CASE TailUnit
  BY <1>3, TailCuts
<1> DEFINE Standing ==
      /\ UNCHANGED <<stream, acc, cuts>> /\ (stopped => stopped')
      /\ (pump' \in {"end", "done"} <=> pump \in {"end", "done"})
      /\ (pump' \in {"begin", "read", "tail"} => pump \in {"begin", "read", "tail"} /\ taken' = taken)
      /\ (pump \in {"end", "done"} => taken' = taken)
      /\ (pump' = "consume" => \/ pump = "consume" /\ taken' = taken
                               \/ pump = "read" /\ \E n \in Reads : taken' = taken + n)
<1>4. Standing => CutInv'
  BY CutsFrame
<1>5. ASSUME NEW n \in Reads, Read(n) PROVE Standing
  BY <1>5 DEF Read, NalHistory
<1>6. CASE Begin
  BY <1>4, <1>6 DEF Begin, NalHistory
<1>7. CASE SyncF3Pause
  BY <1>4, <1>7 DEF SyncF3Pause
<1>8. CASE LoopEnds
  BY <1>4, <1>8 DEF LoopEnds, NalHistory
<1>9. CASE End
  BY <1>4, <1>9 DEF End, NalHistory
<1>10. CASE PauseToggles
  BY <1>4, <1>10 DEF PauseToggles, NalHistory
<1>11. CASE StopPump
  BY <1>4, <1>11 DEF StopPump, NalHistory
<1>12. CASE UNCHANGED nalVars
  BY <1>4, <1>12 DEF nalVars
<1> QED
  BY <1>1, <1>2, <1>3, <1>4, <1>5, <1>6, <1>7, <1>8, <1>9, <1>10, <1>11, <1>12 DEF NalNext

\* What the invariant says of the records.
LEMMA CutsAreExact ==
  ASSUME Progress, CutInv
  PROVE  CutsExact
<1> DEFINE found == {[from |-> cuts[k].from, to |-> cuts[k].to] : k \in 1..Len(cuts)}
           whole == {u \in Units : u.to < Len(stream) \/ taken = Len(stream)}
<1>1. InOrder /\ OnlyUnits /\ NoneMissed
  BY DEF CutInv
<1>2. \A k \in 1..Len(cuts) : cuts[k].from \in Nat /\ cuts[k].to \in Nat
  <2>1. \A k \in 1..Len(cuts) : cuts[k] \in Cut
    BY <1>1, ElementOf DEF InOrder
  <2> QED
    BY <2>1 DEF Cut
<1>3. taken = Len(stream) \/ pump \notin {"end", "done"} => found \subseteq Units
  <2> SUFFICES ASSUME taken = Len(stream) \/ pump \notin {"end", "done"}, NEW k \in 1..Len(cuts)
               PROVE  [from |-> cuts[k].from, to |-> cuts[k].to] \in Units
    OBVIOUS
  <2>1. IsUnit(cuts[k].from, cuts[k].to)
    BY <1>1 DEF OnlyUnits
  <2> QED
    BY <1>2, <2>1, UnitIs
<1>4. \A k \in 1..(Len(cuts) - 1) : cuts[k].to <= cuts[k + 1].from
  BY <1>1 DEF InOrder
<1>5. ASSUME pump = "done", taken = Len(stream), ~stopped PROVE found = whole
  <2>1. whole = Units
    BY <1>5
  <2>2. ASSUME NEW p \in Codes, p + 3 < UnitEnd(p) PROVE [from |-> p + 3, to |-> UnitEnd(p)] \in found
    <3>1. CutFrom(p)
      BY <1>1, <1>5, <2>2 DEF NoneMissed
    <3>2. PICK k \in 1..Len(cuts) : cuts[k].from = p + 3 /\ cuts[k].to = UnitEnd(p)
      BY <3>1 DEF CutFrom
    <3> QED
      BY <3>2
  <2>3. Units \subseteq found
    <3> HIDE DEF found
    <3> QED
      BY <2>2 DEF Units
  <2>4. found \subseteq Units
    BY <1>3, <1>5
  <2> HIDE DEF found, whole
  <2> QED
    BY <2>1, <2>3, <2>4
<1>6. found \subseteq Units \/ ~(taken = Len(stream) \/ pump \notin {"end", "done"})
  BY <1>3
<1> HIDE DEF found, whole
<1>7. CutsExact <=> (pump # "begin" =>
          /\ taken = Len(stream) \/ pump \notin {"end", "done"} => found \subseteq Units
          /\ \A k \in 1..(Len(cuts) - 1) : cuts[k].to <= cuts[k + 1].from
          /\ pump = "done" /\ taken = Len(stream) /\ ~stopped => found = whole)
  BY DEF CutsExact, found, whole
<1> QED
  BY <1>3, <1>4, <1>5, <1>7

------------------------------------------------------------------------------
(* The sets a slice needs.                                                  *)

\* The dispatcher's sets are the last of the stream while the session lives, and
\* what it holds for delivered the fabric holds, unless the output is paused.
InFabric ==
    /\ disp.sps = LastCut(7) /\ disp.pps = LastCut(8) /\ disp.seq = fabric.seq
    /\ disp.spsDelivered => disp.sps # None /\ (~disp.paused => fabric.sps = disp.sps)
    /\ disp.ppsDelivered => disp.pps # None /\ (~disp.paused => fabric.pps = disp.pps)
Fresh ==
    /\ cuts = <<>> /\ disp.sps = None /\ disp.pps = None /\ ~disp.spsDelivered /\ ~disp.ppsDelivered
    /\ disp.seq = fabric.seq /\ ~f3.active
SetsInv ==
    /\ DOMAIN fabric = {"sps", "pps", "seq"}
    /\ disp.spsDelivered \in BOOLEAN /\ disp.ppsDelivered \in BOOLEAN /\ disp.paused \in BOOLEAN
    /\ slices.ok /\ walked.ok
    /\ host.sps = LastCut(7) /\ host.pps = LastCut(8)
    /\ pump = "begin" => Fresh
    /\ f3.active /\ ~f3.fatal => InFabric

LEMMA NothingCut == cuts = <<>> => \A type : LastCut(type) = None
<1> SUFFICES ASSUME cuts = <<>>, NEW type PROVE LastCut(type) = None
  OBVIOUS
<1>1. {cuts[k].from : k \in {k \in 1..Len(cuts) : cuts[k].type = type}} = {}
  <2>1. Len(cuts) = 0
    OBVIOUS
  <2> QED
    BY <2>1
<1>2. LastCut(type) = Max({None})
  BY <1>1 DEF LastCut
<1>3. None \in Int
  BY DEF None
<1> QED
  BY <1>2, <1>3 DEF Max

\* A set that is cut becomes the last of its type and of no other.
LEMMA LastOfMore ==
  ASSUME InOrder, NEW c \in Cut, cuts' = Append(cuts, c), c.from <= c.to,
         \A k \in 1..Len(cuts) : cuts[k].to <= c.from, NEW type
  PROVE  LastCut(type)' = IF c.type = type THEN c.from ELSE LastCut(type)
<1> DEFINE old == {None} \cup {cuts[k].from : k \in {k \in 1..Len(cuts) : cuts[k].type = type}}
           new == {None} \cup {cuts'[k].from : k \in {k \in 1..Len(cuts') : cuts'[k].type = type}}
<1>1. /\ Len(cuts') = Len(cuts) + 1 /\ Len(cuts) \in Nat
      /\ \A k \in 1..Len(cuts) : cuts'[k] = cuts[k]
      /\ cuts'[Len(cuts) + 1] = c
  BY CutMore
<1>2. LastCut(type) = Max(old) /\ LastCut(type)' = Max(new)
  BY DEF LastCut
<1>3. \A k \in 1..Len(cuts) : cuts[k].from \in Nat /\ cuts[k].from <= c.from
  <2>1. \A k \in 1..Len(cuts) : cuts[k] \in Cut
    BY ElementOf DEF InOrder
  <2>2. \A k \in 1..Len(cuts) : cuts[k].from <= cuts[k].to
    BY DEF InOrder
  <2> QED
    BY <2>1, <2>2 DEF Cut
<1>4. \A x \in old : x \in Int /\ x <= c.from
  BY <1>3 DEF None, Cut
<1>5. new = old \cup (IF c.type = type THEN {c.from} ELSE {})
  <2>1. \A k \in 1..Len(cuts') : k \in 1..Len(cuts) \/ k = Len(cuts) + 1
    BY <1>1
  <2>2. \A k \in 1..Len(cuts) : k \in 1..Len(cuts')
    BY <1>1
  <2>3. Len(cuts) + 1 \in 1..Len(cuts')
    BY <1>1
  <2> QED
    BY <1>1, <2>1, <2>2, <2>3
<1> HIDE DEF old, new
<1>6. CASE c.type = type
  <2>1. c.from \in new /\ \A x \in new : x \in Int /\ x <= c.from
    BY <1>4, <1>5, <1>6 DEF Cut
  <2>2. Max(new) \in new /\ \A x \in new : Max(new) >= x
    <3>1. c.from \in Int /\ \A x \in new : c.from >= x
      BY <2>1
    <3> QED
      BY <2>1, <3>1 DEF Max
  <2>3. Max(new) <= c.from /\ Max(new) >= c.from /\ Max(new) \in Int /\ c.from \in Int
    BY <2>1, <2>2
  <2>4. Max(new) = c.from
    BY <2>3
  <2> QED
    BY <1>2, <1>6, <2>4
<1>7. CASE c.type # type
  BY <1>2, <1>5, <1>7
<1> QED
  BY <1>6, <1>7

LEMMA SetsStart == NalInit => SetsInv
<1> SUFFICES ASSUME NalInit PROVE SetsInv
  OBVIOUS
<1>1. LastCut(7) = None /\ LastCut(8) = None
  BY NothingCut DEF NalInit
<1> QED
  BY <1>1 DEF NalInit, SetsInv, Fresh

\* What a unit does to the fabric's side, and to the host's.
LEMMA UnitSent ==
  ASSUME Decoders, SetsInv, pump # "begin", pump' # "begin", NEW from, NEW to, NEW sc, from + sc \in Nat,
         HandleUnit(from, to, sc),
         \A type : LastCut(type)' = IF annexBNalType(from, to, sc) = type THEN from + sc ELSE LastCut(type)
  PROVE  SetsInv'
<1> DEFINE unit == from + sc
           type == annexBNalType(from, to, sc)
<1>1. /\ pushF3Nal(type, unit)
      /\ \/ type = 7 /\ host' = [host EXCEPT !.sps = unit] /\ UNCHANGED walked
         \/ type = 8 /\ (\E skip : host' = [host EXCEPT !.pps = unit, !.cabacSkip = skip]) /\ UNCHANGED walked
         \/ type \in {1, 5} /\ tryReconNal
         \/ type \notin {7, 8} /\ UNCHANGED <<host, walked>>
  BY DEF HandleUnit
<1>2. unit \in Nat /\ unit # None
  BY DEF None
<1>3. /\ LastCut(7)' = IF type = 7 THEN unit ELSE LastCut(7)
      /\ LastCut(8)' = IF type = 8 THEN unit ELSE LastCut(8)
  OBVIOUS
<1> HIDE DEF unit, type
<1>4. host'.sps = LastCut(7)' /\ host'.pps = LastCut(8)' /\ walked'.ok
  <2>1. /\ DOMAIN host = {"sps", "pps", "cabacSkip", "presented"} /\ walked.ok
        /\ host.sps = LastCut(7) /\ host.pps = LastCut(8)
    BY DEF SetsInv, Decoders
  <2>2. CASE type = 7 /\ host' = [host EXCEPT !.sps = unit] /\ UNCHANGED walked
    BY <1>3, <2>1, <2>2
  <2>3. CASE type = 8 /\ (\E skip : host' = [host EXCEPT !.pps = unit, !.cabacSkip = skip]) /\ UNCHANGED walked
    BY <1>3, <2>1, <2>3
  <2>4. CASE type \in {1, 5} /\ tryReconNal
    <3>1. host'.sps = host.sps /\ host'.pps = host.pps
      BY <2>1, <2>4 DEF tryReconNal
    <3>2. walked'.ok
      <4>1. walked' = walked \/ walked' = [ok |-> host.sps = LastCut(7) /\ host.pps = LastCut(8)]
        BY <2>4 DEF tryReconNal
      <4>2. (host.sps = LastCut(7) /\ host.pps = LastCut(8)) = TRUE
        BY <2>1
      <4>3. walked' = walked \/ walked' = [ok |-> TRUE]
        BY <4>1, <4>2
      <4> QED
        BY <2>1, <4>3
    <3> QED
      BY <1>3, <2>1, <2>4, <3>1, <3>2
  <2>5. CASE type \notin {7, 8} /\ UNCHANGED <<host, walked>>
    BY <1>3, <2>1, <2>5
  <2> QED
    BY <1>1, <2>2, <2>3, <2>4, <2>5
<1> DEFINE kept == [disp EXCEPT !.sps = IF type = 7 THEN unit ELSE @,
                                !.pps = IF type = 8 THEN unit ELSE @]
           slice == type \in {1, 5}
           before == IF slice THEN Replayed(fabric) ELSE fabric
           after == Pushed(before, type, unit)
           D == DOMAIN fabric' = {"sps", "pps", "seq"} /\ disp'.spsDelivered \in BOOLEAN
                  /\ disp'.ppsDelivered \in BOOLEAN /\ disp'.paused \in BOOLEAN /\ slices'.ok
           E == f3'.active /\ ~f3'.fatal => InFabric'
<1>5. /\ DOMAIN disp = {"active", "paused", "spsDelivered", "ppsDelivered", "sps", "pps", "seq"}
      /\ f3 \in [active : BOOLEAN, fatal : BOOLEAN, paused : BOOLEAN]
      /\ DOMAIN fabric = {"sps", "pps", "seq"} /\ disp.spsDelivered \in BOOLEAN
      /\ disp.ppsDelivered \in BOOLEAN /\ disp.paused \in BOOLEAN /\ slices.ok
  BY DEF Decoders, SetsInv
<1>6. /\ kept.sps = (IF type = 7 THEN unit ELSE disp.sps) /\ kept.pps = (IF type = 8 THEN unit ELSE disp.pps)
      /\ kept.paused = disp.paused /\ kept.spsDelivered = disp.spsDelivered
      /\ kept.ppsDelivered = disp.ppsDelivered /\ kept.seq = disp.seq /\ DOMAIN kept = DOMAIN disp
  BY <1>5
<1>7. CASE ~(f3.active /\ ~f3.fatal)
  BY <1>1, <1>3, <1>4, <1>5, <1>7 DEF pushF3Nal, SetsInv
<1>8. CASE f3.active /\ ~f3.fatal
  <2>1. HandleNal(type, unit) /\ InFabric
    BY <1>1, <1>8 DEF pushF3Nal, SetsInv
  <2>2. \/ kept.paused /\ disp' = kept /\ UNCHANGED <<f3, fabric, slices>>
        \/ /\ ~kept.paused /\ ~(slice /\ ReplayImpossible)
           /\ fabric' = after
           /\ disp' = [kept EXCEPT !.spsDelivered = @ \/ slice \/ type = 7,
                                   !.ppsDelivered = @ \/ slice \/ type = 8,
                                   !.seq = after.seq]
           /\ slices' = IF slice THEN [ok |-> before.sps = LastCut(7) /\ before.pps = LastCut(8)
                                             /\ before.sps # None /\ before.pps # None]
                        ELSE slices
           /\ UNCHANGED f3
        \/ /\ f3' = [f3 EXCEPT !.fatal = TRUE]
           /\ \E ended \in BOOLEAN : disp' = [kept EXCEPT !.active = ~ended]
           /\ UNCHANGED <<fabric, slices>>
    BY <2>1, Zenon DEF HandleNal
  <2>3. CASE kept.paused /\ disp' = kept /\ UNCHANGED <<f3, fabric, slices>>
    <3> HIDE DEF kept
    <3>1. D
      BY <1>5, <1>6, <2>3
    <3>2. InFabric'
      BY <1>2, <1>3, <1>5, <1>6, <2>1, <2>3 DEF InFabric
    <3> QED
      BY <1>4, <3>1, <3>2 DEF SetsInv
  <2>4. CASE /\ f3' = [f3 EXCEPT !.fatal = TRUE]
             /\ \E ended \in BOOLEAN : disp' = [kept EXCEPT !.active = ~ended]
             /\ UNCHANGED <<fabric, slices>>
    <3> HIDE DEF kept
    <3>1. f3'.fatal
      BY <1>5, <2>4
    <3>2. D
      BY <1>5, <1>6, <2>4
    <3> QED
      BY <1>4, <3>1, <3>2 DEF SetsInv
  <2>5. CASE /\ ~kept.paused /\ ~(slice /\ ReplayImpossible)
             /\ fabric' = after
             /\ disp' = [kept EXCEPT !.spsDelivered = @ \/ slice \/ type = 7,
                                     !.ppsDelivered = @ \/ slice \/ type = 8,
                                     !.seq = after.seq]
             /\ slices' = IF slice THEN [ok |-> before.sps = LastCut(7) /\ before.pps = LastCut(8)
                                               /\ before.sps # None /\ before.pps # None]
                          ELSE slices
             /\ UNCHANGED f3
    <3>1. /\ DOMAIN before = {"sps", "pps", "seq"}
          /\ before.sps = (IF slice /\ ~disp.spsDelivered THEN disp.sps ELSE fabric.sps)
          /\ before.pps = (IF slice /\ ~disp.ppsDelivered THEN disp.pps ELSE fabric.pps)
      BY <1>5 DEF Replayed, Pushed
    <3>2. slice => before.sps = disp.sps /\ before.pps = disp.pps /\ disp.sps # None /\ disp.pps # None
      BY <1>5, <1>6, <2>1, <2>5, <3>1 DEF InFabric, ReplayImpossible
    <3>3. slice => type # 7 /\ type # 8
      OBVIOUS
    <3> HIDE DEF before, slice
    <3>4. /\ DOMAIN after = {"sps", "pps", "seq"}
          /\ after.sps = (IF type = 7 THEN unit ELSE before.sps)
          /\ after.pps = (IF type = 8 THEN unit ELSE before.pps)
      BY <3>1 DEF Pushed
    <3> HIDE DEF kept, after
    <3>5. /\ disp'.spsDelivered = (disp.spsDelivered \/ slice \/ type = 7)
          /\ disp'.ppsDelivered = (disp.ppsDelivered \/ slice \/ type = 8)
          /\ disp'.seq = after.seq /\ disp'.sps = kept.sps /\ disp'.pps = kept.pps
          /\ disp'.paused = disp.paused
      BY <1>5, <1>6, <2>5
    <3>6. slices'.ok
      BY <1>5, <2>1, <2>5, <3>2 DEF InFabric
    <3>7. D
      BY <1>5, <2>5, <3>4, <3>5, <3>6
    <3>8. disp'.sps = LastCut(7)' /\ disp'.pps = LastCut(8)' /\ disp'.seq = fabric'.seq
      BY <1>3, <1>6, <2>1, <2>5, <3>5 DEF InFabric
    <3>9. disp'.spsDelivered => disp'.sps # None /\ fabric'.sps = disp'.sps
      BY <1>2, <1>6, <2>1, <2>5, <3>1, <3>2, <3>3, <3>4, <3>5 DEF InFabric
    <3>10. disp'.ppsDelivered => disp'.pps # None /\ fabric'.pps = disp'.pps
      BY <1>2, <1>6, <2>1, <2>5, <3>1, <3>2, <3>3, <3>4, <3>5 DEF InFabric
    <3>11. InFabric'
      BY <3>8, <3>9, <3>10 DEF InFabric
    <3> QED
      BY <1>4, <3>7, <3>11 DEF SetsInv
  <2> QED
    BY <2>2, <2>3, <2>4, <2>5
<1> QED
  BY <1>7, <1>8

LEMMA SetsStep == Progress /\ Decoders /\ CutInv /\ SetsInv /\ [NalNext]_nalVars => SetsInv'
<1> SUFFICES ASSUME Progress, Decoders, CutInv, SetsInv, [NalNext]_nalVars PROVE SetsInv'
  OBVIOUS
<1>1. InOrder
  BY DEF CutInv
<1>2. ASSUME cuts' = cuts PROVE \A type : LastCut(type)' = LastCut(type)
  BY <1>2 DEF LastCut
<1>3. ASSUME UNCHANGED <<cuts, f3, disp, host, fabric, slices, walked>>, pump' = "begin" => pump = "begin"
      PROVE  SetsInv'
  <2>1. LastCut(7)' = LastCut(7) /\ LastCut(8)' = LastCut(8)
    BY <1>2, <1>3
  <2>2. InFabric => InFabric'
    BY <1>3, <2>1 DEF InFabric
  <2>3. Fresh => Fresh'
    BY <1>3 DEF Fresh
  <2> QED
    BY <1>3, <2>1, <2>2, <2>3 DEF SetsInv
\* A unit in front of which all others end.
<1>4. ASSUME NEW from, NEW to, NEW sc, HandleUnit(from, to, sc), pump # "begin", pump' # "begin",
             from + sc \in Nat, to \in Nat, from + sc <= to, annexBNalType(from, to, sc) \in Nat,
             \A k \in 1..Len(cuts) : cuts[k].to <= from + sc
      PROVE  SetsInv'
  <2> DEFINE c == [from |-> from + sc, to |-> to, type |-> annexBNalType(from, to, sc)]
  <2>1. c \in Cut /\ cuts' = Append(cuts, c) /\ c.from <= c.to /\ c.from = from + sc
        /\ c.type = annexBNalType(from, to, sc)
    BY <1>4 DEF HandleUnit, Cut
  <2> HIDE DEF c
  <2>2. \A type : LastCut(type)' = IF c.type = type THEN c.from ELSE LastCut(type)
    BY <1>1, <1>4, <2>1, LastOfMore
  <2> QED
    BY <1>4, <2>1, <2>2, UnitSent
<1>5. ASSUME pump # "begin" /\ pump # "end" /\ pump # "done" PROVE
        \A k \in 1..Len(cuts) : cuts[k].to \in Nat /\ cuts[k].to <= absolute(acc.parseFrom)
  <2>1. \A k \in 1..Len(cuts) : cuts[k] \in Cut
    BY <1>1, ElementOf DEF InOrder
  <2> QED
    BY <1>1, <1>5, <2>1 DEF InOrder, Cut
<1>6. acc.parseFrom \in Nat /\ acc.base \in Nat /\ taken \in Nat /\ size = taken - acc.base
      /\ absolute(acc.parseFrom) = acc.base + acc.parseFrom
  BY DEF Progress, size, absolute
<1>7. CASE ConsumeUnit
  <2> DEFINE i  == FirstCodeAt(acc.parseFrom, 3)
             sc == annexBStartLen(i)
             j  == FirstCodeAt(i + sc, 2)
  <2>1. /\ pump = "consume" /\ pump' = pump
        /\ IF i + sc < j THEN HandleUnit(absolute(i), absolute(j), sc)
           ELSE UNCHANGED <<f3, disp, host, cuts, fabric, slices, walked>>
    BY <1>7 DEF ConsumeUnit
  <2>2. i # None /\ j # None
    BY <1>7 DEF ConsumeUnit, NothingComplete
  <2>3. /\ i \in Nat /\ j \in Nat /\ sc \in {3, 4} /\ i + sc <= j /\ j + 2 < size /\ acc.parseFrom <= i
        /\ absolute(i) = acc.base + i /\ absolute(j) = acc.base + j
    BY <1>6, <2>2, UnitFound, CodeFound DEF absolute
  <2> HIDE DEF i, sc, j
  <2>4. CASE i + sc < j
    <3>1. /\ absolute(i) \in Nat /\ absolute(j) \in Nat /\ sc \in Nat /\ absolute(j) <= taken
          /\ absolute(i) + sc \in Nat /\ absolute(i) + sc <= absolute(j)
          /\ absolute(acc.parseFrom) <= absolute(i) + sc
      BY <1>6, <2>3
    <3>2. annexBNalType(absolute(i), absolute(j), sc) \in Nat
      BY <1>1, <3>1, TypeOfUnit
    <3>3. \A k \in 1..Len(cuts) : cuts[k].to <= absolute(i) + sc
      BY <1>5, <1>6, <2>1, <3>1
    <3>4. HandleUnit(absolute(i), absolute(j), sc)
      BY <2>1, <2>4
    <3> QED
      BY <1>4, <2>1, <3>1, <3>2, <3>3, <3>4
  <2>5. CASE ~(i + sc < j)
    BY <1>3, <2>1, <2>5
  <2> QED
    BY <2>4, <2>5
<1>8. CASE TailUnit
  <2> DEFINE n  == absolute(acc.parseFrom)
             sc == annexBStartLen(acc.parseFrom)
             cut == ~stopped /\ acc.parseFrom + 3 < size /\ sc # 0 /\ acc.parseFrom + sc < size
  <2>1. /\ pump = "tail" /\ pump' = "end"
        /\ IF cut THEN HandleUnit(n, taken, sc)
           ELSE UNCHANGED <<f3, disp, host, cuts, fabric, slices, walked>>
    BY <1>8 DEF TailUnit
  <2>2. sc \in Nat
    BY CodeLength
  <2>3. n \in Nat /\ n = acc.base + acc.parseFrom /\ n = absolute(acc.parseFrom)
    BY <1>6
  <2> HIDE DEF n, sc
  <2>4. CASE cut
    <3>1. n + sc \in Nat /\ n + sc <= taken /\ taken <= taken /\ n <= n + sc
      <4>1. acc.parseFrom + sc < size
        BY <2>4
      <4> HIDE DEF cut
      <4> QED
        BY <1>6, <2>2, <2>3, <4>1
    <3>2. annexBNalType(n, taken, sc) \in Nat
      BY <1>1, <1>6, <2>2, <2>3, <3>1, TypeOfUnit
    <3>3. \A k \in 1..Len(cuts) : cuts[k].to <= n + sc
      BY <1>5, <2>1, <2>2, <2>3, <3>1
    <3>4. HandleUnit(n, taken, sc)
      BY <2>1, <2>4
    <3> QED
      BY <1>4, <1>6, <2>1, <3>1, <3>2, <3>3, <3>4
  <2>5. CASE ~cut
    BY <1>3, <2>1, <2>5
  <2> QED
    BY <2>4, <2>5
<1>9. CASE Begin
  <2>1. LastCut(7)' = LastCut(7) /\ LastCut(8)' = LastCut(8) /\ LastCut(7) = None /\ LastCut(8) = None
    BY <1>2, <1>9, NothingCut DEF Begin, NalHistory, SetsInv, Fresh
  <2>2. /\ DOMAIN disp' = DOMAIN disp /\ disp'.sps = disp.sps /\ disp'.pps = disp.pps
        /\ disp'.spsDelivered = disp.spsDelivered /\ disp'.ppsDelivered = disp.ppsDelivered
        /\ disp'.paused = disp.paused /\ disp'.seq = disp.seq
    BY <1>9 DEF Begin, Decoders
  <2>3. pump' # "begin" /\ UNCHANGED <<host, fabric, slices, walked>> /\ Fresh
    BY <1>9 DEF Begin, NalHistory, SetsInv
  <2>4. InFabric'
    BY <2>1, <2>2, <2>3 DEF Fresh, InFabric
  <2> QED
    BY <2>1, <2>2, <2>3, <2>4 DEF SetsInv
<1>10. CASE SyncF3Pause
  <2>1. LastCut(7)' = LastCut(7) /\ LastCut(8)' = LastCut(8) /\ pump' # "begin"
        /\ UNCHANGED <<cuts, host, slices, walked>>
    BY <1>2, <1>10 DEF SyncF3Pause
  <2>2. CASE /\ f3' = [f3 EXCEPT !.paused = paused]
             /\ disp' = [disp EXCEPT !.paused = paused,
                                     !.spsDelivered = @ /\ paused, !.ppsDelivered = @ /\ paused]
             /\ fabric' = IF paused THEN fabric ELSE [fabric EXCEPT !.sps = None, !.pps = None]
    <3>1. /\ disp'.sps = disp.sps /\ disp'.pps = disp.pps /\ disp'.seq = disp.seq
          /\ disp'.spsDelivered = (disp.spsDelivered /\ paused)
          /\ disp'.ppsDelivered = (disp.ppsDelivered /\ paused) /\ disp'.paused = paused
      BY <2>2 DEF Decoders
    <3>2. DOMAIN fabric' = {"sps", "pps", "seq"} /\ fabric'.seq = fabric.seq /\ paused \in BOOLEAN
      BY <2>2 DEF SetsInv, Progress
    <3>3. f3'.active = f3.active /\ f3'.fatal = f3.fatal
      BY <2>2 DEF Decoders
    <3>4. InFabric => InFabric'
      BY <2>1, <3>1, <3>2 DEF InFabric
    <3> QED
      BY <2>1, <3>1, <3>2, <3>3, <3>4 DEF SetsInv
  <2>3. CASE f3' = [f3 EXCEPT !.fatal = TRUE] /\ UNCHANGED <<disp, fabric>>
    <3>1. f3'.fatal
      BY <2>3 DEF Decoders
    <3> QED
      BY <2>1, <2>3, <3>1 DEF SetsInv
  <2> QED
    BY <1>10, <2>2, <2>3 DEF SyncF3Pause
<1>11. CASE End
  <2>1. /\ disp'.sps = disp.sps /\ disp'.pps = disp.pps /\ disp'.seq = disp.seq
        /\ disp'.spsDelivered = disp.spsDelivered /\ disp'.ppsDelivered = disp.ppsDelivered
        /\ disp'.paused = disp.paused
    BY <1>11 DEF End, Decoders
  <2>2. LastCut(7)' = LastCut(7) /\ LastCut(8)' = LastCut(8) /\ pump' # "begin"
        /\ UNCHANGED <<cuts, f3, host, fabric, slices, walked>>
    BY <1>2, <1>11 DEF End, NalHistory
  <2>3. InFabric => InFabric'
    BY <2>1, <2>2 DEF InFabric
  <2> QED
    BY <2>1, <2>2, <2>3 DEF SetsInv
<1>12. ASSUME NEW n \in Reads, Read(n) PROVE SetsInv'
  BY <1>3, <1>12 DEF Read, NalHistory
<1>13. CASE Compact
  BY <1>3, <1>13 DEF Compact, NalHistory
<1>14. CASE LoopEnds
  BY <1>3, <1>14 DEF LoopEnds, NalHistory
<1>15. CASE PauseToggles
  BY <1>3, <1>15 DEF PauseToggles, NalHistory
<1>16. CASE StopPump
  BY <1>3, <1>16 DEF StopPump, NalHistory
<1>17. CASE UNCHANGED nalVars
  BY <1>3, <1>17 DEF nalVars
<1> QED
  BY <1>7, <1>8, <1>9, <1>10, <1>11, <1>12, <1>13, <1>14, <1>15, <1>16, <1>17 DEF NalNext

\* The records are the stream, whatever bytes it has and however it falls into reads
\* (streamPump, consumeCompleteNals, compactAcc, NalDispatcher): the pump cuts the
\* units of the stream and nothing else, in order and all of them when it runs to the
\* end; a slice goes to the fabric behind the last SPS and PPS, with no gap in the
\* sequence numbers; the host walks a slice with the same sets.
THEOREM StreamStaysIntact == NalSpec => []StreamIntact
<1>1. NalInit => Progress /\ Decoders /\ CutInv /\ SetsInv
  BY NalStarts, CutsStart, SetsStart
<1>2. Progress /\ Decoders /\ CutInv /\ SetsInv /\ [NalNext]_nalVars
        => (Progress /\ Decoders /\ CutInv /\ SetsInv)'
  BY NalStep, CutsStep, SetsStep
<1>3. Progress /\ Decoders /\ CutInv /\ SetsInv => StreamIntact
  <2> SUFFICES ASSUME Progress, Decoders, CutInv, SetsInv PROVE StreamIntact
    OBVIOUS
  <2>1. CutsExact
    BY CutsAreExact
  <2>2. SetsBeforeSlices
    BY DEF SetsInv, InFabric, SetsBeforeSlices
  <2> QED
    BY <2>1, <2>2 DEF StreamIntact
<1> QED
  BY <1>1, <1>2, <1>3, PTL DEF NalSpec

------------------------------------------------------------------------------
(* The whole run.  The parts share no state: a step of the run is a step of *)
(* one of them and leaves the variables of the others alone.                *)

LEMMA ControlsShape == ControlsInv => ControlsTypeOK
<1> SUFFICES ASSUME ControlsInv PROVE ControlsTypeOK
  OBVIOUS
<1>1. box.press \in 0..MaxPresses /\ unread \in 0..MaxPresses /\ box.key \in Keys
  BY ControlsAssumption DEF ControlsInv, KeyShapes, BoxCounts
<1>2. panel.word \subseteq Bits /\ bank \in {"240p", "480p", "720p"}
  BY DEF ControlsInv, KeyShapes, MenuShapes, Tiers
<1>3. transport \in [playing : BOOLEAN, paused : BOOLEAN, pos : 0..DurationMs]
  BY DEF ControlsInv, KeyShapes
<1>4. {ignoring, stale, eye.init, eye.alive, edge.seen, edge.sawEmpty} \subseteq BOOLEAN
  BY DEF ControlsInv, KeyShapes, MenuShapes
<1> QED
  BY <1>1, <1>2, <1>3, <1>4 DEF ControlsTypeOK

LEMMA PartsBegin ==
  FabricInit => SpiInit /\ DdrInit /\ RingInit /\ NalInit /\ CastInit /\ ControlsInit
    /\ part \in {"spi", "ddr", "ring", "nal", "cast", "controls"}
BY DEF FabricInit

LEMMA PartsStep ==
  ASSUME [FabricNext]_fabricVars
  PROVE  /\ [SpiNext]_spiVars /\ [DdrNext]_ddrVars /\ [RingNext]_ringVars
         /\ [NalNext]_nalVars /\ [CastNext]_castVars /\ [ControlsNext]_controlVars
         /\ part' = part
<1>1. CASE Spi(SpiNext)
  BY <1>1 DEF Spi
<1>2. CASE Ddr(DdrNext)
  BY <1>2 DEF Ddr
<1>3. CASE Ring(RingNext)
  BY <1>3 DEF Ring
<1>4. CASE Nal(NalNext)
  BY <1>4 DEF Nal
<1>5. CASE Cast(CastNext)
  BY <1>5 DEF Cast
<1>6. CASE Box(ControlsNext)
  BY <1>6 DEF Box
<1>7. CASE UNCHANGED fabricVars
  BY <1>7 DEF fabricVars
<1> QED
  BY <1>1, <1>2, <1>3, <1>4, <1>5, <1>6, <1>7 DEF FabricNext

\* Every behaviour of the run is one of each of the six protocols.
LEMMA PartsOfFabric ==
  FabricSpec => SpiSpec /\ DdrSpec /\ RingSpec /\ NalSpec /\ CastSpec /\ ControlsSpec
BY PartsBegin, PartsStep, PTL DEF FabricSpec, SpiSpec, DdrSpec, RingSpec, NalSpec, CastSpec, ControlsSpec

LEMMA PartIsNamed == FabricSpec => [](part \in {"spi", "ddr", "ring", "nal", "cast", "controls"})
<1>1. part \in {"spi", "ddr", "ring", "nal", "cast", "controls"} /\ [FabricNext]_fabricVars
        => (part \in {"spi", "ddr", "ring", "nal", "cast", "controls"})'
  BY PartsStep
<1> QED
  BY <1>1, PartsBegin, PTL DEF FabricSpec

\* The states of the six protocols are of the shape their modules give them, whichever
\* of them moves: GPO register, frame banks, ring, stream, cast and controls.
THEOREM FabricTypeCorrect == FabricSpec => []FabricTypeOK
<1>1. ControlsSpec => []ControlsTypeOK
  BY ControlsInvariant, ControlsShape, PTL
<1>2. /\ SpiTypeOK /\ DdrTypeOK /\ RingTypeOK /\ NalTypeOK /\ CastTypeOK /\ ControlsTypeOK
      /\ part \in {"spi", "ddr", "ring", "nal", "cast", "controls"}
      => FabricTypeOK
  BY DEF FabricTypeOK
<1> QED
  BY <1>1, <1>2, PartsOfFabric, PartIsNamed, SpiTypeCorrect, DdrTypeCorrect, RingTypeCorrect, NalTypeCorrect,
     CastTypeCorrect, PTL

\* What the six protocols promise, they promise side by side: the register is handed
\* back with its word delivered and a stranded owner is seen, no frame tears and a
\* lockout can be left, writer and reader of the ring agree, the stream is intact, the
\* cast is fit to play, and the controls are followed.
THEOREM FabricKeepsItsWord ==
  FabricSpec => [](/\ BusHandedBack /\ WordsDelivered /\ StrandedIsSeen /\ NoTear /\ LockoutRecoverable
                   /\ RingAgreed /\ StreamIntact /\ CastSound /\ ControlsFollowed)
BY PartsOfFabric, RegisterHandedBack, WordsReachTheCore, StrandedMainIsSeen, StrictNeverTears, LockoutHasAnExit,
   RingAgrees, StreamStaysIntact, CastIsSound, ControlsAreFollowed, PTL
==================================================================================
