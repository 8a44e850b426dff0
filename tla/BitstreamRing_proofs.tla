------------------------- MODULE BitstreamRing_proofs -------------------------
(***************************************************************************)
(* Proofs about BitstreamRing, for a ring of any size, NALs of any length  *)
(* and any number of records and restarts.                                 *)
(*                                                                         *)
(* First the ring implements RecordFifo.  The producer judges the room by  *)
(* a READ word that may be far behind: what makes that safe is the order   *)
(* of the four counts (READ word, read, polled, published) and that every  *)
(* cell between the reader's count and the published one is still in its   *)
(* slot when the next record is written behind them.                       *)
(***************************************************************************)
EXTENDS BitstreamRing, SequenceTheorems, TLAPS

\* The counts of the two sides, oldest first.
CountsInOrder ==
  /\ Len(sent) = ctrl /\ readW <= rd.read /\ rd.read <= rd.write /\ rd.write <= ctrl
  /\ ctrl - readW <= RingCells

\* Where the producer is in a record.  A producer that has forgotten its count (a
\* restart) is behind READ and finds no room again.
WriteCount ==
  /\ prod.pc = "write" => wr = ctrl /\ wr - readW + Len(prod.rec) <= RingCells
  /\ prod.pc = "publish" => wr = ctrl + Len(prod.rec) /\ wr - readW <= RingCells
  /\ prod.pc \notin {"write", "publish"} => wr = ctrl \/ wr < readW
  /\ prod.pc \in {"space", "write", "publish"} => Len(prod.rec) > 0 /\ prod.ev # "none"
  /\ prod.pc = "await" => prod.ev \in Controls

\* The cells that are published and not read, and those about to be published.
CellsKept ==
  /\ \A i \in rd.read..(ctrl - 1) : mem[i % RingCells] = sent[i + 1]
  /\ prod.pc = "publish" => \A k \in 1..Len(prod.rec) : mem[(ctrl + k - 1) % RingCells] = prod.rec[k]

RingInv == RingTypeOK /\ CountsInOrder /\ WriteCount /\ CellsKept

--------------------------------------------------------------------------------
(* Slots of the ring.                                                      *)

(* A remainder is below its divisor. *)
LEMMA ModRange ==
    ASSUME NEW a \in Int, NEW R \in Nat \ {0}
    PROVE  a % R \in 0..(R - 1) /\ a = R * (a \div R) + (a % R) /\ a \div R \in Int
OBVIOUS

(* The remainder is the only number below the divisor that is a multiple of it away. *)
LEMMA ModUnique ==
    ASSUME NEW R \in Nat \ {0}, NEW q \in Int, NEW m \in 0..(R - 1)
    PROVE  (R * q + m) % R = m
<1> DEFINE a == R * q + m
           p == a \div R
           n == a % R
<1>1. a \in Int /\ n \in 0..(R - 1) /\ a = R * p + n /\ p \in Int
  BY ModRange
<1>2. R * (q - p) = n - m
  BY <1>1
<1>3. n - m < R /\ n - m > -R
  BY <1>1
<1> HIDE DEF a, p, n
<1>4. q - p = 0
  <2>1. ASSUME q - p >= 1 PROVE FALSE
    <3>1. R * (q - p) >= R
      BY <1>1, <2>1
    <3> QED
      BY <1>1, <1>2, <1>3, <3>1
  <2>2. ASSUME q - p <= -1 PROVE FALSE
    <3>1. R * (q - p) <= -R
      BY <1>1, <2>2
    <3> QED
      BY <1>1, <1>2, <1>3, <3>1
  <2> QED
    BY <1>1, <2>1, <2>2
<1>5. n = m
  BY <1>1, <1>2, <1>4
<1> QED
  BY <1>5 DEF n, a

(* The offset of slot j % R from the write count w, for the cells in front *)
(* of w and those from w on.                                               *)
LEMMA SlotOffset ==
    ASSUME NEW R \in Nat \ {0}, NEW j \in Nat, NEW w \in Nat
    PROVE  /\ w <= j /\ j < w + R => ((j % R) - w) % R = j - w
           /\ j < w /\ w <= j + R => ((j % R) - w) % R = j - w + R
<1>1. j = R * (j \div R) + (j % R) /\ j \div R \in Int /\ j % R \in Int
  BY ModRange
<1> DEFINE d == j \div R
<1>2. ASSUME w <= j, j < w + R PROVE ((j % R) - w) % R = j - w
  <2>1. (j % R) - w = R * (-d) + (j - w) /\ j - w \in 0..(R - 1) /\ -d \in Int
    BY <1>1, <1>2
  <2> HIDE DEF d
  <2> QED
    BY <2>1, ModUnique
<1>3. ASSUME j < w, w <= j + R PROVE ((j % R) - w) % R = j - w + R
  <2>1. (j % R) - w = R * (-d - 1) + (j - w + R) /\ j - w + R \in 0..(R - 1) /\ -d - 1 \in Int
    BY <1>1, <1>3
  <2> HIDE DEF d
  <2> QED
    BY <2>1, ModUnique
<1> QED
  BY <1>2, <1>3

--------------------------------------------------------------------------------
(* Types.                                                                  *)

(* The records the producer builds are cells. *)
LEMMA RecordType ==
    /\ \A ev \in Controls, s \in Nat : <<Header(ev, s, 0, 0)>> \in Seq(Cells) /\ Len(<<Header(ev, s, 0, 0)>>) = 1
    /\ \A s, q \in Nat, n \in Nat :
         /\ <<Header("nal", s, q, n)>> \o [i \in 1..n |-> Payload(s, q, i)] \in Seq(Cells)
         /\ Len(<<Header("nal", s, q, n)>> \o [i \in 1..n |-> Payload(s, q, i)]) = n + 1
<1>1. \A ev \in Controls \cup {"nal"}, s, q, n \in Nat : Header(ev, s, q, n) \in Cells
  BY DEF Header, Cells
<1>2. \A s, q, n \in Nat : Payload(s, q, n) \in Cells
  BY DEF Payload, Cells
<1>3. ASSUME NEW ev \in Controls, NEW s \in Nat
      PROVE  <<Header(ev, s, 0, 0)>> \in Seq(Cells) /\ Len(<<Header(ev, s, 0, 0)>>) = 1
  <2>1. Header(ev, s, 0, 0) \in Cells
    BY <1>1
  <2> QED
    BY <2>1
<1>4. ASSUME NEW s \in Nat, NEW q \in Nat, NEW n \in Nat
      PROVE  /\ <<Header("nal", s, q, n)>> \o [i \in 1..n |-> Payload(s, q, i)] \in Seq(Cells)
             /\ Len(<<Header("nal", s, q, n)>> \o [i \in 1..n |-> Payload(s, q, i)]) = n + 1
  <2> DEFINE h == <<Header("nal", s, q, n)>>
             b == [i \in 1..n |-> Payload(s, q, i)]
  <2>1. h \in Seq(Cells) /\ Len(h) = 1
    <3>1. Header("nal", s, q, n) \in Cells
      BY <1>1
    <3> QED
      BY <3>1
  <2>2. b \in Seq(Cells) /\ Len(b) = n
    <3>1. \A i \in 1..n : Payload(s, q, i) \in Cells
      BY <1>2
    <3>2. b \in [1..n -> Cells]
      BY <3>1
    <3> QED
      BY <3>2
  <2> HIDE DEF h, b
  <2>3. h \o b \in Seq(Cells) /\ Len(h \o b) = Len(h) + Len(b)
    BY <2>1, <2>2, ConcatProperties
  <2> QED
    BY <2>1, <2>2, <2>3 DEF h, b
<1> QED
  BY <1>3, <1>4

(* What a complete header makes of the reader: a reader with the same counts. *)
LEMMA HeaderType ==
    ASSUME NEW c \in Cells, NEW r \in ReaderStates, r.mode = "header"
    PROVE  /\ TakeHeader(r, c) \in ReaderStates
           /\ TakeHeader(r, c).mode # "header" => TakeHeader(r, c).left > 0
           /\ TakeHeader(r, c).read = r.read /\ TakeHeader(r, c).write = r.write
<1>1. c # Blank /\ c.ev \in Controls \cup {"nal", "payload"} /\ c.sess \in Nat /\ c.len \in Nat
  BY BlankAssumption DEF Cells
<1> USE DEF ReaderStates
<1>2. CASE c.ev = "payload"
  BY <1>1, <1>2 DEF TakeHeader
<1>3. CASE c.ev = "begin"
  BY <1>1, <1>3 DEF TakeHeader
<1>4. CASE c.ev = "nal"
  <2> DEFINE m(k) == IF c.len > 0 THEN k ELSE "header"
  <2>1. r.expect + 1 \in Nat /\ m("drop") \in {"header", "drop"} /\ m("payload") \in {"header", "payload"}
        /\ (m("drop") # "header" => c.len > 0) /\ (m("payload") # "header" => c.len > 0)
    BY <1>1
  <2>2. \/ TakeHeader(r, c) = [r EXCEPT !.bad = TRUE, !.left = c.len, !.mode = m("drop")]
        \/ TakeHeader(r, c) = [r EXCEPT !.expect = @ + 1, !.left = c.len, !.mode = m("payload")]
    BY <1>1, <1>4 DEF TakeHeader
  <2> HIDE DEF m
  <2>3. CASE TakeHeader(r, c) = [r EXCEPT !.bad = TRUE, !.left = c.len, !.mode = m("drop")]
    BY <1>1, <2>1, <2>3
  <2>4. CASE TakeHeader(r, c) = [r EXCEPT !.expect = @ + 1, !.left = c.len, !.mode = m("payload")]
    BY <1>1, <2>1, <2>4
  <2> QED
    BY <2>2, <2>3, <2>4
<1>5. CASE c.ev \in {"end", "pause", "resume", "flush"}
  BY <1>1, <1>5 DEF TakeHeader
<1> QED
  BY <1>1, <1>2, <1>3, <1>4, <1>5 DEF Controls

(* What a payload cell makes of the reader. *)
LEMMA BodyType ==
    ASSUME NEW r \in ReaderStates, r.mode # "header", r.left > 0, r.left = rd.left
    PROVE  /\ TakeBody(r) \in ReaderStates
           /\ TakeBody(r).mode # "header" => TakeBody(r).left > 0
           /\ TakeBody(r).read = r.read /\ TakeBody(r).write = r.write
<1> DEFINE m == IF rd.left = 1 THEN "header" ELSE r.mode
           n == r.left - 1
<1>1. n \in Nat /\ m \in {"header", "payload", "drop"} /\ (m # "header" => n > 0)
  BY DEF ReaderStates
<1>2. TakeBody(r) = [r EXCEPT !.left = n, !.mode = m]
  BY DEF TakeBody
<1> HIDE DEF m, n
<1> QED
  BY <1>1, <1>2 DEF ReaderStates

--------------------------------------------------------------------------------
(* The steps of the producer.                                              *)

(* A step of the producer that touches neither the ring nor its words.     *)
LEMMA ProducerOnly ==
    ASSUME RingInv, ProdType', UNCHANGED <<wr, mem, ctrl, readW, flags, rd, took, sent>>,
           calls' \in 0..MaxRecords, restarts' = restarts, dirty' \in BOOLEAN,
           prod.pc \notin {"write", "publish"}, prod'.pc \in {"idle", "space"},
           prod'.pc = "space" => Len(prod'.rec) > 0 /\ prod'.ev # "none"
    PROVE  RingInv'
<1>1. RingTypeOK'
  BY DEF RingInv, RingTypeOK, WordsType, ReaderType
<1>2. CountsInOrder'
  BY DEF RingInv, CountsInOrder
<1>3. WriteCount'
  BY DEF RingInv, WriteCount
<1>4. CellsKept'
  BY DEF RingInv, CellsKept
<1> QED
  BY <1>1, <1>2, <1>3, <1>4 DEF RingInv

LEMMA CallStep ==
    ASSUME RingInv, CallBegin \/ CallControl \/ CallPush
    PROVE  RingInv'
<1>0. ProdType /\ prod.pc = "idle" /\ prod.sess \in Nat /\ prod.seq \in Nat /\ dirty \in BOOLEAN
  BY DEF RingInv, RingTypeOK, ProdType, CallBegin, CallControl, CallPush, Calling
<1>1. calls' \in 0..MaxRecords
  <2>1. calls \in 0..MaxRecords /\ MaxRecords \in Nat /\ calls < MaxRecords /\ calls' = calls + 1
    BY RingAssumption DEF RingInv, RingTypeOK, CallBegin, CallControl, CallPush, Calling
  <2> QED
    BY <2>1
<1>2. CASE CallBegin
  <2> DEFINE r == <<Header("begin", prod.sess + 1, 0, 0)>>
  <2>1. r \in Seq(Cells) /\ Len(r) = 1
    BY <1>0, RecordType DEF Controls
  <2>2. prod' = [prod EXCEPT !.pc = "space", !.ev = "begin", !.rec = r]
    BY <1>2 DEF CallBegin
  <2> HIDE DEF r
  <2>3. ProdType' /\ prod'.pc = "space" /\ prod'.rec = r /\ prod'.ev # "none"
    BY <1>0, <2>1, <2>2 DEF ProdType, Controls
  <2> QED
    BY <1>0, <1>1, <1>2, <2>1, <2>3, ProducerOnly DEF CallBegin
<1>3. CASE CallControl
  <2>1. PICK ev \in Controls \ {"begin"} :
          prod' = [prod EXCEPT !.pc = "space", !.ev = ev, !.rec = <<Header(ev, prod.sess, 0, 0)>>]
    BY <1>3 DEF CallControl
  <2> DEFINE r == <<Header(ev, prod.sess, 0, 0)>>
  <2>2. r \in Seq(Cells) /\ Len(r) = 1
    BY <1>0, RecordType
  <2> HIDE DEF r
  <2>3. prod' = [prod EXCEPT !.pc = "space", !.ev = ev, !.rec = r] /\ ev # "none"
    BY <2>1 DEF r, Controls
  <2>4. ProdType' /\ prod'.pc = "space" /\ prod'.rec = r /\ prod'.ev # "none"
    BY <1>0, <2>2, <2>3 DEF ProdType
  <2>5. Len(prod'.rec) > 0
    BY <2>2, <2>4
  <2> QED
    BY <1>0, <1>1, <1>3, <2>4, <2>5, ProducerOnly DEF CallControl
<1>4. CASE CallPush
  <2>1. dirty' \in BOOLEAN
    BY <1>4 DEF CallPush
  <2>2. CASE Stale
    <3>1. prod' = syncStatus(prod) /\ flags.active \in BOOLEAN /\ flags.paused \in BOOLEAN
      BY <1>4, <2>2 DEF CallPush, RingInv, RingTypeOK, WordsType
    <3>2. ProdType' /\ prod'.pc = "idle"
      BY <1>0, <3>1 DEF ProdType, syncStatus
    <3> QED
      BY <1>0, <1>1, <1>4, <2>1, <3>2, ProducerOnly DEF CallPush
  <2>3. CASE ~Stale
    <3>1. PICK n \in Lengths :
            prod' = [prod EXCEPT !.pc = "space", !.ev = "nal",
                       !.rec = <<Header("nal", prod.sess, prod.seq, n)>>
                               \o [i \in 1..n |-> Payload(prod.sess, prod.seq, i)]]
      BY <1>4, <2>3 DEF CallPush
    <3> DEFINE r == <<Header("nal", prod.sess, prod.seq, n)>>
                    \o [i \in 1..n |-> Payload(prod.sess, prod.seq, i)]
    <3>2. r \in Seq(Cells) /\ Len(r) = n + 1 /\ n \in Nat
      BY <1>0, RecordType, RingAssumption
    <3>a. prod' = [prod EXCEPT !.pc = "space", !.ev = "nal", !.rec = r]
      BY <3>1
    <3> HIDE DEF r
    <3>3. ProdType' /\ prod'.pc = "space" /\ prod'.rec = r /\ prod'.ev # "none"
      BY <1>0, <3>a, <3>2 DEF ProdType
    <3>4. Len(prod'.rec) > 0
      BY <3>2, <3>3
    <3> QED
      BY <1>0, <1>1, <1>4, <2>1, <3>3, <3>4, ProducerOnly DEF CallPush
  <2> QED
    BY <2>2, <2>3
<1> QED
  BY <1>2, <1>3, <1>4

LEMMA AwaitStep ==
    ASSUME RingInv, Await
    PROVE  RingInv'
<1>0. ProdType /\ prod.pc = "await" /\ prod.ev \in Controls /\ prod.sess \in Nat
  BY DEF RingInv, RingTypeOK, WriteCount, ProdType, Await
<1>1. Idle(prod) = [prod EXCEPT !.pc = "idle", !.rec = <<>>] /\ <<>> \in Seq(Cells) /\ prod.sess + 1 \in Nat
  BY <1>0, EmptySeq DEF Idle
<1>2. ProdType' /\ prod'.pc = "idle"
  <2>1. CASE prod' = Idle(prod)
    BY <1>0, <1>1, <2>1 DEF ProdType
  <2>2. CASE prod' = Completed(prod)
    <3>1. CASE prod.ev = "begin"
      BY <1>0, <1>1, <2>2, <3>1 DEF Completed, ProdType
    <3>2. CASE prod.ev = "end"
      BY <1>0, <1>1, <2>2, <3>2 DEF Completed, ProdType
    <3>3. CASE prod.ev = "pause"
      BY <1>0, <1>1, <2>2, <3>3 DEF Completed, ProdType
    <3>4. CASE prod.ev = "resume"
      BY <1>0, <1>1, <2>2, <3>4 DEF Completed, ProdType
    <3>5. CASE prod.ev = "flush"
      BY <1>0, <1>1, <2>2, <3>5 DEF Completed, ProdType
    <3> QED
      BY <1>0, <3>1, <3>2, <3>3, <3>4, <3>5 DEF Controls
  <2> QED
    BY <2>1, <2>2 DEF Await
<1>3. dirty' \in BOOLEAN /\ calls' \in 0..MaxRecords
  BY DEF RingInv, RingTypeOK, Await
<1> QED
  BY <1>0, <1>2, <1>3, ProducerOnly DEF Await

LEMMA SpaceStep ==
    ASSUME RingInv, Space
    PROVE  RingInv'
<1>0. ProdType /\ prod.pc = "space" /\ <<>> \in Seq(Cells) /\ prod.rec \in Seq(Cells) /\ prod.ev # "none"
      /\ Len(prod.rec) > 0
  BY EmptySeq DEF RingInv, RingTypeOK, ProdType, WriteCount, Space
<1>1. CASE ~flags.bad /\ Room
  <2>1. ProdType' /\ prod'.pc = "write" /\ prod'.rec = prod.rec /\ prod'.ev = prod.ev
    BY <1>0, <1>1 DEF ProdType, Space
  <2>2. RingTypeOK'
    BY <2>1 DEF RingInv, RingTypeOK, WordsType, ReaderType, Space
  <2>3. CountsInOrder'
    BY DEF RingInv, CountsInOrder, Space
  <2>4. WriteCount'
    <3>1. wr = ctrl \/ wr < readW
      BY <1>0 DEF RingInv, WriteCount
    <3>2. wr \in Nat /\ readW \in Nat /\ wr >= readW /\ wr - readW + Len(prod.rec) <= RingCells
      BY <1>1 DEF RingInv, RingTypeOK, WordsType, Room
    <3>3. wr = ctrl
      BY <3>1, <3>2
    <3>4. wr' = wr /\ ctrl' = ctrl /\ readW' = readW
      BY DEF Space
    <3> QED
      BY <1>0, <2>1, <3>2, <3>3, <3>4 DEF WriteCount
  <2>5. CellsKept'
    BY <2>1 DEF RingInv, CellsKept, Space
  <2> QED
    BY <2>2, <2>3, <2>4, <2>5 DEF RingInv
<1>2. CASE ~(~flags.bad /\ Room)
  <2>1. ProdType' /\ prod'.pc = "idle"
    BY <1>0, <1>2 DEF ProdType, Space, Idle
  <2>2. dirty' \in BOOLEAN /\ calls' \in 0..MaxRecords
    BY DEF RingInv, RingTypeOK, Space
  <2> QED
    BY <1>0, <2>1, <2>2, ProducerOnly DEF Space
<1> QED
  BY <1>1, <1>2

(* The record goes into the slots behind the published cells, which the    *)
(* reader has left: the room counted from the READ word is room indeed.    *)
LEMMA WriteStep ==
    ASSUME RingInv, WriteCells
    PROVE  RingInv'
<1> DEFINE R == RingCells
           L == Len(prod.rec)
<1>1. /\ ProdType /\ prod.pc = "write" /\ prod.rec \in Seq(Cells) /\ L \in Nat /\ L > 0
      /\ prod.ev # "none" /\ R \in Nat \ {0}
  BY RingAssumption, LenProperties DEF RingInv, RingTypeOK, ProdType, WriteCount, WriteCells
<1>2. /\ wr \in Nat /\ ctrl \in Nat /\ readW \in Nat /\ rd.read \in Nat
      /\ mem \in [0..(R - 1) -> Cells \cup {Blank}]
  BY DEF RingInv, RingTypeOK, WordsType, ReaderType, ReaderStates
<1>3. /\ wr = ctrl /\ wr - readW + L <= R
      /\ readW <= rd.read /\ rd.read <= ctrl
  <2>1. wr = ctrl /\ wr - readW + L <= R
    BY <1>1 DEF RingInv, WriteCount
  <2>2. readW <= rd.read /\ rd.read <= rd.write /\ rd.write <= ctrl
    BY DEF RingInv, CountsInOrder
  <2>3. rd.write \in Nat
    BY DEF RingInv, RingTypeOK, ReaderType, ReaderStates
  <2> QED
    BY <1>2, <2>1, <2>2, <2>3
<1>4. /\ prod' = [prod EXCEPT !.pc = "publish"] /\ wr' = wr + L
      /\ mem' = [i \in 0..(R - 1) |-> IF (i - wr) % R < L THEN prod.rec[((i - wr) % R) + 1] ELSE mem[i]]
      /\ UNCHANGED <<ctrl, readW, flags, rd, took, calls, restarts, sent, dirty>>
  BY <1>2 DEF WriteCells
<1>5. ProdType' /\ prod'.pc = "publish" /\ prod'.rec = prod.rec /\ prod'.ev = prod.ev
  BY <1>1, <1>4 DEF ProdType
<1>6. mem' \in [0..(R - 1) -> Cells \cup {Blank}]
  <2>1. ASSUME NEW i \in 0..(R - 1), (i - wr) % R < L
        PROVE  prod.rec[((i - wr) % R) + 1] \in Cells
    <3>1. i - wr \in Int
      BY <1>1, <1>2
    <3>2. (i - wr) % R \in 0..(R - 1)
      BY <1>1, <3>1, ModRange
    <3>3. ((i - wr) % R) + 1 \in 1..L
      BY <1>1, <2>1, <3>2
    <3> HIDE DEF L
    <3> QED
      BY <1>1, <3>3, ElementOfSeq DEF L
  <2> QED
    BY <1>2, <1>4, <2>1
<1>7. RingTypeOK'
  <2>1. wr' \in Nat
    BY <1>1, <1>2, <1>4
  <2> QED
    BY <1>4, <1>5, <1>6, <2>1 DEF RingInv, RingTypeOK, WordsType, ReaderType
<1>8. CountsInOrder'
  BY <1>4 DEF RingInv, CountsInOrder
<1>9. WriteCount'
  BY <1>1, <1>2, <1>3, <1>4, <1>5 DEF WriteCount
<1>10. CellsKept'
  <2>1. ASSUME NEW i \in rd.read..(ctrl - 1) PROVE mem'[i % R] = mem[i % R]
    <3>1. i \in Nat /\ i < wr /\ wr <= i + R /\ i - wr + R >= L
      BY <1>1, <1>2, <1>3
    <3>a. i \in Int /\ R \in Nat \ {0} /\ wr \in Nat
      BY <1>1, <1>2, <3>1
    <3> HIDE DEF R
    <3>b. ((i % R) - wr) % R = i - wr + R
      BY <3>a, <3>1, SlotOffset
    <3>2. i % R \in 0..(R - 1)
      BY <3>a, ModRange
    <3>3. ~(((i % R) - wr) % R < L)
      BY <1>1, <3>a, <3>1, <3>b
    <3> QED
      BY <1>4, <3>2, <3>3
  <2>2. ASSUME NEW k \in 1..L PROVE mem'[(ctrl + k - 1) % R] = prod.rec[k]
    <3> DEFINE j == ctrl + k - 1
    <3>1. j \in Nat /\ wr <= j /\ j < wr + R /\ j - wr = k - 1
      BY <1>1, <1>2, <1>3
    <3> HIDE DEF j
    <3>a. j \in Int /\ R \in Nat \ {0} /\ wr \in Nat
      BY <1>1, <1>2, <3>1
    <3> HIDE DEF R
    <3>b. ((j % R) - wr) % R = j - wr
      BY <3>a, <3>1, SlotOffset
    <3>2. j % R \in 0..(R - 1)
      BY <3>a, ModRange
    <3>3. ((j % R) - wr) % R < L /\ (((j % R) - wr) % R) + 1 = k
      BY <1>1, <3>a, <3>1, <3>b
    <3>4. mem'[j % R] = prod.rec[k]
      BY <1>4, <3>2, <3>3
    <3> QED
      BY <3>4 DEF j
  <2>3. \A i \in rd.read..(ctrl - 1) : mem[i % R] = sent[i + 1]
    BY DEF RingInv, CellsKept
  <2> QED
    BY <1>4, <1>5, <2>1, <2>2, <2>3 DEF CellsKept
<1> QED
  BY <1>7, <1>8, <1>9, <1>10 DEF RingInv

LEMMA PublishStep ==
    ASSUME RingInv, PublishCtrl
    PROVE  RingInv'
<1> DEFINE L == Len(prod.rec)
<1>1. /\ ProdType /\ prod.pc = "publish" /\ prod.rec \in Seq(Cells) /\ L \in Nat /\ L > 0
      /\ prod.ev \in Controls \cup {"nal"} /\ prod.seq \in Nat /\ sent \in Seq(Cells)
  BY LenProperties DEF RingInv, RingTypeOK, ProdType, WriteCount, PublishCtrl
<1>2. wr \in Nat /\ ctrl \in Nat /\ readW \in Nat /\ rd.read \in Nat /\ rd.write \in Nat
  BY DEF RingInv, RingTypeOK, WordsType, ReaderType, ReaderStates
<1>3. wr = ctrl + L /\ wr - readW <= RingCells
  BY <1>1 DEF RingInv, WriteCount
<1>4. Len(sent) = ctrl /\ readW <= rd.read /\ rd.read <= rd.write /\ rd.write <= ctrl
  BY DEF RingInv, CountsInOrder
<1>5. /\ ctrl' = wr /\ sent' = sent \o prod.rec
      /\ UNCHANGED <<wr, mem, readW, flags, rd, took, calls, restarts, dirty>>
  BY DEF PublishCtrl
<1>6. ProdType' /\ prod'.pc \in {"idle", "await"} /\ (prod'.pc = "await" => prod'.ev \in Controls)
  <2>1. CASE prod.ev = "nal"
    <3>1. prod.seq + 1 \in Nat /\ <<>> \in Seq(Cells)
      BY <1>1, EmptySeq
    <3> QED
      BY <1>1, <2>1, <3>1 DEF ProdType, PublishCtrl, Idle
  <2>2. CASE prod.ev # "nal"
    BY <1>1, <2>2 DEF ProdType, PublishCtrl
  <2> QED
    BY <2>1, <2>2
<1>7. /\ sent' \in Seq(Cells) /\ Len(sent') = ctrl + L
      /\ \A i \in 1..ctrl : sent'[i] = sent[i]
      /\ \A i \in (ctrl + 1)..(ctrl + L) : sent'[i] = prod.rec[i - ctrl]
  <2>1. /\ sent \o prod.rec \in Seq(Cells) /\ Len(sent \o prod.rec) = Len(sent) + L
        /\ \A i \in 1..(Len(sent) + L) :
             (sent \o prod.rec)[i] = IF i <= Len(sent) THEN sent[i] ELSE prod.rec[i - Len(sent)]
    BY <1>1, ConcatProperties
  <2> HIDE DEF L
  <2> QED
    BY <1>1, <1>2, <1>4, <1>5, <2>1
<1> HIDE DEF L
<1>8. RingTypeOK'
  BY <1>2, <1>5, <1>6, <1>7 DEF RingInv, RingTypeOK, WordsType, ReaderType
<1>9. CountsInOrder'
  BY <1>1, <1>2, <1>3, <1>4, <1>5, <1>7 DEF CountsInOrder
<1>10. WriteCount'
  BY <1>5, <1>6 DEF WriteCount
<1>11. CellsKept'
  <2>1. ASSUME NEW i \in rd.read..(ctrl + L - 1) PROVE mem[i % RingCells] = sent'[i + 1]
    <3>1. CASE i < ctrl
      <4>1. i \in rd.read..(ctrl - 1) /\ i + 1 \in 1..ctrl
        BY <1>1, <1>2, <3>1
      <4> QED
        BY <1>7, <4>1 DEF RingInv, CellsKept
    <3>2. CASE i >= ctrl
      <4> DEFINE k == i + 1 - ctrl
      <4>1. k \in 1..L /\ ctrl + k - 1 = i /\ i + 1 \in (ctrl + 1)..(ctrl + L)
        BY <1>1, <1>2, <3>2
      <4>a. \A x \in (ctrl + 1)..(ctrl + L) : sent'[x] = prod.rec[x - ctrl]
        BY <1>7
      <4>2. sent'[i + 1] = prod.rec[k]
        BY <1>2, <4>a, <4>1
      <4> HIDE DEF k
      <4>3. mem[(ctrl + k - 1) % RingCells] = prod.rec[k]
        BY <1>1, <4>1 DEF RingInv, CellsKept, L
      <4> QED
        BY <4>1, <4>2, <4>3
    <3> QED
      BY <1>2, <3>1, <3>2
  <2> QED
    <3>1. ctrl' - 1 = ctrl + L - 1 /\ prod'.pc # "publish" /\ mem' = mem /\ rd' = rd
      BY <1>1, <1>2, <1>3, <1>5, <1>6
    <3> QED
      BY <2>1, <3>1 DEF CellsKept
<1> QED
  BY <1>8, <1>9, <1>10, <1>11 DEF RingInv

LEMMA ReopenStep ==
    ASSUME RingInv, ReopenRing
    PROVE  RingInv'
<1>1. /\ ProdType /\ prod.pc = "idle" /\ rd.read = ctrl /\ readW = ctrl /\ wr' = 0
      /\ prod' = [prod EXCEPT !.active = FALSE, !.paused = FALSE, !.seq = 0]
      /\ UNCHANGED <<mem, ctrl, readW, flags, rd, took, calls, sent, dirty>>
  BY DEF RingInv, RingTypeOK, ReopenRing
<1>2. ProdType' /\ prod'.pc = "idle"
  BY <1>1 DEF ProdType
<1>3. restarts' \in 0..MaxRestarts
  <2>1. restarts \in 0..MaxRestarts /\ MaxRestarts \in Nat /\ restarts < MaxRestarts /\ restarts' = restarts + 1
    BY RingAssumption DEF RingInv, RingTypeOK, ReopenRing
  <2> QED
    BY <2>1
<1>4. RingTypeOK'
  BY <1>1, <1>2, <1>3 DEF RingInv, RingTypeOK, WordsType, ReaderType
<1>5. CountsInOrder'
  BY <1>1 DEF RingInv, CountsInOrder
<1>6. WriteCount'
  <2>1. readW \in Nat
    BY DEF RingInv, RingTypeOK, WordsType
  <2> QED
    BY <1>1, <1>2, <2>1 DEF WriteCount
<1>7. CellsKept'
  BY <1>1, <1>2 DEF RingInv, CellsKept
<1> QED
  BY <1>4, <1>5, <1>6, <1>7 DEF RingInv

--------------------------------------------------------------------------------
(* The steps of the reader.                                                *)

(* The cell the reader takes is the one published at its count. *)
LEMMA CellTaken ==
    ASSUME RingInv, Consume
    PROVE  /\ mem[rd.read % RingCells] = sent[rd.read + 1]
           /\ sent[rd.read + 1] \in Cells /\ rd.read + 1 \in 1..Len(sent)
<1>1. rd.read \in Nat /\ rd.write \in Nat /\ ctrl \in Nat /\ sent \in Seq(Cells)
  BY DEF RingInv, RingTypeOK, WordsType, ReaderType, ReaderStates
<1>2. rd.read < rd.write /\ rd.write <= ctrl /\ Len(sent) = ctrl
  BY DEF RingInv, CountsInOrder, Consume
<1>3. rd.read \in rd.read..(ctrl - 1) /\ rd.read + 1 \in 1..Len(sent)
  BY <1>1, <1>2
<1> QED
  BY <1>1, <1>3, ElementOfSeq DEF RingInv, CellsKept

(* What taking a cell does to the reader's counts. *)
LEMMA Consumed ==
    ASSUME RingInv, Consume
    PROVE  /\ ReaderType' /\ rd'.read = rd.read + 1 /\ rd'.write = rd.write
           /\ took' = sent[rd.read + 1]
<1> DEFINE c == mem[rd.read % RingCells]
           r == [rd EXCEPT !.read = @ + 1, !.due = TRUE]
<1>1. rd \in ReaderStates /\ rd.read \in Nat /\ (rd.mode # "header" => rd.left > 0)
  BY DEF RingInv, RingTypeOK, ReaderType, ReaderStates
<1>2. rd.read + 1 \in Nat
  BY <1>1
<1>3. r \in ReaderStates /\ r.mode = rd.mode /\ r.left = rd.left /\ r.read = rd.read + 1 /\ r.write = rd.write
  BY <1>1, <1>2 DEF ReaderStates
<1>4. c \in Cells /\ c = sent[rd.read + 1]
  BY CellTaken
<1>5. took' = c /\ rd' = IF rd.mode = "header" THEN TakeHeader(r, c) ELSE TakeBody(r)
  BY DEF Consume
<1> HIDE DEF c, r
<1>6. CASE rd.mode = "header"
  BY <1>3, <1>4, <1>5, <1>6, HeaderType DEF ReaderType
<1>7. CASE rd.mode # "header"
  BY <1>1, <1>3, <1>4, <1>5, <1>7, BodyType DEF ReaderType
<1> QED
  BY <1>6, <1>7

LEMMA ConsumeStep ==
    ASSUME RingInv, Consume
    PROVE  RingInv'
<1>1. /\ ReaderType' /\ rd'.read = rd.read + 1 /\ rd'.write = rd.write /\ took' \in Cells
  BY Consumed, CellTaken
<1>2. rd.read \in Nat /\ rd.write \in Nat /\ rd.read < rd.write /\ readW \in Nat /\ ctrl \in Nat
  BY DEF RingInv, RingTypeOK, WordsType, ReaderType, ReaderStates, Consume
<1>3. UNCHANGED <<prod, wr, mem, ctrl, readW, flags, calls, restarts, sent, dirty>>
  BY DEF Consume
<1>4. RingTypeOK'
  BY <1>1, <1>3 DEF RingInv, RingTypeOK, ProdType, WordsType
<1>5. CountsInOrder'
  <2>1. Len(sent) = ctrl /\ readW <= rd.read /\ rd.write <= ctrl /\ ctrl - readW <= RingCells
    BY DEF RingInv, CountsInOrder
  <2>2. readW <= rd.read + 1 /\ rd.read + 1 <= rd.write
    BY <1>2, <2>1
  <2> QED
    BY <1>1, <1>3, <2>1, <2>2 DEF CountsInOrder
<1>6. WriteCount'
  BY <1>3 DEF RingInv, WriteCount
<1>7. CellsKept'
  <2>1. \A i \in (rd.read + 1)..(ctrl - 1) : i \in rd.read..(ctrl - 1)
    BY <1>2
  <2> QED
    BY <1>1, <1>3, <2>1 DEF RingInv, CellsKept
<1> QED
  BY <1>4, <1>5, <1>6, <1>7 DEF RingInv

LEMMA PollStep ==
    ASSUME RingInv, PollCtrl
    PROVE  RingInv'
<1>1. rd \in ReaderStates /\ ctrl \in Nat /\ rd.read \in Nat /\ rd.write \in Nat
  BY DEF RingInv, RingTypeOK, WordsType, ReaderType, ReaderStates
<1>2. /\ rd' = [rd EXCEPT !.write = ctrl]
      /\ UNCHANGED <<prod, wr, mem, ctrl, readW, flags, took, calls, restarts, sent, dirty>>
  BY DEF PollCtrl
<1>3. rd' \in ReaderStates /\ rd'.write = ctrl /\ rd'.read = rd.read /\ rd'.mode = rd.mode /\ rd'.left = rd.left
  BY <1>1, <1>2 DEF ReaderStates
<1>4. RingTypeOK'
  BY <1>2, <1>3 DEF RingInv, RingTypeOK, ProdType, WordsType, ReaderType
<1>5. CountsInOrder'
  <2>1. rd.read <= ctrl
    BY <1>1 DEF RingInv, CountsInOrder
  <2> QED
    BY <1>1, <1>2, <1>3, <2>1 DEF RingInv, CountsInOrder
<1>6. WriteCount' /\ CellsKept'
  BY <1>2, <1>3 DEF RingInv, WriteCount, CellsKept
<1> QED
  BY <1>4, <1>5, <1>6 DEF RingInv

LEMMA PublishReadStep ==
    ASSUME RingInv, PublishRead
    PROVE  RingInv'
<1>1. rd \in ReaderStates /\ ctrl \in Nat /\ rd.read \in Nat /\ readW \in Nat /\ wr \in Nat /\ RingCells \in Nat
      /\ Len(prod.rec) \in Nat
  BY RingAssumption, LenProperties DEF RingInv, RingTypeOK, ProdType, WordsType, ReaderType, ReaderStates
<1>2. /\ rd' = [rd EXCEPT !.pub = 1] /\ readW' = rd.read
      /\ UNCHANGED <<prod, wr, mem, ctrl, flags, took, calls, restarts, sent, dirty>>
  BY DEF PublishRead
<1>3. rd' \in ReaderStates /\ rd'.write = rd.write /\ rd'.read = rd.read /\ rd'.mode = rd.mode /\ rd'.left = rd.left
  BY <1>1, <1>2 DEF ReaderStates
<1>4. RingTypeOK'
  BY <1>1, <1>2, <1>3 DEF RingInv, RingTypeOK, ProdType, WordsType, ReaderType
<1>5. readW <= rd.read /\ rd.read <= rd.write /\ rd.write <= ctrl /\ Len(sent) = ctrl /\ ctrl - readW <= RingCells
  BY DEF RingInv, CountsInOrder
<1>6. CountsInOrder'
  <2>1. ctrl - rd.read <= RingCells /\ rd.read <= rd.read
    BY <1>1, <1>5
  <2> QED
    BY <1>2, <1>3, <1>5, <2>1 DEF CountsInOrder
<1>7. WriteCount'
  <2>1. /\ wr - readW + Len(prod.rec) <= RingCells => wr - rd.read + Len(prod.rec) <= RingCells
        /\ wr - readW <= RingCells => wr - rd.read <= RingCells
        /\ wr < readW => wr < rd.read
    BY <1>1, <1>5
  <2> QED
    BY <1>2, <2>1 DEF RingInv, WriteCount
<1>8. CellsKept'
  BY <1>2, <1>3 DEF RingInv, CellsKept
<1> QED
  BY <1>4, <1>6, <1>7, <1>8 DEF RingInv

LEMMA PublishFlagsStep ==
    ASSUME RingInv, PublishFlags
    PROVE  RingInv'
<1>1. rd \in ReaderStates
  BY DEF RingInv, RingTypeOK, ReaderType
<1>2. /\ rd' = [rd EXCEPT !.pub = 0, !.due = FALSE]
      /\ flags' = [active |-> rd.active, paused |-> rd.paused, sess |-> rd.sess, bad |-> rd.bad]
      /\ UNCHANGED <<prod, wr, mem, ctrl, readW, took, calls, restarts, sent, dirty>>
  BY DEF PublishFlags
<1>3. /\ rd' \in ReaderStates /\ rd'.write = rd.write /\ rd'.read = rd.read /\ rd'.mode = rd.mode /\ rd'.left = rd.left
      /\ flags' \in [active : BOOLEAN, paused : BOOLEAN, sess : Nat, bad : BOOLEAN]
  BY <1>1, <1>2 DEF ReaderStates
<1>4. RingTypeOK'
  BY <1>2, <1>3 DEF RingInv, RingTypeOK, ProdType, WordsType, ReaderType
<1>5. CountsInOrder' /\ WriteCount' /\ CellsKept'
  BY <1>2, <1>3 DEF RingInv, CountsInOrder, WriteCount, CellsKept
<1> QED
  BY <1>4, <1>5 DEF RingInv

--------------------------------------------------------------------------------
(* The invariant, and the refinement.                                      *)

LEMMA RingStart ==
    ASSUME RingInit
    PROVE  RingInv
<1> USE RingAssumption, EmptySeq DEF RingInit
<1>1. ProdType /\ WordsType
  BY DEF ProdType, WordsType
<1>2. ReaderType
  BY DEF ReaderType, ReaderStates
<1>3. RingTypeOK
  <2>1. calls \in 0..MaxRecords /\ restarts \in 0..MaxRestarts
    OBVIOUS
  <2>2. took \in Cells \cup {Blank} /\ sent \in Seq(Cells) /\ dirty \in BOOLEAN
    OBVIOUS
  <2> QED
    BY <1>1, <1>2, <2>1, <2>2 DEF RingTypeOK
<1>4. CountsInOrder /\ WriteCount /\ CellsKept
  <2>1. Len(<<>>) = 0
    OBVIOUS
  <2> QED
    BY <2>1 DEF CountsInOrder, WriteCount, CellsKept
<1> QED
  BY <1>3, <1>4 DEF RingInv

LEMMA RingStep ==
    ASSUME RingInv, [RingNext]_ringVars
    PROVE  RingInv'
<1>1. CASE ReaderStep
  BY <1>1, PollStep, ConsumeStep, PublishReadStep, PublishFlagsStep DEF ReaderStep
<1>2. CASE ProducerStep
  BY <1>2, SpaceStep, WriteStep, PublishStep, AwaitStep DEF ProducerStep
<1>3. CASE CallBegin \/ CallControl \/ CallPush
  BY <1>3, CallStep
<1>4. CASE ReopenRing
  BY <1>4, ReopenStep
<1>5. CASE UNCHANGED ringVars
  <2>1. RingTypeOK'
    BY <1>5 DEF ringVars, RingInv, RingTypeOK, ProdType, WordsType, ReaderType
  <2>2. CountsInOrder' /\ WriteCount' /\ CellsKept'
    BY <1>5 DEF ringVars, RingInv, CountsInOrder, WriteCount, CellsKept
  <2> QED
    BY <2>1, <2>2 DEF RingInv
<1> QED
  BY <1>1, <1>2, <1>3, <1>4, <1>5 DEF RingNext

LEMMA RingInvariant == RingSpec => []RingInv
<1>1. RingInit => RingInv
  BY RingStart
<1>2. RingInv /\ [RingNext]_ringVars => RingInv'
  BY RingStep
<1> QED
  BY <1>1, <1>2, PTL DEF RingSpec

(* In every state of the ring's specification the producer's state, the    *)
(* words in DDR and the reader's state have the shape the code gives them: *)
(* the slots hold cells or nothing, and a reader inside a payload still    *)
(* has cells to take.                                                      *)
THEOREM RingTypeCorrect == RingSpec => []RingTypeOK
<1>1. RingInv => RingTypeOK
  BY DEF RingInv
<1> QED
  BY <1>1, RingInvariant, PTL

(* The reader's step of the abstract queue: it takes the head. *)
LEMMA ConsumeTakes ==
    ASSUME RingInv, Consume
    PROVE  Fifo!Take
<1> DEFINE n == Len(sent)
           m == rd.read + 1
<1>1. sent \in Seq(Cells) /\ rd.read \in Nat /\ n \in Nat
  BY LenProperties DEF RingInv, RingTypeOK, ReaderType, ReaderStates
<1>2. sent' = sent /\ rd'.read + 1 = m + 1 /\ took' = sent[m]
  BY Consumed DEF Consume
<1>3. m \in 1..n
  BY CellTaken
<1> HIDE DEF n, m
<1>4. n \in m..n
  BY <1>1, <1>3
<1>5. Head(SubSeq(sent, m, n)) = sent[m] /\ Tail(SubSeq(sent, m, n)) = SubSeq(sent, m + 1, n)
  BY <1>1, <1>3, <1>4, HeadTailOfSubSeq DEF n
<1>6. SubSeq(sent, m, n) # <<>>
  <2>1. \A i \in m..n : sent[i] \in Cells
    <3>1. \A i \in m..n : i \in 1..n
      BY <1>1, <1>3
    <3> QED
      BY <1>1, <3>1, ElementOfSeq DEF n
  <2>2. m \in Int /\ n \in Int
    BY <1>1, <1>3
  <2>3. Len(SubSeq(sent, m, n)) = IF m <= n THEN n - m + 1 ELSE 0
    BY <2>1, <2>2, SubSeqProperties
  <2>4. Len(SubSeq(sent, m, n)) # 0
    BY <1>1, <1>3, <2>3
  <2>5. Len(<<>>) = 0
    OBVIOUS
  <2> QED
    BY <2>4, <2>5
<1> QED
  BY <1>2, <1>5, <1>6 DEF Fifo!Take, m, n

(* The producer's: the whole record is appended, within the capacity. *)
LEMMA PublishPushes ==
    ASSUME RingInv, PublishCtrl
    PROVE  Fifo!Push
<1> DEFINE n == Len(sent)
           m == rd.read + 1
           L == Len(prod.rec)
           q == SubSeq(sent, m, n)
           e == n + L
           p == SubSeq(sent', m, e)
<1>1. sent \in Seq(Cells) /\ prod.rec \in Seq(Cells) /\ n \in Nat /\ L \in Nat
  BY LenProperties DEF RingInv, RingTypeOK, ProdType
<1>2. rd.read \in Nat /\ rd.write \in Nat /\ readW \in Nat /\ wr \in Nat /\ ctrl \in Nat /\ RingCells \in Nat
  BY RingAssumption DEF RingInv, RingTypeOK, WordsType, ReaderType, ReaderStates
<1>3. /\ L > 0 /\ wr = ctrl + L /\ wr - readW <= RingCells
      /\ n = ctrl /\ readW <= rd.read /\ rd.read <= rd.write /\ rd.write <= ctrl
  BY DEF RingInv, WriteCount, CountsInOrder, PublishCtrl
<1>4. sent' = sent \o prod.rec /\ rd' = rd /\ took' = took
  BY DEF PublishCtrl
<1>5. /\ sent' \in Seq(Cells) /\ Len(sent') = e
      /\ \A i \in 1..n : sent'[i] = sent[i]
  <2>1. /\ sent \o prod.rec \in Seq(Cells) /\ Len(sent \o prod.rec) = n + L
        /\ \A i \in 1..(n + L) : (sent \o prod.rec)[i] = IF i <= n THEN sent[i] ELSE prod.rec[i - n]
    BY <1>1, ConcatProperties
  <2> HIDE DEF n, L
  <2> QED
    BY <1>1, <1>4, <2>1
<1>a. e = n + L /\ e \in Nat
  BY <1>1
<1> HIDE DEF n, L, e
<1>6. /\ m \in 1..(n + 1) /\ m \in Int /\ n \in Int /\ e \in Int /\ m <= e
      /\ e - m + 1 \in (n - m + 1 + 1)..RingCells
  <2>1. m = rd.read + 1 /\ m \in Int
    BY <1>2
  <2> HIDE DEF m
  <2>2. m \in 1..(n + 1) /\ m <= e /\ n \in Int /\ e \in Int
    BY <1>1, <1>2, <1>3, <1>a, <2>1
  <2>3. e - m + 1 >= n - m + 1 + 1 /\ e - m + 1 <= RingCells
    BY <1>1, <1>2, <1>3, <1>a, <2>1
  <2>4. e - m + 1 \in Int /\ n - m + 1 + 1 \in Int
    BY <1>1, <1>a, <2>1
  <2>5. e - m + 1 \in (n - m + 1 + 1)..RingCells
    BY <1>2, <2>3, <2>4
  <2> QED
    BY <2>1, <2>2, <2>5
<1> HIDE DEF m
<1>7. /\ \A i \in m..n : sent[i] \in Cells
      /\ \A i \in m..(e) : sent'[i] \in Cells
  <2>1. (\A i \in m..n : i \in 1..n) /\ \A i \in m..(e) : i \in 1..(e)
    BY <1>1, <1>a, <1>6
  <2>2. \A i \in 1..n : sent[i] \in Cells
    BY <1>1, ElementOfSeq DEF n
  <2>3. \A i \in 1..(e) : sent'[i] \in Cells
    BY <1>5, ElementOfSeq
  <2> QED
    BY <2>1, <2>2, <2>3
<1>8. /\ q \in Seq(Cells) /\ Len(q) = n - m + 1
      /\ \A i \in 1..(n - m + 1) : q[i] = sent[m + i - 1]
  <2>1. /\ q \in Seq(Cells) /\ Len(q) = IF m <= n THEN n - m + 1 ELSE 0
        /\ \A i \in 1..(n - m + 1) : q[i] = sent[m + i - 1]
    BY <1>6, <1>7, SubSeqProperties
  <2> HIDE DEF q
  <2> QED
    BY <1>1, <1>a, <1>6, <2>1
<1>9. /\ p \in Seq(Cells) /\ Len(p) = e - m + 1
      /\ \A i \in 1..(e - m + 1) : p[i] = sent'[m + i - 1]
  <2>1. /\ p \in Seq(Cells) /\ Len(p) = IF m <= e THEN e - m + 1 ELSE 0
        /\ \A i \in 1..(e - m + 1) : p[i] = sent'[m + i - 1]
    BY <1>6, <1>7, SubSeqProperties
  <2> HIDE DEF p
  <2> QED
    BY <1>1, <1>a, <1>6, <2>1
<1> HIDE DEF p, q
<1>10. Len(p) \in (Len(q) + 1)..RingCells
  BY <1>6, <1>8, <1>9
<1>11. SubSeq(p, 1, Len(q)) = q
  <2> DEFINE k == Len(q)
  <2>1. k \in Nat /\ k <= Len(p)
    BY <1>1, <1>a, <1>3, <1>6, <1>8, <1>9
  <2>2. \A i \in 1..k : p[i] \in Cells
    <3>1. \A i \in 1..k : i \in 1..Len(p)
      BY <1>1, <1>a, <1>6, <1>9, <2>1
    <3> QED
      BY <1>9, <3>1, ElementOfSeq
  <2>3. /\ SubSeq(p, 1, k) \in Seq(Cells) /\ Len(SubSeq(p, 1, k)) = IF 1 <= k THEN k - 1 + 1 ELSE 0
        /\ \A i \in 1..(k - 1 + 1) : SubSeq(p, 1, k)[i] = p[1 + i - 1]
    <3>1. k \in Int /\ 1 \in Int
      BY <2>1
    <3> HIDE DEF k
    <3> QED
      BY <2>2, <3>1, SubSeqProperties
  <2>4. ASSUME NEW i \in 1..k PROVE SubSeq(p, 1, k)[i] = q[i]
    <3>1. i \in 1..(k - 1 + 1) /\ 1 + i - 1 = i /\ i \in 1..(n - m + 1) /\ i \in 1..(e - m + 1)
          /\ m + i - 1 \in 1..n
      BY <1>1, <1>a, <1>3, <1>6, <1>8, <2>1
    <3>2. SubSeq(p, 1, k)[i] = p[i]
      BY <2>3, <3>1
    <3>3. p[i] = sent'[m + i - 1] /\ q[i] = sent[m + i - 1]
      BY <1>8, <1>9, <3>1
    <3> QED
      BY <1>5, <3>1, <3>2, <3>3
  <2>5. Len(SubSeq(p, 1, k)) = Len(q)
    BY <2>1, <2>3
  <2> QED
    BY <1>8, <2>3, <2>4, <2>5, SeqEqual
<1> QED
  BY <1>4, <1>5, <1>10, <1>11 DEF Fifo!Push, p, q, m, n

(* The ring, whose room the producer judges by a READ word that may be     *)
(* arbitrarily far behind, is a lossless bounded queue of whole records,   *)
(* for every ring size, every payload length, and across every restart of  *)
(* the daemon: writeBitstreamRecord never overwrites a byte the reader has *)
(* yet to take, and the reader takes what was published, in order.         *)
THEOREM RingImplementsFifo == RingSpec => ImplementsFifo
<1>1. RingInit => Fifo!FifoInit
  <2> SUFFICES ASSUME RingInit PROVE Fifo!FifoInit
    OBVIOUS
  <2>1. sent = <<>> /\ rd.read = 0 /\ took = Blank /\ Len(sent) = 0
    BY DEF RingInit
  <2>2. SubSeq(sent, rd.read + 1, Len(sent)) = <<>>
    BY <2>1, SubSeqEmpty
  <2> QED
    BY <2>1, <2>2 DEF Fifo!FifoInit
<1>2. RingInv /\ [RingNext]_ringVars
        => [Fifo!Push \/ Fifo!Take]_<<SubSeq(sent, rd.read + 1, Len(sent)), took>>
  <2> SUFFICES ASSUME RingInv, [RingNext]_ringVars
               PROVE  [Fifo!Push \/ Fifo!Take]_<<SubSeq(sent, rd.read + 1, Len(sent)), took>>
    OBVIOUS
  <2>1. CASE Consume
    BY <2>1, ConsumeTakes
  <2>2. CASE PublishCtrl
    BY <2>2, PublishPushes
  <2>3. ASSUME ~Consume, ~PublishCtrl
        PROVE  sent' = sent /\ took' = took /\ rd'.read = rd.read
    <3>1. rd \in ReaderStates
      BY DEF RingInv, RingTypeOK, ReaderType
    <3>2. CASE PollCtrl \/ PublishRead \/ PublishFlags
      BY <3>1, <3>2 DEF PollCtrl, PublishRead, PublishFlags, ReaderStates
    <3>3. CASE Space \/ WriteCells \/ Await
      BY <3>3 DEF Space, WriteCells, Await
    <3>4. CASE CallBegin \/ CallControl \/ CallPush \/ ReopenRing
      BY <3>4 DEF CallBegin, CallControl, CallPush, ReopenRing
    <3>5. CASE UNCHANGED ringVars
      BY <3>5 DEF ringVars
    <3> QED
      BY <2>3, <3>2, <3>3, <3>4, <3>5 DEF RingNext, ReaderStep, ProducerStep
  <2> QED
    BY <2>1, <2>2, <2>3
<1> QED
  BY <1>1, <1>2, RingInvariant, PTL DEF RingSpec, ImplementsFifo, Fifo!FifoSpec

--------------------------------------------------------------------------------
(***************************************************************************)
(* The second invariant: as long as no control call timed out, no NAL was  *)
(* pushed into a paused session, no push was refused on flags that lag     *)
(* behind (dirty) and the daemon did not restart, what the reader has yet  *)
(* to take is the rest of one NAL, whole NALs of the producer's session in *)
(* sequence and, last, at most one control record the producer waits for.  *)
(***************************************************************************)
Unharmed == ~dirty /\ restarts = 0

\* The record the producer is about to publish.
RecordBuilt ==
  prod.pc \in {"space", "write", "publish"} =>
    IF prod.ev = "nal"
    THEN /\ prod.active /\ ~prod.paused
         /\ prod.rec[1] = Header("nal", prod.sess, prod.seq, Len(prod.rec) - 1)
         /\ \A k \in 2..Len(prod.rec) : prod.rec[k].ev = "payload"
    ELSE /\ Len(prod.rec) = 1 /\ (prod.ev = "begin") = ~prod.active
         /\ prod.rec[1] = Header(prod.ev, IF prod.active THEN prod.sess ELSE prod.sess + 1, 0, 0)

\* A reader that expects sequence number q and a header at position i finds what it
\* expects: nothing yet, the NAL of that number, or the control record in flight.
Follows(i, q) ==
  \/ i = ctrl + 1 /\ q = prod.seq /\ prod.pc # "await"
  \/ /\ i <= ctrl /\ i + sent[i].len <= ctrl
     /\ sent[i].ev = "nal" /\ sent[i].sess = prod.sess /\ sent[i].seq = q
  \/ i = ctrl /\ q = prod.seq /\ prod.pc = "await"

\* No session: the reader has taken everything.
Closed == ~prod.active /\ prod.pc # "await" /\ rd.read = ctrl /\ rd.left = 0 /\ ~rd.active

\* begin() waits: its record is the only one the reader has not taken, or it is taken.
Opening ==
  /\ ~prod.active /\ prod.pc = "await" /\ prod.ev = "begin" /\ rd.left = 0
  /\ \/ /\ rd.read = ctrl - 1 /\ ~rd.active
        /\ sent[ctrl] = Header("begin", prod.sess + 1, 0, 0)
     \/ rd.read = ctrl /\ rd.active /\ ~rd.paused /\ rd.sess = prod.sess + 1 /\ rd.expect = 0

\* Both are in the session.
Running ==
  /\ prod.active /\ rd.active /\ rd.sess = prod.sess /\ rd.paused = prod.paused
  /\ Follows(rd.read + rd.left + 1, rd.expect)
  /\ \A i \in (rd.read + 1)..ctrl :
       sent[i].ev = "nal" => Follows(i + sent[i].len + 1, sent[i].seq + 1)
  /\ prod.pc = "await" => /\ rd.read < ctrl /\ prod.ev # "begin"
                          /\ sent[ctrl] = Header(prod.ev, prod.sess, 0, 0)
  /\ rd.paused => rd.left = 0 /\ rd.read = (IF prod.pc = "await" THEN ctrl - 1 ELSE ctrl)

\* The control record in flight is taken, and the producer does not know yet.
Taken ==
  /\ prod.active /\ prod.pc = "await" /\ prod.ev # "begin"
  /\ rd.read = ctrl /\ rd.left = 0 /\ rd.expect = prod.seq
  /\ rd.active = (prod.ev # "end")
  /\ rd.active => /\ rd.sess = prod.sess
                  /\ rd.paused = (prod.ev = "pause" \/ (prod.ev = "flush" /\ prod.paused))

Session ==
  /\ ~rd.bad /\ (rd.mode = "header" => rd.left = 0)
  /\ prod.pc \notin {"write", "publish"} => wr = ctrl
  /\ RecordBuilt
  /\ Closed \/ Opening \/ Running \/ Taken

SessionInv == Unharmed => Session

(* What the step lemmas use of the first invariant. *)
LEMMA RingFacts ==
    ASSUME RingInv
    PROVE  /\ ctrl \in Nat /\ wr \in Nat /\ readW \in Nat /\ restarts \in Nat
           /\ rd.read \in Nat /\ rd.write \in Nat /\ rd.left \in Nat /\ rd.expect \in Nat
           /\ rd.read <= ctrl /\ readW <= rd.read
           /\ prod.seq \in Nat /\ prod.sess \in Nat
           /\ \A i \in 1..ctrl : sent[i] \in Cells
<1>1. /\ ctrl \in Nat /\ wr \in Nat /\ readW \in Nat
      /\ rd.read \in Nat /\ rd.write \in Nat /\ rd.left \in Nat /\ rd.expect \in Nat
      /\ prod.seq \in Nat /\ prod.sess \in Nat /\ sent \in Seq(Cells)
  BY DEF RingInv, RingTypeOK, ProdType, WordsType, ReaderType, ReaderStates
<1>2. restarts \in Nat
  <2>1. restarts \in 0..MaxRestarts
    BY DEF RingInv, RingTypeOK
  <2> QED
    BY <2>1
<1>3. rd.read <= rd.write /\ rd.write <= ctrl /\ readW <= rd.read /\ Len(sent) = ctrl
  BY DEF RingInv, CountsInOrder
<1>4. \A i \in 1..ctrl : sent[i] \in Cells
  BY <1>1, <1>3, ElementOfSeq
<1> QED
  BY <1>1, <1>2, <1>3, <1>4

(* A state that is not clean never becomes clean. *)
LEMMA CleanBefore ==
    ASSUME RingInv, [RingNext]_ringVars, Unharmed'
    PROVE  Unharmed
<1>1. restarts \in Nat /\ dirty \in BOOLEAN
  BY RingFacts DEF RingInv, RingTypeOK
<1>2. CASE ReopenRing
  <2>1. restarts' = restarts + 1
    BY <1>2 DEF ReopenRing
  <2> QED
    BY <1>1, <2>1 DEF Unharmed
<1>3. CASE ~ReopenRing
  <2>1. restarts' = restarts
    BY <1>3 DEF RingNext, ReaderStep, ProducerStep, PollCtrl, Consume, PublishRead, PublishFlags, Space,
                WriteCells, PublishCtrl, Await, CallBegin, CallControl, CallPush, ringVars
  <2>2. CASE Await
    BY <2>1, <2>2 DEF Unharmed, Await
  <2>3. CASE CallPush
    BY <2>1, <2>3 DEF Unharmed, CallPush
  <2>4. CASE ~Await /\ ~CallPush
    <3>1. dirty' = dirty
      BY <1>3, <2>4 DEF RingNext, ReaderStep, ProducerStep, PollCtrl, Consume, PublishRead, PublishFlags, Space,
                        WriteCells, PublishCtrl, CallBegin, CallControl, ringVars
    <3> QED
      BY <2>1, <3>1 DEF Unharmed
  <2> QED
    BY <2>2, <2>3, <2>4
<1> QED
  BY <1>2, <1>3

(* Steps that change only words and counts the invariant does not look at. *)
LEMMA SameView ==
    ASSUME Session, UNCHANGED <<prod, wr, ctrl, sent>>,
           rd'.bad = rd.bad, rd'.mode = rd.mode, rd'.left = rd.left, rd'.read = rd.read, rd'.active = rd.active,
           rd'.paused = rd.paused, rd'.sess = rd.sess, rd'.expect = rd.expect
    PROVE  Session'
<1>1. RecordBuilt' /\ (Closed => Closed') /\ (Opening => Opening') /\ (Taken => Taken')
  BY DEF Session, RecordBuilt, Closed, Opening, Taken
<1>2. Running => Running'
  BY DEF Running, Follows
<1> QED
  BY <1>1, <1>2 DEF Session

(* Steps of the producer on its own record, before it is published. *)
LEMMA SamePlace ==
    ASSUME Session, UNCHANGED <<ctrl, sent, rd>>, prod.pc # "await", prod'.pc # "await",
           prod'.active = prod.active, prod'.paused = prod.paused, prod'.sess = prod.sess, prod'.seq = prod.seq,
           RecordBuilt', prod'.pc \notin {"write", "publish"} => wr' = ctrl
    PROVE  Session'
<1>1. ~Opening /\ ~Taken /\ (Closed => Closed')
  BY DEF Closed, Opening, Taken
<1>2. Running => Running'
  BY DEF Running, Follows
<1> QED
  BY <1>1, <1>2 DEF Session

(* The head and the body of the record of a NAL. *)
LEMMA NalRecord ==
    ASSUME NEW s \in Nat, NEW q \in Nat, NEW n \in Nat
    PROVE  LET r == <<Header("nal", s, q, n)>> \o [i \in 1..n |-> Payload(s, q, i)]
           IN  /\ r[1] = Header("nal", s, q, Len(r) - 1)
               /\ \A k \in 2..Len(r) : r[k].ev = "payload"
<1> DEFINE h == <<Header("nal", s, q, n)>>
           b == [i \in 1..n |-> Payload(s, q, i)]
           r == h \o b
<1>1. Len(r) = n + 1
  BY RecordType
<1>2. h \in Seq(Cells) /\ b \in Seq(Cells) /\ Len(h) = 1 /\ Len(b) = n /\ h[1] = Header("nal", s, q, n)
  <2>1. Header("nal", s, q, n) \in Cells
    BY DEF Header, Cells
  <2>2. \A i \in 1..n : Payload(s, q, i) \in Cells
    BY DEF Payload, Cells
  <2>3. b \in [1..n -> Cells]
    BY <2>2
  <2> QED
    BY <2>1, <2>3
<1>3. \A i \in 1..n : b[i].ev = "payload"
  BY DEF Payload
<1> HIDE DEF h, b
<1>4. \A i \in 1..(Len(h) + Len(b)) : r[i] = IF i <= Len(h) THEN h[i] ELSE b[i - Len(h)]
  BY <1>2, ConcatProperties
<1> HIDE DEF r
<1>5. r[1] = Header("nal", s, q, Len(r) - 1)
  <2>1. r[1] = h[1] /\ Len(r) - 1 = n
    BY <1>1, <1>2, <1>4
  <2> QED
    BY <1>2, <2>1
<1>6. ASSUME NEW k \in 2..Len(r) PROVE r[k].ev = "payload"
  <2>1. k \in 1..(Len(h) + Len(b)) /\ ~(k <= Len(h)) /\ k - Len(h) \in 1..n
    BY <1>1, <1>2
  <2>2. r[k] = b[k - Len(h)]
    BY <1>4, <2>1
  <2> QED
    BY <1>3, <2>1, <2>2
<1> QED
  BY <1>5, <1>6 DEF r, h, b

LEMMA CallSession ==
    ASSUME RingInv, Session, CallBegin \/ CallControl \/ CallPush, ~dirty'
    PROVE  Session'
<1>1. /\ prod.pc = "idle" /\ UNCHANGED <<wr, ctrl, sent, rd>> /\ wr = ctrl
      /\ ProdType /\ prod.sess \in Nat /\ prod.seq \in Nat
  BY DEF Session, CallBegin, CallControl, CallPush, Calling, RingInv, RingTypeOK, ProdType
<1>2. CASE CallBegin
  <2> DEFINE r == <<Header("begin", prod.sess + 1, 0, 0)>>
  <2>1. Len(r) = 1 /\ r[1] = Header("begin", prod.sess + 1, 0, 0) /\ ~prod.active
    BY <1>2 DEF CallBegin
  <2>2. prod' = [prod EXCEPT !.pc = "space", !.ev = "begin", !.rec = r]
    BY <1>2 DEF CallBegin
  <2> HIDE DEF r
  <2>3. /\ prod'.pc = "space" /\ prod'.ev = "begin" /\ prod'.rec = r /\ prod'.active = prod.active
        /\ prod'.paused = prod.paused /\ prod'.sess = prod.sess /\ prod'.seq = prod.seq
    BY <1>1, <2>2 DEF ProdType
  <2>4. RecordBuilt'
    BY <2>1, <2>3 DEF RecordBuilt
  <2> QED
    BY <1>1, <2>3, <2>4, SamePlace
<1>3. CASE CallControl
  <2>1. PICK ev \in Controls \ {"begin"} :
          prod' = [prod EXCEPT !.pc = "space", !.ev = ev, !.rec = <<Header(ev, prod.sess, 0, 0)>>]
    BY <1>3 DEF CallControl
  <2> DEFINE r == <<Header(ev, prod.sess, 0, 0)>>
  <2>2. Len(r) = 1 /\ r[1] = Header(ev, prod.sess, 0, 0) /\ prod.active /\ ev # "nal"
    BY <1>3 DEF CallControl, Controls
  <2>a. prod' = [prod EXCEPT !.pc = "space", !.ev = ev, !.rec = r]
    BY <2>1
  <2> HIDE DEF r
  <2>3. /\ prod'.pc = "space" /\ prod'.ev = ev /\ prod'.rec = r /\ prod'.active = prod.active
        /\ prod'.paused = prod.paused /\ prod'.sess = prod.sess /\ prod'.seq = prod.seq
    BY <1>1, <2>a DEF ProdType
  <2>4. RecordBuilt'
    BY <2>2, <2>3 DEF RecordBuilt
  <2> QED
    BY <1>1, <2>3, <2>4, SamePlace
<1>4. CASE CallPush
  <2>1. prod.active /\ Running
    BY <1>1, <1>4 DEF CallPush, Session, Closed, Opening, Taken
  <2>2. ~Stale /\ ~prod.paused
    BY <1>4, <2>1 DEF CallPush, Running
  <2>3. PICK n \in Lengths :
          prod' = [prod EXCEPT !.pc = "space", !.ev = "nal",
                     !.rec = <<Header("nal", prod.sess, prod.seq, n)>>
                             \o [i \in 1..n |-> Payload(prod.sess, prod.seq, i)]]
    BY <1>4, <2>2 DEF CallPush
  <2> DEFINE r == <<Header("nal", prod.sess, prod.seq, n)>>
                  \o [i \in 1..n |-> Payload(prod.sess, prod.seq, i)]
  <2>4. n \in Nat
    BY RingAssumption
  <2>5. r[1] = Header("nal", prod.sess, prod.seq, Len(r) - 1) /\ \A k \in 2..Len(r) : r[k].ev = "payload"
    BY <1>1, <2>4, NalRecord
  <2>6. prod' = [prod EXCEPT !.pc = "space", !.ev = "nal", !.rec = r]
    BY <2>3
  <2> HIDE DEF r
  <2>7. /\ prod'.pc = "space" /\ prod'.ev = "nal" /\ prod'.rec = r /\ prod'.active = prod.active
        /\ prod'.paused = prod.paused /\ prod'.sess = prod.sess /\ prod'.seq = prod.seq
    BY <1>1, <2>6 DEF ProdType
  <2>8. RecordBuilt'
    BY <2>1, <2>2, <2>5, <2>7 DEF RecordBuilt
  <2> QED
    BY <1>1, <2>7, <2>8, SamePlace
<1> QED
  BY <1>2, <1>3, <1>4

LEMMA SpaceSession ==
    ASSUME RingInv, Session, Space \/ WriteCells
    PROVE  Session'
<1>1. ProdType /\ prod.pc \in {"space", "write"} /\ UNCHANGED <<ctrl, sent, rd>>
  BY DEF RingInv, RingTypeOK, Space, WriteCells
<1>2. CASE Space
  <2>1. wr' = wr /\ wr = ctrl
    BY <1>2 DEF Space, Session
  <2>2. /\ prod'.pc \in {"idle", "write"} /\ prod'.active = prod.active
        /\ prod'.paused = prod.paused /\ prod'.sess = prod.sess /\ prod'.seq = prod.seq
        /\ prod'.pc = "write" => prod'.rec = prod.rec /\ prod'.ev = prod.ev
    BY <1>1, <1>2 DEF Space, Idle, ProdType
  <2>3. RecordBuilt'
    BY <1>2, <2>2 DEF Session, RecordBuilt, Space
  <2> QED
    BY <1>1, <2>1, <2>2, <2>3, SamePlace
<1>3. CASE WriteCells
  <2>1. prod' = [prod EXCEPT !.pc = "publish"]
    BY <1>3 DEF WriteCells
  <2>2. /\ prod'.pc = "publish" /\ prod'.active = prod.active /\ prod'.rec = prod.rec /\ prod'.ev = prod.ev
        /\ prod'.paused = prod.paused /\ prod'.sess = prod.sess /\ prod'.seq = prod.seq
    BY <1>1, <2>1 DEF ProdType
  <2>3. RecordBuilt'
    BY <1>1, <2>2 DEF Session, RecordBuilt
  <2> QED
    BY <1>1, <2>2, <2>3, SamePlace
<1> QED
  BY <1>2, <1>3

(* What publishing a record does to the stream. *)
LEMMA Published ==
    ASSUME RingInv, PublishCtrl
    PROVE  /\ ctrl' = ctrl + Len(prod.rec) /\ Len(prod.rec) \in Nat \ {0} /\ wr' = ctrl' /\ rd' = rd
           /\ prod.pc = "publish" /\ prod.ev \in Controls \cup {"nal"}
           /\ \A i \in 1..ctrl : sent'[i] = sent[i]
           /\ \A i \in (ctrl + 1)..(ctrl + Len(prod.rec)) : sent'[i] = prod.rec[i - ctrl]
<1> DEFINE L == Len(prod.rec)
<1>1. /\ prod.rec \in Seq(Cells) /\ L \in Nat /\ L > 0 /\ sent \in Seq(Cells) /\ Len(sent) = ctrl /\ ctrl \in Nat
      /\ wr = ctrl + L /\ ctrl' = wr /\ wr' = wr /\ rd' = rd /\ sent' = sent \o prod.rec
      /\ prod.pc = "publish" /\ prod.ev \in Controls \cup {"nal"}
  BY LenProperties DEF RingInv, RingTypeOK, ProdType, WordsType, WriteCount, CountsInOrder, PublishCtrl
<1>2. \A i \in 1..(Len(sent) + L) :
        (sent \o prod.rec)[i] = IF i <= Len(sent) THEN sent[i] ELSE prod.rec[i - Len(sent)]
  BY <1>1, ConcatProperties
<1> HIDE DEF L
<1>3. \A i \in 1..ctrl : sent'[i] = sent[i]
  BY <1>1, <1>2
<1>4. ASSUME NEW i \in (ctrl + 1)..(ctrl + L) PROVE sent'[i] = prod.rec[i - ctrl]
  <2>1. i \in 1..(Len(sent) + L) /\ ~(i <= Len(sent))
    BY <1>1
  <2>2. (sent \o prod.rec)[i] = prod.rec[i - Len(sent)]
    BY <1>2, <2>1
  <2> QED
    BY <1>1, <2>2
<1>5. L \in Nat \ {0}
  BY <1>1
<1> QED
  BY <1>1, <1>3, <1>4, <1>5 DEF L

(* A published record comes where the reader's next header is due. *)
LEMMA PublishSession ==
    ASSUME RingInv, Session, PublishCtrl
    PROVE  Session'
<1> DEFINE L == Len(prod.rec)
<1>1. /\ ctrl' = ctrl + L /\ L \in Nat \ {0} /\ wr' = ctrl' /\ rd' = rd
      /\ prod.pc = "publish" /\ prod.ev \in Controls \cup {"nal"}
      /\ \A i \in 1..ctrl : sent'[i] = sent[i]
      /\ \A i \in (ctrl + 1)..(ctrl + L) : sent'[i] = prod.rec[i - ctrl]
  BY Published
<1>2. /\ ctrl \in Nat /\ rd.read \in Nat /\ rd.left \in Nat /\ rd.expect \in Nat /\ rd.read <= ctrl
      /\ prod.seq \in Nat /\ prod.sess \in Nat
      /\ \A i \in 1..ctrl : sent[i] \in Cells
  BY RingFacts
<1>3. ProdType /\ RecordBuilt /\ (Closed \/ Running)
  BY <1>1 DEF RingInv, RingTypeOK, Session, Opening, Taken
<1>4. sent'[ctrl + 1] = prod.rec[1]
  <2>1. ctrl + 1 \in (ctrl + 1)..(ctrl + L) /\ (ctrl + 1) - ctrl = 1
    BY <1>1, <1>2
  <2> QED
    BY <1>1, <2>1
<1> HIDE DEF L
<1>5. CASE prod.ev = "nal"
  <2>1. /\ prod'.pc = "idle" /\ prod'.seq = prod.seq + 1 /\ prod'.active = prod.active
        /\ prod'.paused = prod.paused /\ prod'.sess = prod.sess
    BY <1>3, <1>5 DEF PublishCtrl, Idle, ProdType
  <2>2. /\ prod.active /\ ~prod.paused /\ Running
        /\ prod.rec[1] = Header("nal", prod.sess, prod.seq, L - 1)
        /\ \A k \in 2..L : prod.rec[k].ev = "payload"
    BY <1>1, <1>3, <1>5 DEF RecordBuilt, Closed, L
  <2>3. /\ sent'[ctrl + 1].ev = "nal" /\ sent'[ctrl + 1].sess = prod.sess
        /\ sent'[ctrl + 1].seq = prod.seq /\ sent'[ctrl + 1].len = L - 1
    BY <1>4, <2>2 DEF Header
  <2>4. ASSUME NEW i \in Nat \ {0}, NEW q, Follows(i, q)
        PROVE  /\ i <= ctrl' /\ i + sent'[i].len <= ctrl' /\ sent'[i].ev = "nal"
               /\ sent'[i].sess = prod.sess /\ sent'[i].seq = q
    <3>1. CASE i = ctrl + 1 /\ q = prod.seq
      <4>1. ctrl + 1 <= ctrl' /\ ctrl + 1 + (L - 1) <= ctrl'
        BY <1>1, <1>2
      <4> QED
        BY <2>3, <3>1, <4>1
    <3>2. CASE /\ i <= ctrl /\ i + sent[i].len <= ctrl
               /\ sent[i].ev = "nal" /\ sent[i].sess = prod.sess /\ sent[i].seq = q
      <4>1. i \in 1..ctrl
        BY <1>2, <3>2
      <4>2. sent'[i] = sent[i] /\ sent[i].len \in Nat
        BY <1>1, <1>2, <4>1 DEF Cells
      <4>3. i <= ctrl' /\ i + sent[i].len <= ctrl'
        BY <1>1, <1>2, <3>2, <4>2
      <4> QED
        BY <3>2, <4>2, <4>3
    <3> QED
      BY <1>1, <2>4, <3>1, <3>2 DEF Follows
  <2>5. Follows(rd.read + rd.left + 1, rd.expect)'
    <3>1. rd.read + rd.left + 1 \in Nat \ {0} /\ Follows(rd.read + rd.left + 1, rd.expect)
      BY <1>2, <2>2 DEF Running
    <3> QED
      BY <1>1, <2>1, <2>4, <3>1 DEF Follows
  <2>6. ASSUME NEW i \in (rd.read + 1)..ctrl', sent'[i].ev = "nal"
        PROVE  Follows(i + sent[i].len + 1, sent[i].seq + 1)'
    <3>1. CASE i <= ctrl
      <4>1. i \in 1..ctrl /\ i \in (rd.read + 1)..ctrl
        BY <1>2, <3>1
      <4>2. sent'[i] = sent[i] /\ sent[i].len \in Nat
        BY <1>1, <1>2, <4>1 DEF Cells
      <4> DEFINE j == i + sent[i].len + 1
                 q == sent[i].seq + 1
      <4>3. Follows(j, q)
        BY <2>2, <2>6, <4>1, <4>2 DEF Running
      <4>4. j \in Nat \ {0}
        BY <4>1, <4>2
      <4>5. i + sent'[i].len + 1 = j /\ sent'[i].seq + 1 = q
        BY <4>2
      <4> HIDE DEF j, q
      <4>6. /\ j <= ctrl' /\ j + sent'[j].len <= ctrl' /\ sent'[j].ev = "nal"
            /\ sent'[j].sess = prod.sess /\ sent'[j].seq = q
        BY <2>4, <4>3, <4>4
      <4> QED
        BY <2>1, <4>5, <4>6 DEF Follows
    <3>2. CASE i = ctrl + 1
      <4>1. i + sent'[i].len + 1 = ctrl' + 1 /\ sent'[i].seq + 1 = prod'.seq
        BY <1>1, <1>2, <2>1, <2>3, <3>2
      <4> QED
        BY <2>1, <4>1 DEF Follows
    <3>3. CASE i > ctrl + 1
      <4>1. i \in (ctrl + 1)..(ctrl + L) /\ i - ctrl \in 2..L
        BY <1>1, <1>2, <3>3
      <4> QED
        BY <1>1, <2>2, <2>6, <4>1
    <3> QED
      BY <1>2, <3>1, <3>2, <3>3
  <2>7. Running'
    <3>1. ~rd.paused /\ rd.active /\ rd.sess = prod.sess /\ rd.paused = prod.paused
      BY <2>2 DEF Running
    <3> QED
      BY <1>1, <2>1, <2>2, <2>5, <2>6, <3>1 DEF Running
  <2> QED
    BY <1>1, <2>1, <2>7 DEF Session, RecordBuilt
<1>6. CASE prod.ev # "nal"
  <2>1. /\ prod'.pc = "await" /\ prod'.seq = prod.seq /\ prod'.active = prod.active /\ prod'.ev = prod.ev
        /\ prod'.paused = prod.paused /\ prod'.sess = prod.sess
    BY <1>3, <1>6 DEF PublishCtrl, ProdType
  <2>2. /\ L = 1 /\ (prod.ev = "begin") = ~prod.active
        /\ prod.rec[1] = Header(prod.ev, IF prod.active THEN prod.sess ELSE prod.sess + 1, 0, 0)
    BY <1>1, <1>3, <1>6 DEF RecordBuilt, L
  <2>3. ctrl' = ctrl + 1 /\ sent'[ctrl'] = prod.rec[1] /\ sent'[ctrl'].ev # "nal" /\ ctrl' \in Nat
    <3>1. ctrl' = ctrl + 1 /\ sent'[ctrl'] = prod.rec[1] /\ ctrl' \in Nat
      BY <1>1, <1>2, <1>4, <2>2
    <3> QED
      BY <1>6, <2>2, <3>1 DEF Header
  <2>4. CASE Closed
    <3>1. ctrl' - 1 = ctrl
      BY <1>2, <2>3
    <3>2. Opening'
      BY <1>1, <2>1, <2>2, <2>3, <2>4, <3>1 DEF Opening, Closed
    <3> QED
      BY <1>1, <2>1, <3>2 DEF Session, RecordBuilt
  <2>5. CASE Running
    <3>1. ASSUME NEW i \in Nat \ {0}, NEW q, Follows(i, q)
          PROVE  \/ /\ i <= ctrl' /\ i + sent'[i].len <= ctrl' /\ sent'[i].ev = "nal"
                    /\ sent'[i].sess = prod.sess /\ sent'[i].seq = q
                 \/ i = ctrl' /\ q = prod.seq
      <4>1. CASE i = ctrl + 1 /\ q = prod.seq
        BY <2>3, <4>1
      <4>2. CASE /\ i <= ctrl /\ i + sent[i].len <= ctrl
                 /\ sent[i].ev = "nal" /\ sent[i].sess = prod.sess /\ sent[i].seq = q
        <5>1. i \in 1..ctrl
          BY <1>2, <4>2
        <5>2. sent'[i] = sent[i] /\ sent[i].len \in Nat
          BY <1>1, <1>2, <5>1 DEF Cells
        <5>3. i <= ctrl' /\ i + sent[i].len <= ctrl'
          BY <1>2, <2>3, <4>2, <5>2
        <5> QED
          BY <4>2, <5>2, <5>3
      <4> QED
        BY <1>1, <3>1, <4>1, <4>2 DEF Follows
    <3>2. Follows(rd.read + rd.left + 1, rd.expect)'
      <4>1. rd.read + rd.left + 1 \in Nat \ {0} /\ Follows(rd.read + rd.left + 1, rd.expect)
        BY <1>2, <2>5 DEF Running
      <4> QED
        BY <1>1, <2>1, <3>1, <4>1 DEF Follows
    <3>3. ASSUME NEW i \in (rd.read + 1)..ctrl', sent'[i].ev = "nal"
          PROVE  Follows(i + sent[i].len + 1, sent[i].seq + 1)'
      <4>1. i \in 1..ctrl /\ i \in (rd.read + 1)..ctrl
        <5>1. i # ctrl'
          BY <2>3, <3>3
        <5> QED
          BY <1>2, <2>3, <5>1
      <4>2. sent'[i] = sent[i] /\ sent[i].len \in Nat
        BY <1>1, <1>2, <4>1 DEF Cells
      <4> DEFINE j == i + sent[i].len + 1
                 q == sent[i].seq + 1
      <4>3. Follows(j, q)
        BY <2>5, <3>3, <4>1, <4>2 DEF Running
      <4>4. j \in Nat \ {0}
        BY <4>1, <4>2
      <4>5. i + sent'[i].len + 1 = j /\ sent'[i].seq + 1 = q
        BY <4>2
      <4> HIDE DEF j, q
      <4>6. \/ /\ j <= ctrl' /\ j + sent'[j].len <= ctrl' /\ sent'[j].ev = "nal"
               /\ sent'[j].sess = prod.sess /\ sent'[j].seq = q
            \/ j = ctrl' /\ q = prod.seq
        BY <3>1, <4>3, <4>4
      <4> QED
        BY <2>1, <4>5, <4>6 DEF Follows
    <3>4. Running'
      <4>1. /\ prod.active /\ rd.active /\ rd.sess = prod.sess /\ rd.paused = prod.paused
            /\ rd.paused => rd.left = 0 /\ rd.read = ctrl
        BY <1>1, <2>5 DEF Running
      <4>2. ctrl' - 1 = ctrl /\ rd.read < ctrl'
        BY <1>2, <2>3
      <4> QED
        BY <1>1, <2>1, <2>2, <2>3, <3>2, <3>3, <4>1, <4>2 DEF Running
    <3> QED
      BY <1>1, <2>1, <3>4 DEF Session, RecordBuilt
  <2> QED
    BY <1>3, <2>4, <2>5
<1> QED
  BY <1>5, <1>6

(* A control call that returns in time finds its record taken. *)
LEMMA AwaitSession ==
    ASSUME RingInv, Session, Await, ~dirty'
    PROVE  Session'
<1>1. /\ prod.pc = "await" /\ ProdType /\ prod.ev \in Controls /\ readW >= wr /\ prod' = Completed(prod)
      /\ UNCHANGED <<wr, ctrl, sent, rd>>
  BY DEF Await, RingInv, RingTypeOK, WriteCount
<1>2. /\ ctrl \in Nat /\ wr \in Nat /\ readW \in Nat /\ rd.read \in Nat /\ rd.left \in Nat
      /\ rd.read <= ctrl /\ readW <= rd.read /\ prod.sess \in Nat
  BY RingFacts
<1>3. wr = ctrl
  BY <1>1 DEF Session
<1>4. rd.read = ctrl /\ ~(rd.read < ctrl) /\ rd.read # ctrl - 1
  BY <1>1, <1>2, <1>3
<1>5. ~Closed /\ ~Running
  BY <1>1, <1>4 DEF Closed, Running
<1>6. CASE Opening
  <2>1. /\ ~prod.active /\ prod.ev = "begin" /\ rd.left = 0 /\ rd.active /\ rd.paused = FALSE
        /\ rd.sess = prod.sess + 1 /\ rd.expect = 0
    <3>1. rd.paused \in BOOLEAN
      BY DEF RingInv, RingTypeOK, ReaderType, ReaderStates
    <3> QED
      BY <1>4, <1>6, <3>1 DEF Opening
  <2>2. prod' = [Idle(prod) EXCEPT !.active = TRUE, !.paused = FALSE, !.sess = @ + 1, !.seq = 0]
    BY <1>1, <2>1 DEF Completed
  <2>3. prod'.pc = "idle" /\ prod'.active = TRUE /\ prod'.paused = FALSE /\ prod'.sess = prod.sess + 1 /\ prod'.seq = 0
    BY <1>1, <2>2 DEF Idle, ProdType
  <2>4. Follows(rd.read + rd.left + 1, rd.expect)'
    <3>1. rd.read + rd.left + 1 = ctrl + 1
      BY <1>2, <1>4, <2>1
    <3> QED
      BY <1>1, <2>1, <2>3, <3>1 DEF Follows
  <2>5. (rd.read + 1)..ctrl = {}
    BY <1>2, <1>4
  <2>6. Running'
    BY <1>1, <1>4, <2>1, <2>3, <2>4, <2>5 DEF Running
  <2> QED
    BY <1>1, <1>3, <2>3, <2>6 DEF Session, RecordBuilt
<1>7. CASE Taken
  <2>1. /\ prod.active /\ prod.ev # "begin" /\ rd.left = 0 /\ rd.expect = prod.seq
        /\ rd.active = (prod.ev # "end")
        /\ rd.active => /\ rd.sess = prod.sess
                        /\ rd.paused = (prod.ev = "pause" \/ (prod.ev = "flush" /\ prod.paused))
    BY <1>7 DEF Taken
  <2>2. prod'.pc = "idle" /\ prod'.sess = prod.sess /\ prod'.seq = prod.seq
    BY <1>1, <2>1 DEF Completed, Idle, ProdType, Controls
  <2>3. CASE prod.ev = "end"
    <3>1. prod' = [Idle(prod) EXCEPT !.active = FALSE, !.paused = FALSE]
      BY <1>1, <2>3 DEF Completed
    <3>2. prod'.active = FALSE
      BY <1>1, <3>1 DEF Idle, ProdType
    <3>3. Closed'
      BY <1>1, <1>4, <2>1, <2>2, <2>3, <3>2 DEF Closed
    <3> QED
      BY <1>1, <1>3, <2>2, <3>3 DEF Session, RecordBuilt
  <2>4. CASE prod.ev \in {"pause", "resume", "flush"}
    <3>1. prod'.active = prod.active
      BY <1>1, <2>4 DEF Completed, Idle, ProdType
    <3>2. prod'.paused = rd.paused
      <4>1. CASE prod.ev = "pause"
        BY <1>1, <2>1, <4>1 DEF Completed, Idle, ProdType
      <4>2. CASE prod.ev = "resume"
        BY <1>1, <2>1, <4>2 DEF Completed, Idle, ProdType
      <4>3. CASE prod.ev = "flush"
        BY <1>1, <2>1, <4>3 DEF Completed, Idle, ProdType
      <4> QED
        BY <2>4, <4>1, <4>2, <4>3
    <3>3. Follows(rd.read + rd.left + 1, rd.expect)'
      <4>1. rd.read + rd.left + 1 = ctrl + 1
        BY <1>2, <1>4, <2>1
      <4> QED
        BY <1>1, <2>1, <2>2, <4>1 DEF Follows
    <3>4. (rd.read + 1)..ctrl = {}
      BY <1>2, <1>4
    <3>5. Running'
      BY <1>1, <1>4, <2>1, <2>2, <2>4, <3>1, <3>2, <3>3, <3>4 DEF Running
    <3> QED
      BY <1>1, <1>3, <2>2, <3>5 DEF Session, RecordBuilt
  <2> QED
    BY <1>1, <2>1, <2>3, <2>4 DEF Controls
<1> QED
  BY <1>5, <1>6, <1>7 DEF Session

(* The reader takes the next cell and finds what it expects. *)
LEMMA ConsumeSession ==
    ASSUME RingInv, Session, Consume
    PROVE  Session'
<1> DEFINE i == rd.read + 1
           c == sent[i]
           r == [rd EXCEPT !.read = @ + 1, !.due = TRUE]
<1>1. /\ ctrl \in Nat /\ rd.read \in Nat /\ rd.left \in Nat /\ rd.expect \in Nat /\ rd.read <= ctrl
      /\ prod.seq \in Nat /\ prod.sess \in Nat /\ rd \in ReaderStates
  BY RingFacts DEF RingInv, RingTypeOK, ReaderType
<1>2. /\ UNCHANGED <<prod, wr, ctrl, sent>> /\ rd'.read = i
      /\ rd' = IF rd.mode = "header" THEN TakeHeader(r, c) ELSE TakeBody(r)
  BY Consumed, CellTaken DEF Consume
<1>3. c \in Cells /\ c # Blank /\ i \in 1..ctrl /\ c.len \in Nat /\ rd.read < ctrl
  <2>1. c \in Cells /\ i \in 1..Len(sent) /\ Len(sent) = ctrl
    BY CellTaken DEF RingInv, CountsInOrder
  <2>2. rd.read < ctrl
    BY <1>1, <2>1
  <2> QED
    BY <2>1, <2>2, BlankAssumption DEF Cells
<1>4. /\ r \in ReaderStates /\ r.read = i /\ r.active = rd.active /\ r.paused = rd.paused /\ r.sess = rd.sess
      /\ r.expect = rd.expect /\ r.left = rd.left /\ r.mode = rd.mode /\ r.bad = rd.bad
  <2>1. rd.read + 1 \in Nat
    BY <1>1
  <2> QED
    BY <1>1, <2>1 DEF ReaderStates
<1>5. ~Closed /\ ~Taken
  BY <1>1, <1>3 DEF Closed, Taken
<1>6. rd.bad = FALSE /\ (rd.mode = "header" => rd.left = 0) /\ RecordBuilt' /\ (rd.mode # "header" => rd.left > 0)
  <2>1. rd.bad \in BOOLEAN
    BY <1>1 DEF ReaderStates
  <2> QED
    BY <1>2, <2>1 DEF Session, RecordBuilt, RingInv, RingTypeOK, ReaderType
<1>7. prod'.pc \notin {"write", "publish"} => wr' = ctrl'
  BY <1>2 DEF Session
<1> HIDE DEF r, c
<1>8. CASE Opening
  <2>1. /\ ~prod.active /\ prod.pc = "await" /\ prod.ev = "begin" /\ rd.left = 0 /\ ~rd.active
        /\ i = ctrl /\ c = Header("begin", prod.sess + 1, 0, 0)
    <3>1. rd.read # ctrl
      BY <1>1, <1>3
    <3>2. rd.read = ctrl - 1 /\ i = ctrl
      BY <1>1, <1>8, <3>1 DEF Opening
    <3> QED
      BY <1>8, <3>1, <3>2 DEF Opening, c
  <2>2. rd.mode = "header" /\ c.ev = "begin" /\ c.sess = prod.sess + 1
    BY <1>6, <2>1 DEF Header
  <2>3. rd' = [r EXCEPT !.active = TRUE, !.paused = FALSE, !.sess = c.sess, !.expect = 0]
    BY <1>2, <1>3, <2>1, <2>2 DEF TakeHeader
  <2>4. /\ rd'.active = TRUE /\ rd'.paused = FALSE /\ rd'.sess = prod.sess + 1 /\ rd'.expect = 0
        /\ rd'.left = 0 /\ rd'.bad = FALSE
    BY <1>4, <1>6, <2>1, <2>2, <2>3 DEF ReaderStates
  <2>5. Opening'
    BY <1>2, <2>1, <2>4 DEF Opening
  <2> QED
    BY <1>6, <1>7, <2>4, <2>5 DEF Session
<1>9. CASE Running
  <2>1. /\ prod.active /\ rd.active /\ rd.sess = prod.sess /\ rd.paused = prod.paused
        /\ Follows(rd.read + rd.left + 1, rd.expect)
        /\ \A j \in (rd.read + 1)..ctrl : sent[j].ev = "nal" => Follows(j + sent[j].len + 1, sent[j].seq + 1)
        /\ prod.pc = "await" => /\ prod.ev # "begin" /\ sent[ctrl] = Header(prod.ev, prod.sess, 0, 0)
        /\ rd.paused => rd.left = 0 /\ prod.pc = "await" /\ i = ctrl
    <3>1. ASSUME rd.paused PROVE rd.left = 0 /\ prod.pc = "await" /\ i = ctrl
      <4>1. rd.left = 0 /\ rd.read = (IF prod.pc = "await" THEN ctrl - 1 ELSE ctrl)
        BY <1>9, <3>1 DEF Running
      <4>2. rd.read # ctrl
        BY <1>1, <1>3
      <4>3. prod.pc = "await" /\ rd.read = ctrl - 1
        BY <4>1, <4>2
      <4> QED
        BY <1>1, <4>1, <4>3
    <3> QED
      BY <1>9, <3>1 DEF Running
  <2>2. prod.pc = "await" => prod.ev \in Controls /\ prod.ev # "nal" /\ sent[ctrl].ev = prod.ev
    BY <2>1 DEF RingInv, WriteCount, Header, Controls
  <2>3. \A j \in (i + 1)..ctrl : sent[j].ev = "nal" => Follows(j + sent[j].len + 1, sent[j].seq + 1)
    <3>1. \A j \in (i + 1)..ctrl : j \in (rd.read + 1)..ctrl
      BY <1>1
    <3> QED
      BY <2>1, <3>1
  <2>4. ASSUME NEW k, NEW q, Follows(k, q) PROVE Follows(k, q)'
    BY <1>2, <2>4 DEF Follows
  <2>a. \A j \in (i + 1)..ctrl : sent[j].ev = "nal" => Follows(j + sent[j].len + 1, sent[j].seq + 1)'
    <3>1. ASSUME NEW j \in (i + 1)..ctrl, sent[j].ev = "nal"
          PROVE  Follows(j + sent[j].len + 1, sent[j].seq + 1)'
      <4>1. Follows(j + sent[j].len + 1, sent[j].seq + 1)
        BY <2>3, <3>1
      <4> QED
        BY <1>2, <4>1 DEF Follows
    <3> QED
      BY <3>1
  <2>5. CASE rd.mode = "header" /\ c.ev = "nal"
    <3>1. i + c.len <= ctrl /\ c.sess = prod.sess /\ c.seq = rd.expect
      <4>1. rd.read + rd.left + 1 = i /\ i <= ctrl /\ i # ctrl + 1
        BY <1>1, <1>3, <1>6, <2>5
      <4>2. Follows(i, rd.expect)
        BY <2>1, <4>1
      <4>3. ~(i = ctrl /\ prod.pc = "await")
        BY <2>2, <2>5 DEF c
      <4> QED
        BY <4>1, <4>2, <4>3 DEF Follows, c
    <3>2. i # ctrl \/ prod.pc # "await"
      BY <2>2, <2>5 DEF c
    <3>3. rd.paused = FALSE
      <4>1. rd.paused \in BOOLEAN
        BY <1>1 DEF ReaderStates
      <4> QED
        BY <2>1, <3>2, <4>1
    <3>4. rd' = [r EXCEPT !.expect = @ + 1, !.left = c.len, !.mode = IF c.len > 0 THEN "payload" ELSE "header"]
      BY <1>2, <1>3, <2>1, <2>5, <3>1, <3>3 DEF TakeHeader, Own
    <3>5. /\ rd'.active = rd.active /\ rd'.paused = FALSE /\ rd'.sess = rd.sess /\ rd'.expect = c.seq + 1
          /\ rd'.left = c.len /\ rd'.bad = FALSE /\ rd'.mode = IF c.len > 0 THEN "payload" ELSE "header"
      BY <1>4, <1>6, <3>1, <3>3, <3>4 DEF ReaderStates
    <3>6. rd'.mode = "header" => rd'.left = 0
      BY <1>3, <3>5
    <3>7. Follows(rd.read + rd.left + 1, rd.expect)'
      <4>1. i \in (rd.read + 1)..ctrl
        BY <1>1, <1>3
      <4>2. Follows(i + c.len + 1, c.seq + 1)
        BY <2>1, <2>5, <4>1 DEF c
      <4> QED
        BY <1>2, <2>4, <3>5, <4>2 DEF Follows
    <3>8. Running'
      <4>1. i < ctrl \/ prod.pc # "await"
        BY <1>1, <1>3, <3>2
      <4> QED
        BY <1>2, <2>1, <2>a, <3>3, <3>5, <3>7, <4>1 DEF Running
    <3> QED
      BY <1>6, <1>7, <3>5, <3>6, <3>8 DEF Session
  <2>6. CASE rd.mode = "header" /\ c.ev # "nal"
    <3>1. i = ctrl /\ prod.pc = "await" /\ rd.expect = prod.seq
      <4>1. rd.read + rd.left + 1 = i /\ i <= ctrl /\ i # ctrl + 1
        BY <1>1, <1>3, <1>6, <2>6
      <4>2. Follows(i, rd.expect)
        BY <2>1, <4>1
      <4> QED
        BY <2>6, <4>1, <4>2 DEF Follows, c
    <3>2. /\ c = Header(prod.ev, prod.sess, 0, 0) /\ c.ev = prod.ev /\ c.sess = prod.sess
          /\ prod.ev \in {"flush", "end", "pause", "resume"}
      BY <2>1, <2>2, <3>1 DEF c, Header, Controls
    <3>3. rd' = CASE prod.ev = "end" -> [r EXCEPT !.active = FALSE, !.paused = FALSE]
                  [] prod.ev = "pause" -> [r EXCEPT !.paused = TRUE]
                  [] prod.ev = "resume" -> [r EXCEPT !.paused = FALSE]
                  [] prod.ev = "flush" -> r
      BY <1>2, <1>3, <2>1, <2>6, <3>2 DEF TakeHeader, Own
    <3>4. rd'.left = 0 /\ rd'.bad = FALSE /\ rd'.expect = rd.expect /\ rd'.sess = rd.sess
      BY <1>4, <1>6, <2>6, <3>2, <3>3 DEF ReaderStates
    <3>5. rd'.active = (prod.ev # "end")
      <4>1. rd.active = TRUE
        BY <1>1, <2>1 DEF ReaderStates
      <4>2. CASE prod.ev = "end"
        BY <1>4, <3>3, <4>2 DEF ReaderStates
      <4>3. CASE prod.ev # "end"
        BY <1>4, <3>2, <3>3, <4>1, <4>3 DEF ReaderStates
      <4> QED
        BY <4>2, <4>3
    <3>6. prod.ev # "end" => rd'.paused = (prod.ev = "pause" \/ (prod.ev = "flush" /\ prod.paused))
      <4>1. CASE prod.ev = "pause"
        BY <1>4, <3>3, <4>1 DEF ReaderStates
      <4>2. CASE prod.ev = "resume"
        BY <1>4, <3>3, <4>2 DEF ReaderStates
      <4>3. CASE prod.ev = "flush"
        <5>1. rd' = r /\ rd.paused \in BOOLEAN
          BY <1>1, <3>3, <4>3 DEF ReaderStates
        <5> QED
          BY <1>4, <2>1, <4>3, <5>1
      <4> QED
        BY <3>2, <4>1, <4>2, <4>3
    <3>7. Taken'
      BY <1>2, <2>1, <3>1, <3>4, <3>5, <3>6 DEF Taken
    <3> QED
      BY <1>6, <1>7, <3>4, <3>7 DEF Session
  <2>7. CASE rd.mode # "header"
    <3>1. rd.left > 0 /\ rd.paused = FALSE
      <4>1. rd.paused \in BOOLEAN
        BY <1>1 DEF ReaderStates
      <4> QED
        BY <1>1, <1>6, <2>1, <2>7, <4>1
    <3> DEFINE l == rd.left - 1
               m == IF rd.left = 1 THEN "header" ELSE rd.mode
    <3>2. l \in Nat /\ i + l + 1 = rd.read + rd.left + 1 /\ (m = "header" => l = 0)
      BY <1>1, <2>7, <3>1
    <3>3. rd' = [r EXCEPT !.left = l, !.mode = m]
      BY <1>2, <1>4, <2>7 DEF TakeBody
    <3> HIDE DEF l, m
    <3>4. /\ rd'.active = rd.active /\ rd'.paused = FALSE /\ rd'.sess = rd.sess /\ rd'.expect = rd.expect
          /\ rd'.left = l /\ rd'.bad = FALSE /\ rd'.mode = m
      BY <1>4, <1>6, <3>1, <3>3 DEF ReaderStates
    <3>5. Follows(rd.read + rd.left + 1, rd.expect)'
      <4>1. Follows(i + l + 1, rd.expect)
        BY <2>1, <3>2
      <4> QED
        BY <1>2, <2>4, <3>4, <4>1 DEF Follows
    <3>6. Running'
      <4>1. i < ctrl \/ prod.pc # "await"
        <5>1. rd.read + rd.left + 1 <= ctrl \/ prod.pc # "await"
          BY <1>1, <2>1 DEF Follows
        <5> QED
          BY <1>1, <3>1, <5>1
      <4> QED
        BY <1>2, <2>1, <2>a, <3>1, <3>4, <3>5, <4>1 DEF Running
    <3> QED
      BY <1>6, <1>7, <3>2, <3>4, <3>6 DEF Session
  <2> QED
    BY <2>5, <2>6, <2>7
<1> QED
  BY <1>5, <1>8, <1>9 DEF Session

LEMMA SessionStep ==
    ASSUME RingInv, SessionInv, [RingNext]_ringVars
    PROVE  SessionInv'
<1> SUFFICES ASSUME Unharmed' PROVE Session'
  BY DEF SessionInv
<1>1. Session /\ ~dirty' /\ restarts' = 0 /\ restarts = 0
  BY CleanBefore DEF SessionInv, Unharmed
<1>2. rd \in ReaderStates
  BY DEF RingInv, RingTypeOK, ReaderType
<1>3. CASE PollCtrl \/ PublishRead \/ PublishFlags
  <2>1. /\ rd'.bad = rd.bad /\ rd'.mode = rd.mode /\ rd'.left = rd.left /\ rd'.read = rd.read
        /\ rd'.active = rd.active /\ rd'.paused = rd.paused /\ rd'.sess = rd.sess /\ rd'.expect = rd.expect
    BY <1>2, <1>3 DEF PollCtrl, PublishRead, PublishFlags, ReaderStates
  <2>2. UNCHANGED <<prod, wr, ctrl, sent>>
    BY <1>3 DEF PollCtrl, PublishRead, PublishFlags
  <2> QED
    BY <1>1, <2>1, <2>2, SameView
<1>4. CASE Consume
  BY <1>1, <1>4, ConsumeSession
<1>5. CASE Space \/ WriteCells
  BY <1>1, <1>5, SpaceSession
<1>6. CASE PublishCtrl
  BY <1>1, <1>6, PublishSession
<1>7. CASE Await
  BY <1>1, <1>7, AwaitSession
<1>8. CASE CallBegin \/ CallControl \/ CallPush
  BY <1>1, <1>8, CallSession
<1>9. CASE ReopenRing
  BY <1>1, <1>9 DEF ReopenRing
<1>10. CASE UNCHANGED ringVars
  <2>1. rd' = rd /\ UNCHANGED <<prod, wr, ctrl, sent>>
    BY <1>10 DEF ringVars
  <2> QED
    BY <1>1, <2>1, SameView
<1> QED
  BY <1>3, <1>4, <1>5, <1>6, <1>7, <1>8, <1>9, <1>10 DEF RingNext, ReaderStep, ProducerStep

LEMMA SessionStart ==
    ASSUME RingInit
    PROVE  SessionInv
BY DEF RingInit, SessionInv, Session, RecordBuilt, Closed

(* While no control call timed out, no NAL went into a paused session, no  *)
(* push was refused on lagging flags and the daemon did not restart, the   *)
(* reader never raises desync or fatal, and whenever the producer is       *)
(* between two calls of a session the reader is in that very session: for  *)
(* every ring size, every length of NAL, and however far READ, CTRL and    *)
(* the flags lag behind.                                                   *)
THEOREM RingAgrees == RingSpec => []RingAgreed
<1>1. RingInit => SessionInv
  BY SessionStart
<1>2. RingInv /\ SessionInv /\ [RingNext]_ringVars => SessionInv'
  BY SessionStep
<1>3. SessionInv => RingAgreed
  <2> SUFFICES ASSUME SessionInv, Unharmed PROVE RingAgreed
    BY DEF RingAgreed, NoFalseDesync, SessionAgreed, Unharmed
  <2>1. Session
    BY DEF SessionInv
  <2> QED
    BY <2>1 DEF Session, RingAgreed, NoFalseDesync, SessionAgreed, Closed, Opening, Running, Taken
<1> QED
  BY <1>1, <1>2, <1>3, RingInvariant, PTL DEF RingSpec

================================================================================
