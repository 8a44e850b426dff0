--------------------------- MODULE SpiWindow_proofs ----------------------------
(***************************************************************************)
(* Proofs about SpiWindow, for any number of daemon threads, tool          *)
(* processes and tasks of Main, and any number of calls and deaths.        *)
(*                                                                         *)
(* Three invariants, one on top of the other: who holds which lock and who *)
(* keeps Main stopped; whose value the register holds; and how many words  *)
(* of a transaction the core has taken.                                    *)
(***************************************************************************)
EXTENDS SpiWindow, TLAPS

\* Inside SpiExclusive, between the flock and its release.
Pausing == Driving \cup {"stop", "wait", "backoff", "cont", "leave"}

\* Who holds the mutex of a process and the flock.
HoldsMutex == \A t \in Threads : th[t].pc # "idle" <=> mutex[Proc(t)] = t
HoldsFlock == \A t \in Threads : th[t].pc \in Pausing \cup {"unflock"} <=> flk = t

\* mainPauseDepth counts the live windows of its process.
DepthCounts ==
  /\ \A p \in Procs : depth[p] = 1 => \E t \in ThreadsOf(p) : th[t].pc \in Pausing
  /\ \A t \in Threads : th[t].pc \in Pausing => depth[Proc(t)] = 1

\* Unless a process died, Main is only stopped for somebody.
StopHeld ==
  (main.stopping /\ ~died) => \E t \in Threads : th[t].pc \in Driving \cup {"wait", "backoff", "cont"}

LockInv == SpiTypeOK /\ HoldsMutex /\ HoldsFlock /\ DepthCounts /\ StopHeld

\* The second: as long as nobody resumed Main inside a window and nobody died driving.
Clean == ~fought /\ ~torn

\* Main is stopped while a thread drives the register.
MainHeld == \A t \in Threads : th[t].pc \in Driving => main.stopped = Tasks

\* What Main's copy is at each point of its transaction, and what the register was
\* before Main's pending store.
CopyShape ==
  /\ main.copy.en = (IF main.pc = "between" THEN {} ELSE {"io"})
  /\ main.copy.strobe = (main.pc = "strobed")
RegisterIsMains ==
  /\ main.stored => gpo = main.copy
  /\ ~main.stored => /\ gpo.en = (IF main.pc = "enabled" THEN {} ELSE {"io"})
                     /\ gpo.strobe = (main.pc = "cleared")

\* A thread that has sampled a quiet register caught Main between two transactions,
\* and what it saved is Main's.
Borrowed(t) ==
  /\ ~Busy(th[t].saved)
  /\ \/ main.pc = "between" /\ main.stored /\ th[t].saved = main.copy
     \/ main.pc = "enabled" /\ ~main.stored
BusInv ==
  Clean => /\ MainHeld /\ CopyShape
           /\ \A t \in Threads : th[t].pc \in Driving \ {"sample"} => Borrowed(t)
           /\ \A t \in Threads : th[t].pc = "enter" => gpo = th[t].saved
           /\ (\A t \in Threads : th[t].pc \notin Driving \ {"sample", "enter"}) => RegisterIsMains

\* The third: as long as no word timed out either.
AckShape ==
  /\ main.pc \in {"between", "enabled"} => ~ack
  /\ (main.pc = "strobed" /\ ~main.stored) => ~ack
  /\ (main.pc = "cleared" /\ ~main.stored) => ack

\* How many words of the segment the core has taken.
Count(t) ==
  LET n == seg(t).n
      l == th[t].left
  IN  CASE th[t].pc = "word" -> got = n - l /\ ~ack /\ ~gpo.strobe
        [] th[t].pc = "ackSet" -> got = (IF ack THEN n - l + 1 ELSE n - l) /\ gpo.strobe
        [] th[t].pc = "ackClr" -> got = n - l + 1 /\ ~gpo.strobe
        [] OTHER -> got = n /\ ~ack /\ ~gpo.strobe
TxnShape(t) ==
  IF th[t].pc \in {"enable", "restore"} THEN gpo.en = {} /\ ~gpo.strobe /\ ~ack
  ELSE gpo.en = {seg(t).en} /\ th[t].left <= seg(t).n /\ Count(t)
WordsInv ==
  (Clean /\ ~late) =>
    /\ \A t \in Threads : ~th[t].err
    /\ \A t \in Threads : th[t].pc \in Driving \ {"sample", "enter"} => TxnShape(t)
    /\ (\A t \in Threads : th[t].pc \notin Driving \ {"sample", "enter"}) => AckShape

\* Writing: from the first store of a window to the restore.
Writing == Driving \ {"sample", "enter"}

--------------------------------------------------------------------------------
(* Types.                                                                  *)

Pcs == Driving \cup {"idle", "flock", "stop", "wait", "backoff", "cont", "leave", "unflock", "unlock"}
Segments == [en : {"fpga", "io"}, n : {1, 2}, bulk : BOOLEAN]

(* The brackets of every call. *)
LEMMA SegsType ==
    ASSUME NEW op \in DaemonOps \cup ToolOps
    PROVE  /\ Len(Segs(op)) \in {1, 3, 5}
           /\ \A i \in 1..Len(Segs(op)) : Segs(op)[i] \in Segments
<1> DEFINE s == StatusTxn
           f == Seg("fpga", 1, FALSE)
           g == Seg("fpga", 1, TRUE)
<1>1. op \in {"setStatus", "getStatus", "getString", "kick", "fileTx"}
  BY SpiAssumption
<1>2. s \in Segments /\ f \in Segments /\ g \in Segments
  BY DEF StatusTxn, Seg, Segments
<1>3. \/ Segs(op) = <<s>>
      \/ Segs(op) = <<s, s, s>>
      \/ Segs(op) = <<f, f, g, g, f>>
  BY <1>1 DEF Segs
<1> HIDE DEF s, f, g
<1>4. CASE Segs(op) = <<s>>
  BY <1>2, <1>4
<1>5. CASE Segs(op) = <<s, s, s>>
  BY <1>2, <1>5
<1>6. CASE Segs(op) = <<f, f, g, g, f>>
  BY <1>2, <1>6
<1> QED
  BY <1>3, <1>4, <1>5, <1>6

(* The bracket a thread is in. *)
LEMMA SegOf ==
    ASSUME ThreadType, NEW t \in Threads, th[t].pc # "idle"
    PROVE  /\ seg(t) \in Segments /\ th[t].op \in DaemonOps \cup ToolOps
           /\ th[t].seg \in 1..Len(Segs(th[t].op)) /\ Len(Segs(th[t].op)) \in Nat
<1>1. th[t] \in ThreadStates /\ Sound(th[t])
  BY DEF ThreadType
<1>2. th[t].op \in DaemonOps \cup ToolOps /\ th[t].seg \in 1..Len(Segs(th[t].op))
  BY <1>1 DEF Sound, ThreadStates
<1> QED
  BY <1>2, SegsType DEF seg

(* A thread outside SpiExclusive. *)
LEMMA RestingType ==
    /\ Resting \in ThreadStates
    /\ Resting.pc = "idle" /\ Resting.attempt = 0 /\ Resting.seg = 1 /\ Resting.err = FALSE
<1>1. Quiet \in Gpo
  BY DEF Quiet, Gpo
<1>2. 0 \in 0..Attempts /\ 0 \in 0..MaxCalls
  BY SpiAssumption
<1> QED
  BY <1>1, <1>2 DEF Resting, ThreadStates

(* A thread moves on, the others stay. *)
LEMMA ThreadMove ==
    ASSUME ThreadType, NEW t \in Threads, NEW r \in ThreadStates, Sound(r), th' = [th EXCEPT ![t] = r]
    PROVE  ThreadType' /\ th'[t] = r /\ \A u \in Threads \ {t} : th'[u] = th[u]
<1>1. th'[t] = r /\ \A u \in Threads \ {t} : th'[u] = th[u]
  BY DEF ThreadType
<1>2. th' \in [Threads -> ThreadStates]
  BY DEF ThreadType
<1> QED
  BY <1>1, <1>2 DEF ThreadType

(* A thread that changes nothing but its place. *)
LEMMA ThreadTo ==
    ASSUME ThreadType, NEW t \in Threads, NEW x \in Pcs \ {"idle"}, To(t, x), th[t].pc # "idle",
           x \in {"flock", "stop", "wait", "sample", "backoff"} => th[t].attempt < Attempts,
           x \in {"word", "ackSet", "ackClr"} => th[t].left > 0
    PROVE  /\ ThreadType' /\ th'[t].pc = x /\ \A u \in Threads \ {t} : th'[u] = th[u]
           /\ th'[t] = [th[t] EXCEPT !.pc = x]
           /\ th'[t].saved = th[t].saved /\ th'[t].op = th[t].op /\ th'[t].seg = th[t].seg
           /\ th'[t].left = th[t].left /\ th'[t].err = th[t].err
<1> DEFINE r == [th[t] EXCEPT !.pc = x]
<1>1. th[t] \in ThreadStates /\ Sound(th[t])
  BY DEF ThreadType
<1>2. /\ r \in ThreadStates /\ r.pc = x /\ r.op = th[t].op /\ r.seg = th[t].seg /\ r.left = th[t].left
      /\ r.attempt = th[t].attempt /\ r.saved = th[t].saved /\ r.err = th[t].err
  BY <1>1 DEF ThreadStates, Pcs
<1>3. th' = [th EXCEPT ![t] = r]
  BY DEF To
<1> HIDE DEF r
<1>4. Sound(r)
  BY <1>1, <1>2 DEF Sound
<1>5. ThreadType' /\ th'[t] = r /\ \A u \in Threads \ {t} : th'[u] = th[u]
  BY <1>2, <1>3, <1>4, ThreadMove
<1> QED
  BY <1>2, <1>5 DEF r

(* A store into the register. *)
LEMMA DriveType ==
    ASSUME BusType, NEW g \in Gpo, Drive(g)
    PROVE  gpo' = g /\ gpo' \in Gpo /\ got' \in 0..GotCap
           /\ got' = IF g.en # {} /\ gpo.en = {} THEN 0 ELSE got
<1>1. got \in 0..GotCap /\ 0 \in 0..GotCap
  BY DEF BusType, GotCap
<1> QED
  BY <1>1 DEF Drive, Rises

(* The signals to Main. *)
LEMMA SigType ==
    ASSUME MainType
    PROVE  /\ SigStop => MainType' /\ main'.stopping /\ main' = [main EXCEPT !.stopping = TRUE]
           /\ SigCont => MainType' /\ ~main'.stopping
                         /\ main' = [main EXCEPT !.stopping = FALSE, !.stopped = {}]
BY DEF MainType, SigStop, SigCont

(* What most steps leave alone. *)
LEMMA RestType ==
    ASSUME LockType, DogType, UNCHANGED <<mutex, flk, depth, dog, deaths, died, fought, torn>>,
           late' \in BOOLEAN
    PROVE  LockType' /\ DogType'
BY DEF LockType, DogType

(* The steps of a thread inside a window, as far as the locks are concerned: *)
(* the types hold afterwards, the others stay where they are, the locks and  *)
(* the deaths are left alone, and if Main is stopped then for this thread.   *)
Inner(t) ==
  /\ SpiTypeOK'
  /\ th[t].pc \in Pausing /\ th'[t].pc \in Pausing
  /\ \A u \in Threads \ {t} : th'[u] = th[u]
  /\ UNCHANGED <<mutex, flk, depth, died>>
  /\ main'.stopping => th'[t].pc \in Driving \cup {"wait", "backoff", "cont"}

LEMMA PauseInner ==
    ASSUME SpiTypeOK, NEW t \in Threads,
           StopMain(t) \/ WaitStopped(t) \/ EnterWindow(t) \/ Restore(t) \/ ContMain(t)
    PROVE  Inner(t)
<1>1. MainType /\ BusType /\ ThreadType /\ LockType /\ DogType /\ late \in BOOLEAN
  BY DEF SpiTypeOK, DogType
<1>2. th[t] \in ThreadStates /\ Sound(th[t]) /\ th[t].saved \in Gpo
  BY <1>1 DEF ThreadType, ThreadStates
<1>3. CASE StopMain(t)
  <2>1. th[t].pc = "stop" /\ th[t].attempt < Attempts
    BY <1>2, <1>3 DEF StopMain, Sound
  <2>2. MainType' /\ BusType'
    BY <1>1, <1>3, SigType DEF StopMain, BusType
  <2>3. ThreadType' /\ th'[t].pc = "wait" /\ \A u \in Threads \ {t} : th'[u] = th[u]
    BY <1>1, <1>3, <2>1, ThreadTo DEF StopMain, Pcs
  <2>4. LockType' /\ DogType'
    BY <1>1, <1>3, RestType DEF StopMain
  <2> QED
    BY <1>3, <2>1, <2>2, <2>3, <2>4 DEF Inner, SpiTypeOK, Pausing, Driving, StopMain
<1>4. CASE WaitStopped(t)
  <2>1. th[t].pc = "wait" /\ th[t].attempt < Attempts
    BY <1>2, <1>4 DEF WaitStopped, Sound
  <2>2. MainType' /\ BusType'
    BY <1>1, <1>4 DEF WaitStopped, BusType, MainType
  <2>3. PICK x \in {"sample", "backoff"} : To(t, x)
    BY <1>4 DEF WaitStopped
  <2>4. ThreadType' /\ th'[t].pc = x /\ \A u \in Threads \ {t} : th'[u] = th[u]
    BY <1>1, <2>1, <2>3, ThreadTo DEF Pcs, Driving
  <2>5. LockType' /\ DogType'
    BY <1>1, <1>4, RestType DEF WaitStopped
  <2> QED
    BY <1>4, <2>1, <2>2, <2>3, <2>4, <2>5 DEF Inner, SpiTypeOK, Pausing, Driving, WaitStopped
<1>5. CASE EnterWindow(t)
  <2>1. th[t].pc = "enter"
    BY <1>5 DEF EnterWindow
  <2>2. MainType' /\ BusType'
    BY <1>1, <1>5 DEF EnterWindow, BusType, MainType
  <2>3. PICK x \in {"enable", "restore"} : To(t, x)
    BY <1>5 DEF EnterWindow
  <2>4. ThreadType' /\ th'[t].pc = x /\ \A u \in Threads \ {t} : th'[u] = th[u]
    BY <1>1, <2>1, <2>3, ThreadTo DEF Pcs, Driving
  <2>5. LockType' /\ DogType'
    BY <1>1, <1>5, RestType DEF EnterWindow
  <2> QED
    BY <1>5, <2>1, <2>2, <2>3, <2>4, <2>5 DEF Inner, SpiTypeOK, Pausing, Driving, EnterWindow
<1>6. CASE Restore(t)
  <2>1. th[t].pc = "restore"
    BY <1>6 DEF Restore
  <2>2. MainType' /\ BusType'
    BY <1>1, <1>2, <1>6, DriveType DEF Restore, BusType, MainType
  <2>3. ThreadType' /\ th'[t].pc = "cont" /\ \A u \in Threads \ {t} : th'[u] = th[u]
    BY <1>1, <1>6, <2>1, ThreadTo DEF Restore, Pcs
  <2>4. LockType' /\ DogType'
    BY <1>1, <1>6, RestType DEF Restore
  <2> QED
    BY <1>6, <2>1, <2>2, <2>3, <2>4 DEF Inner, SpiTypeOK, Pausing, Driving, Restore
<1>7. CASE ContMain(t)
  <2>1. th[t].pc = "cont"
    BY <1>7 DEF ContMain
  <2>2. MainType' /\ BusType' /\ ~main'.stopping
    BY <1>1, <1>7, SigType DEF ContMain, BusType
  <2>3. ThreadType' /\ th'[t].pc = "leave" /\ \A u \in Threads \ {t} : th'[u] = th[u]
    BY <1>1, <1>7, <2>1, ThreadTo DEF ContMain, Pcs
  <2>4. LockType' /\ DogType'
    BY <1>1, <1>7, RestType DEF ContMain
  <2> QED
    BY <1>7, <2>1, <2>2, <2>3, <2>4 DEF Inner, SpiTypeOK, Pausing, ContMain
<1> QED
  BY <1>3, <1>4, <1>5, <1>6, <1>7

LEMMA SampleInner ==
    ASSUME SpiTypeOK, NEW t \in Threads, SampleGpo(t)
    PROVE  /\ Inner(t)
           /\ Busy(gpo) => th'[t].pc = "backoff"
           /\ ~Busy(gpo) => th'[t].pc = "enter" /\ th'[t].saved = gpo
           /\ th'[t].err = th[t].err
<1>1. MainType /\ BusType /\ ThreadType /\ LockType /\ DogType /\ late \in BOOLEAN
  BY DEF SpiTypeOK, DogType
<1>2. th[t] \in ThreadStates /\ Sound(th[t]) /\ gpo \in Gpo
  BY <1>1 DEF ThreadType, BusType
<1>3. th[t].pc = "sample" /\ th[t].attempt < Attempts
  BY <1>2 DEF SampleGpo, Sound
<1>4. MainType' /\ BusType' /\ LockType' /\ DogType'
  BY <1>1, RestType DEF SampleGpo, MainType, BusType
<1> DEFINE r == [th[t] EXCEPT !.pc = "enter", !.safe = TRUE, !.saved = gpo]
<1>5. ASSUME ~Busy(gpo)
      PROVE  ThreadType' /\ th'[t] = r /\ \A u \in Threads \ {t} : th'[u] = th[u]
  <2>1. th' = [th EXCEPT ![t] = r]
    BY <1>5 DEF SampleGpo
  <2>2. r \in ThreadStates /\ r.pc = "enter" /\ r.op = th[t].op /\ r.seg = th[t].seg
    BY <1>2 DEF ThreadStates, Driving
  <2>3. Sound(r)
    BY <1>2, <1>3, <2>2 DEF Sound
  <2> HIDE DEF r
  <2> QED
    BY <1>1, <2>1, <2>2, <2>3, ThreadMove
<1>6. ASSUME Busy(gpo)
      PROVE  ThreadType' /\ th'[t].pc = "backoff" /\ th'[t].err = th[t].err
             /\ \A u \in Threads \ {t} : th'[u] = th[u]
  BY <1>1, <1>3, <1>6, ThreadTo DEF SampleGpo, Pcs
<1>7. r.pc = "enter" /\ r.saved = gpo /\ r.err = th[t].err
  BY <1>2 DEF ThreadStates
<1>8. ThreadType' /\ th'[t].pc \in {"enter", "backoff"} /\ \A u \in Threads \ {t} : th'[u] = th[u]
  BY <1>5, <1>6, <1>7
<1>9. Inner(t)
  BY <1>3, <1>4, <1>8 DEF Inner, SpiTypeOK, Pausing, Driving, SampleGpo
<1> QED
  BY <1>5, <1>6, <1>7, <1>9

LEMMA BackOffInner ==
    ASSUME SpiTypeOK, NEW t \in Threads, BackOff(t)
    PROVE  Inner(t) /\ th'[t].pc \in {"stop", "cont"} /\ th'[t].err = th[t].err
<1>1. MainType /\ BusType /\ ThreadType /\ LockType /\ DogType /\ late \in BOOLEAN
  BY DEF SpiTypeOK, DogType
<1>2. th[t] \in ThreadStates /\ Sound(th[t])
  BY <1>1 DEF ThreadType
<1>3. th[t].pc = "backoff" /\ th[t].attempt < Attempts
  BY <1>2 DEF BackOff, Sound
<1>4. MainType' /\ BusType' /\ LockType' /\ DogType' /\ ~main'.stopping
  BY <1>1, RestType, SigType DEF BackOff, BusType
<1> DEFINE n == th[t].attempt + 1
           x == IF n < Attempts THEN "stop" ELSE "cont"
           r == [th[t] EXCEPT !.attempt = n, !.pc = x]
<1>5. th' = [th EXCEPT ![t] = r]
  BY DEF BackOff
<1>6. n \in 0..Attempts /\ (x = "stop" => n < Attempts) /\ x \in {"stop", "cont"}
  <2>1. th[t].attempt \in 0..Attempts /\ Attempts \in Nat
    BY <1>2, SpiAssumption DEF ThreadStates
  <2> QED
    BY <1>3, <2>1
<1> HIDE DEF n, x
<1>7. /\ r \in ThreadStates /\ r.pc = x /\ r.op = th[t].op /\ r.seg = th[t].seg
      /\ r.err = th[t].err /\ r.attempt = n
  BY <1>2, <1>6 DEF ThreadStates
<1> HIDE DEF r
<1>8. Sound(r)
  BY <1>2, <1>3, <1>6, <1>7 DEF Sound
<1>9. ThreadType' /\ th'[t] = r /\ \A u \in Threads \ {t} : th'[u] = th[u]
  BY <1>1, <1>5, <1>7, <1>8, ThreadMove
<1> QED
  BY <1>3, <1>4, <1>6, <1>7, <1>9 DEF Inner, SpiTypeOK, Pausing, BackOff

(* What a thread does to the register inside a transaction. *)
LEMMA GpoEdits ==
    ASSUME NEW g \in Gpo, NEW e \in {"fpga", "io"}
    PROVE  /\ [g EXCEPT !.en = @ \cup {e}] \in Gpo
           /\ [g EXCEPT !.en = @ \ {e}] \in Gpo
           /\ [g EXCEPT !.strobe = FALSE] \in Gpo
           /\ [g EXCEPT !.word = "ours", !.strobe = TRUE] \in Gpo
           /\ [g EXCEPT !.word = "ours", !.strobe = FALSE] \in Gpo
BY DEF Gpo

(* Where a word that has ended leads. *)
LEMMA WordDoneMoves ==
    ASSUME ThreadType, NEW t \in Threads, NEW failed \in BOOLEAN, WordDone(t, failed),
           th[t].pc \in {"ackSet", "ackClr"}
    PROVE  /\ ThreadType' /\ \A u \in Threads \ {t} : th'[u] = th[u]
           /\ th'[t].pc \in {"word", "bulk", "disable"}
           /\ th[t].left \in Nat /\ th[t].left > 0 /\ th'[t].left = th[t].left - 1
           /\ th'[t].op = th[t].op /\ th'[t].seg = th[t].seg /\ th'[t].saved = th[t].saved
           /\ (~th[t].err /\ ~failed) => /\ ~th'[t].err
                                         /\ th'[t].pc = "word" <=> th[t].left > 1
<1> DEFINE err == th[t].err \/ failed
           x == IF err /\ StopsAtError(th[t].op) THEN "disable"
                ELSE IF th[t].left > 1 THEN "word"
                ELSE IF seg(t).bulk THEN "bulk" ELSE "disable"
           l == th[t].left - 1
           r == [th[t] EXCEPT !.err = err, !.left = l, !.pc = x]
<1>1. th[t] \in ThreadStates /\ Sound(th[t])
  BY DEF ThreadType
<1>2. th' = [th EXCEPT ![t] = r]
  BY DEF WordDone
<1>3. th[t].left \in Nat /\ th[t].left > 0 /\ th[t].err \in BOOLEAN
  BY <1>1 DEF ThreadStates, Sound
<1>4. /\ x \in {"word", "bulk", "disable"}
      /\ x = "word" => th[t].left > 1
      /\ (~th[t].err /\ ~failed) => (x = "word" <=> th[t].left > 1)
  OBVIOUS
<1>5. l \in Nat /\ (x = "word" => l > 0)
  BY <1>3, <1>4
<1>6. err \in BOOLEAN /\ ((~th[t].err /\ ~failed) => ~err)
  BY <1>3
<1> HIDE DEF err, x
<1>7. l = th[t].left - 1
  OBVIOUS
<1> HIDE DEF l
<1>8. /\ r \in ThreadStates /\ r.pc = x /\ r.op = th[t].op /\ r.seg = th[t].seg /\ r.left = l
      /\ r.saved = th[t].saved
  BY <1>1, <1>4, <1>5, <1>6 DEF ThreadStates, Driving
<1>9. r.err = err
  BY <1>1 DEF ThreadStates
<1> HIDE DEF r
<1>10. Sound(r)
  BY <1>1, <1>4, <1>5, <1>8 DEF Sound
<1>11. ThreadType' /\ th'[t] = r /\ \A u \in Threads \ {t} : th'[u] = th[u]
  BY <1>2, <1>8, <1>10, ThreadMove
<1> QED
  BY <1>3, <1>4, <1>6, <1>7, <1>8, <1>9, <1>11

LEMMA EnableInner ==
    ASSUME SpiTypeOK, NEW t \in Threads, Enable(t)
    PROVE  /\ Inner(t) /\ seg(t) \in Segments /\ th'[t].pc = "word" /\ th'[t].left = seg(t).n
           /\ th'[t].op = th[t].op /\ th'[t].seg = th[t].seg /\ th'[t].saved = th[t].saved
           /\ th'[t].err = th[t].err
<1>1. MainType /\ BusType /\ ThreadType /\ LockType /\ DogType /\ late \in BOOLEAN
  BY DEF SpiTypeOK, DogType
<1>2. th[t] \in ThreadStates /\ Sound(th[t]) /\ gpo \in Gpo /\ th[t].pc = "enable"
  BY <1>1 DEF ThreadType, BusType, Enable
<1>3. seg(t) \in Segments
  BY <1>1, <1>2, SegOf
<1>4. seg(t).en \in {"fpga", "io"} /\ seg(t).n \in Nat /\ seg(t).n > 0
  BY <1>3 DEF Segments
<1>5. MainType' /\ BusType' /\ LockType' /\ DogType'
  <2>1. MainType' /\ LockType' /\ DogType'
    BY <1>1, RestType DEF Enable, MainType
  <2>2. BusType'
    BY <1>1, <1>2, <1>4, DriveType, GpoEdits DEF Enable, BusType
  <2> QED
    BY <2>1, <2>2
<1> DEFINE n == seg(t).n
           r == [th[t] EXCEPT !.pc = "word", !.left = n]
<1>6. th' = [th EXCEPT ![t] = r]
  BY DEF Enable
<1>7. n \in Nat /\ n > 0 /\ n = seg(t).n
  BY <1>4
<1> HIDE DEF n
<1>8. /\ r \in ThreadStates /\ r.pc = "word" /\ r.op = th[t].op /\ r.seg = th[t].seg /\ r.left = n
      /\ r.saved = th[t].saved /\ r.err = th[t].err
  BY <1>2, <1>7 DEF ThreadStates, Driving
<1> HIDE DEF r
<1>9. Sound(r)
  BY <1>2, <1>7, <1>8 DEF Sound
<1>10. ThreadType' /\ th'[t] = r /\ \A u \in Threads \ {t} : th'[u] = th[u]
  BY <1>1, <1>6, <1>8, <1>9, ThreadMove
<1>11. Inner(t)
  BY <1>2, <1>5, <1>8, <1>10 DEF Inner, SpiTypeOK, Pausing, Driving, Enable
<1> QED
  BY <1>3, <1>7, <1>8, <1>10, <1>11

LEMMA WordInner ==
    ASSUME SpiTypeOK, NEW t \in Threads, SpiWord(t) \/ AckSet(t) \/ SpiWriteBytes(t)
    PROVE  Inner(t)
<1>1. MainType /\ BusType /\ ThreadType /\ LockType /\ DogType /\ late \in BOOLEAN
  BY DEF SpiTypeOK, DogType
<1>2. th[t] \in ThreadStates /\ Sound(th[t]) /\ gpo \in Gpo
  BY <1>1 DEF ThreadType, BusType
<1>3. MainType' /\ LockType' /\ DogType'
  BY <1>1, RestType DEF SpiWord, AckSet, SpiWriteBytes, MainType
<1>4. BusType'
  BY <1>1, <1>2, DriveType, GpoEdits DEF SpiWord, AckSet, SpiWriteBytes, BusType
<1>5. CASE SpiWord(t)
  <2>1. th[t].pc = "word" /\ th[t].left > 0
    BY <1>2, <1>5 DEF SpiWord, Sound
  <2>2. ThreadType' /\ th'[t].pc = "ackSet" /\ \A u \in Threads \ {t} : th'[u] = th[u]
    BY <1>1, <1>5, <2>1, ThreadTo DEF SpiWord, Pcs, Driving
  <2> QED
    BY <1>3, <1>4, <1>5, <2>1, <2>2 DEF Inner, SpiTypeOK, Pausing, Driving, SpiWord
<1>6. CASE AckSet(t)
  <2>1. th[t].pc = "ackSet" /\ th[t].left > 0
    BY <1>2, <1>6 DEF AckSet, Sound
  <2>2. ThreadType' /\ th'[t].pc = "ackClr" /\ \A u \in Threads \ {t} : th'[u] = th[u]
    BY <1>1, <1>6, <2>1, ThreadTo DEF AckSet, Pcs, Driving
  <2> QED
    BY <1>3, <1>4, <1>6, <2>1, <2>2 DEF Inner, SpiTypeOK, Pausing, Driving, AckSet
<1>7. CASE SpiWriteBytes(t)
  <2>1. th[t].pc = "bulk"
    BY <1>7 DEF SpiWriteBytes
  <2>2. ThreadType' /\ th'[t].pc = "disable" /\ \A u \in Threads \ {t} : th'[u] = th[u]
    BY <1>1, <1>7, <2>1, ThreadTo DEF SpiWriteBytes, Pcs, Driving
  <2> QED
    BY <1>3, <1>4, <1>7, <2>1, <2>2 DEF Inner, SpiTypeOK, Pausing, Driving, SpiWriteBytes
<1> QED
  BY <1>5, <1>6, <1>7

LEMMA AckInner ==
    ASSUME SpiTypeOK, NEW t \in Threads, AckSetFails(t) \/ AckClr(t)
    PROVE  Inner(t) /\ th'[t].saved = th[t].saved /\ th'[t].pc \in Driving \ {"sample", "enter"}
<1>1. MainType /\ BusType /\ ThreadType /\ LockType /\ DogType /\ late \in BOOLEAN
  BY DEF SpiTypeOK, DogType
<1>2. th[t] \in ThreadStates /\ Sound(th[t]) /\ gpo \in Gpo
  BY <1>1 DEF ThreadType, BusType
<1>3. PICK failed \in BOOLEAN : WordDone(t, failed)
  BY DEF AckSetFails, AckClr
<1>4. th[t].pc \in {"ackSet", "ackClr"} /\ late' \in BOOLEAN
  BY <1>1 DEF AckSetFails, AckClr
<1>5. MainType' /\ LockType' /\ DogType'
  BY <1>1, <1>4, RestType DEF AckSetFails, AckClr, MainType
<1>6. BusType'
  BY <1>1, <1>2, DriveType, GpoEdits DEF AckSetFails, AckClr, BusType
<1>7. /\ ThreadType' /\ \A u \in Threads \ {t} : th'[u] = th[u]
      /\ th'[t].pc \in {"word", "bulk", "disable"} /\ th'[t].saved = th[t].saved
  BY <1>1, <1>3, <1>4, WordDoneMoves
<1>8. th'[t].pc \in Driving \ {"sample", "enter"} /\ th[t].pc \in Driving
  BY <1>4, <1>7 DEF Driving
<1>9. UNCHANGED <<mutex, flk, depth, died>>
  BY DEF AckSetFails, AckClr
<1> QED
  BY <1>5, <1>6, <1>7, <1>8, <1>9 DEF Inner, SpiTypeOK, Pausing

LEMMA DisableInner ==
    ASSUME SpiTypeOK, NEW t \in Threads, Disable(t)
    PROVE  /\ Inner(t) /\ th'[t].pc \in {"enable", "restore"} /\ th'[t].saved = th[t].saved
           /\ th'[t].err = th[t].err /\ seg(t) \in Segments
<1>1. MainType /\ BusType /\ ThreadType /\ LockType /\ DogType /\ late \in BOOLEAN
  BY DEF SpiTypeOK, DogType
<1>2. th[t] \in ThreadStates /\ Sound(th[t]) /\ gpo \in Gpo /\ th[t].pc = "disable"
  BY <1>1 DEF ThreadType, BusType, Disable
<1> DEFINE last == Len(Segs(th[t].op))
           n == NextSeg(t)
           r == [th[t] EXCEPT !.pc = "enable", !.seg = n]
<1>3. seg(t) \in Segments /\ th[t].seg \in 1..last /\ last \in Nat
  BY <1>1, <1>2, SegOf
<1>4. seg(t).en \in {"fpga", "io"}
  BY <1>3 DEF Segments
<1>5. MainType' /\ LockType' /\ DogType'
  BY <1>1, RestType DEF Disable, MainType
<1>6. BusType'
  BY <1>1, <1>2, <1>4, DriveType, GpoEdits DEF Disable, BusType
<1>7. ASSUME To(t, "restore")
      PROVE  ThreadType' /\ th'[t].pc = "restore" /\ th'[t].saved = th[t].saved
             /\ th'[t].err = th[t].err /\ \A u \in Threads \ {t} : th'[u] = th[u]
  BY <1>1, <1>2, <1>7, ThreadTo DEF Pcs, Driving
<1>8. ASSUME ~To(t, "restore")
      PROVE  ThreadType' /\ th'[t].pc = "enable" /\ th'[t].saved = th[t].saved
             /\ th'[t].err = th[t].err /\ \A u \in Threads \ {t} : th'[u] = th[u]
  <2>1. th[t].seg # last /\ th' = [th EXCEPT ![t] = r]
    BY <1>8 DEF Disable
  <2>2. n = last \/ n = th[t].seg + 1
    BY DEF NextSeg
  <2> HIDE DEF last, n
  <2>3. n \in 1..last /\ n \in Nat
    BY <1>3, <2>1, <2>2
  <2>4. /\ r \in ThreadStates /\ r.pc = "enable" /\ r.op = th[t].op /\ r.seg = n
        /\ r.saved = th[t].saved /\ r.err = th[t].err
    BY <1>2, <2>3 DEF ThreadStates, Driving
  <2> HIDE DEF r
  <2>5. Sound(r)
    BY <1>2, <2>3, <2>4 DEF Sound, last
  <2>6. ThreadType' /\ th'[t] = r /\ \A u \in Threads \ {t} : th'[u] = th[u]
    BY <1>1, <2>1, <2>4, <2>5, ThreadMove
  <2> QED
    BY <2>4, <2>6
<1>9. /\ ThreadType' /\ th'[t].pc \in {"enable", "restore"} /\ th'[t].saved = th[t].saved
      /\ th'[t].err = th[t].err /\ \A u \in Threads \ {t} : th'[u] = th[u]
  BY <1>7, <1>8
<1>10. Inner(t)
  BY <1>2, <1>5, <1>6, <1>9 DEF Inner, SpiTypeOK, Pausing, Driving, Disable
<1> QED
  BY <1>3, <1>9, <1>10

--------------------------------------------------------------------------------
(* The locks.                                                              *)

LEMMA Names ==
    ASSUME NEW t \in Threads
    PROVE  /\ Proc(t) \in Procs /\ t # Free /\ Free \notin Threads
           /\ t \in ThreadsOf(Proc(t)) /\ Daemon \in Procs
BY NamesAssumption DEF Proc, Procs, Threads, ThreadsOf

(* Only one thread is between the flock and its release. *)
LEMMA OneBorrower ==
    ASSUME HoldsFlock, NEW t \in Threads, NEW u \in Threads, th[t].pc \in Pausing, th[u].pc \in Pausing
    PROVE  t = u
BY DEF HoldsFlock

(* The steps inside a window keep the locks. *)
LEMMA InnerLocks ==
    ASSUME LockInv, NEW t \in Threads, Inner(t)
    PROVE  LockInv'
<1>1. /\ th[t].pc \in Pausing /\ th'[t].pc \in Pausing
      /\ \A u \in Threads \ {t} : th'[u] = th[u]
      /\ UNCHANGED <<mutex, flk, depth, died>>
  BY DEF Inner
<1>2. "idle" \notin Pausing /\ Driving \cup {"wait", "backoff", "cont"} \subseteq Pausing
  BY DEF Pausing, Driving
<1>3. HoldsMutex'
  <2> SUFFICES ASSUME NEW u \in Threads PROVE (th[u].pc # "idle" <=> mutex[Proc(u)] = u)'
    BY DEF HoldsMutex
  <2>1. th[u].pc # "idle" <=> mutex[Proc(u)] = u
    BY DEF LockInv, HoldsMutex
  <2>2. th'[u].pc # "idle" <=> th[u].pc # "idle"
    BY <1>1, <1>2
  <2>3. mutex'[Proc(u)] = mutex[Proc(u)]
    BY <1>1
  <2> QED
    BY <2>1, <2>2, <2>3 DEF Proc
<1>4. HoldsFlock'
  <2> SUFFICES ASSUME NEW u \in Threads PROVE (th[u].pc \in Pausing \cup {"unflock"} <=> flk = u)'
    BY DEF HoldsFlock
  <2>1. th[u].pc \in Pausing \cup {"unflock"} <=> flk = u
    BY DEF LockInv, HoldsFlock
  <2>2. th'[u].pc \in Pausing \cup {"unflock"} <=> th[u].pc \in Pausing \cup {"unflock"}
    BY <1>1
  <2> QED
    BY <1>1, <2>1, <2>2 DEF Pausing, Driving
<1>5. DepthCounts'
  <2>1. \A u \in Threads : th'[u].pc \in Pausing <=> th[u].pc \in Pausing
    BY <1>1
  <2>2. ASSUME NEW p \in Procs, depth'[p] = 1 PROVE \E u \in ThreadsOf(p) : th'[u].pc \in Pausing
    <3>1. PICK u \in ThreadsOf(p) : th[u].pc \in Pausing
      BY <1>1, <2>2 DEF LockInv, DepthCounts
    <3> QED
      BY <2>1, <3>1 DEF ThreadsOf
  <2>3. ASSUME NEW u \in Threads, th'[u].pc \in Pausing PROVE depth'[Proc(u)] = 1
    BY <1>1, <2>1, <2>3 DEF LockInv, DepthCounts
  <2> QED
    BY <2>2, <2>3 DEF DepthCounts, ThreadsOf, Proc, Pausing, Driving
<1>6. StopHeld'
  BY DEF Inner, StopHeld, Driving
<1> QED
  BY <1>3, <1>4, <1>5, <1>6 DEF LockInv, Inner

(* SpiExclusive begins: the mutex. *)
LEMMA CallLocks ==
    ASSUME LockInv, NEW t \in Threads, Call(t)
    PROVE  /\ LockInv' /\ th[t].pc = "idle" /\ th'[t].pc = "flock" /\ ~th'[t].err
           /\ \A u \in Threads \ {t} : th'[u] = th[u]
<1>1. MainType /\ BusType /\ ThreadType /\ LockType /\ DogType
  BY DEF LockInv, SpiTypeOK
<1>2. PICK op \in Ops(t) :
        th' = [th EXCEPT ![t] = [Resting EXCEPT !.pc = "flock", !.op = op, !.calls = th[t].calls + 1]]
  BY DEF Call
<1> DEFINE c == th[t].calls + 1
           r == [Resting EXCEPT !.pc = "flock", !.op = op, !.calls = c]
<1>3. c \in 0..MaxCalls
  <2>1. th[t].calls \in 0..MaxCalls /\ th[t].calls < MaxCalls
    BY <1>1 DEF ThreadType, ThreadStates, Call
  <2>2. MaxCalls \in Nat
    BY SpiAssumption
  <2> QED
    BY <2>1, <2>2
<1>4. op \in DaemonOps \cup ToolOps /\ op # "none"
  BY SpiAssumption DEF Ops
<1> HIDE DEF c
<1>5. /\ r.pc = "flock" /\ r.op = op /\ r.attempt = 0 /\ r.seg = 1 /\ r.err = FALSE
      /\ r \in ThreadStates
  <2>1. Resting \in ThreadStates /\ Resting.attempt = 0 /\ Resting.seg = 1 /\ Resting.err = FALSE
    BY RestingType
  <2> QED
    BY <1>3, <1>4, <2>1 DEF ThreadStates
<1>6. Sound(r)
  <2>1. 1 \in 1..Len(Segs(op))
    BY <1>4, SegsType
  <2> QED
    BY <1>4, <1>5, <2>1, SpiAssumption DEF Sound
<1>7. th' = [th EXCEPT ![t] = r]
  BY <1>2 DEF c
<1> HIDE DEF r
<1>8. ThreadType' /\ th'[t] = r /\ \A u \in Threads \ {t} : th'[u] = th[u]
  BY <1>1, <1>5, <1>6, <1>7, ThreadMove
<1>9. th[t].pc = "idle" /\ th'[t].pc = "flock" /\ ~th'[t].err /\ UNCHANGED <<main, flk, depth, died>>
  BY <1>5, <1>8 DEF Call
<1>10. mutex[Proc(t)] = Free /\ mutex' = [mutex EXCEPT ![Proc(t)] = t]
  BY DEF Call
<1>11. SpiTypeOK'
  <2>1. MainType' /\ BusType' /\ DogType'
    BY <1>1 DEF Call, MainType, BusType, DogType
  <2>2. LockType'
    BY <1>1, <1>10, Names DEF Call, LockType
  <2> QED
    BY <1>8, <2>1, <2>2 DEF SpiTypeOK
<1>12. HoldsMutex'
  <2> SUFFICES ASSUME NEW u \in Threads PROVE (th[u].pc # "idle" <=> mutex[Proc(u)] = u)'
    BY DEF HoldsMutex
  <2>1. th[u].pc # "idle" <=> mutex[Proc(u)] = u
    BY DEF LockInv, HoldsMutex
  <2>2. mutex'[Proc(u)] = IF Proc(u) = Proc(t) THEN t ELSE mutex[Proc(u)]
    BY <1>1, <1>10, Names DEF LockType
  <2>3. Free # u
    BY Names
  <2> QED
    BY <1>8, <1>9, <1>10, <2>1, <2>2, <2>3 DEF Proc
<1>13. HoldsFlock' /\ DepthCounts' /\ StopHeld'
  <2>1. "idle" \notin Pausing \cup {"unflock"} /\ "flock" \notin Pausing \cup {"unflock"}
    BY DEF Pausing, Driving
  <2>2. \A u \in Threads : th'[u].pc \in Pausing <=> th[u].pc \in Pausing
    BY <1>8, <1>9, <2>1
  <2>3. \A u \in Threads : th'[u].pc \in Pausing \cup {"unflock"} <=> th[u].pc \in Pausing \cup {"unflock"}
    BY <1>8, <1>9, <2>1
  <2>4. \A u \in Threads : th[u].pc \in Driving \cup {"wait", "backoff", "cont"} => th'[u].pc = th[u].pc
    BY <1>8, <1>9, <2>1 DEF Pausing
  <2>5. HoldsFlock'
    BY <1>9, <2>3 DEF LockInv, HoldsFlock, Pausing, Driving
  <2>6. DepthCounts'
    BY <1>9, <2>2 DEF LockInv, DepthCounts, ThreadsOf, Proc, Pausing, Driving
  <2>7. StopHeld'
    BY <1>9, <2>4 DEF LockInv, StopHeld, Driving
  <2> QED
    BY <2>5, <2>6, <2>7
<1> QED
  BY <1>8, <1>9, <1>11, <1>12, <1>13 DEF LockInv

(* The flock, and the window opens. *)
LEMMA TakeFlockLocks ==
    ASSUME LockInv, NEW t \in Threads, TakeFlock(t)
    PROVE  /\ LockInv' /\ th[t].pc = "flock" /\ th'[t].pc = "stop" /\ th'[t].err = th[t].err
           /\ \A u \in Threads \ {t} : th'[u] = th[u]
<1>1. MainType /\ BusType /\ ThreadType /\ LockType /\ DogType
  BY DEF LockInv, SpiTypeOK
<1>2. th[t].pc = "flock" /\ flk = Free /\ flk' = t /\ UNCHANGED <<main, mutex, died>>
  BY DEF TakeFlock
<1>3. th[t].attempt < Attempts
  BY <1>1, <1>2 DEF ThreadType, Sound
<1>4. /\ ThreadType' /\ th'[t].pc = "stop" /\ th'[t].err = th[t].err
      /\ \A u \in Threads \ {t} : th'[u] = th[u]
  BY <1>1, <1>2, <1>3, ThreadTo DEF TakeFlock, Pcs
<1>5. \A u \in Threads : th[u].pc \notin Pausing \cup {"unflock"}
  BY <1>2, Names DEF LockInv, HoldsFlock
<1>6. \A p \in Procs : depth[p] = 0
  <2> TAKE p \in Procs
  <2>1. depth[p] \in {0, 1}
    BY <1>1 DEF LockType
  <2>2. depth[p] # 1
    BY <1>5 DEF LockInv, DepthCounts, ThreadsOf
  <2> QED
    BY <2>1, <2>2
<1>7. \A p \in Procs : depth'[p] = IF p = Proc(t) THEN 1 ELSE 0
  BY <1>1, <1>6, Names DEF TakeFlock, LockType
<1>8. depth' \in [Procs -> {0, 1}]
  <2>1. depth[Proc(t)] + 1 = 1
    BY <1>6, Names
  <2>2. depth' = [depth EXCEPT ![Proc(t)] = 1]
    BY <2>1 DEF TakeFlock
  <2> QED
    BY <1>1, <2>2 DEF LockType
<1>9. SpiTypeOK'
  <2>1. MainType' /\ BusType' /\ DogType'
    BY <1>1 DEF TakeFlock, MainType, BusType, DogType
  <2>2. LockType'
    BY <1>1, <1>2, <1>8 DEF LockType
  <2> QED
    BY <1>4, <2>1, <2>2 DEF SpiTypeOK
<1>10. "stop" \in Pausing /\ "idle" # "stop"
  BY DEF Pausing
<1>11. HoldsMutex'
  <2>1. \A u \in Threads : th'[u].pc # "idle" <=> th[u].pc # "idle"
    BY <1>2, <1>4
  <2> QED
    BY <1>2, <2>1 DEF LockInv, HoldsMutex, Proc
<1>12. HoldsFlock'
  BY <1>2, <1>4, <1>5, <1>10 DEF HoldsFlock, Pausing, Driving
<1>13. DepthCounts'
  <2>1. ASSUME NEW p \in Procs, depth'[p] = 1 PROVE \E u \in ThreadsOf(p) : th'[u].pc \in Pausing
    <3>1. p = Proc(t)
      BY <1>7, <2>1
    <3> QED
      BY <1>4, <1>10, <3>1, Names
  <2>2. ASSUME NEW u \in Threads, th'[u].pc \in Pausing PROVE depth'[Proc(u)] = 1
    <3>1. u = t
      BY <1>4, <1>5, <2>2
    <3> QED
      BY <1>7, <3>1, Names
  <2> QED
    BY <2>1, <2>2 DEF DepthCounts, ThreadsOf, Proc, Pausing, Driving
<1>14. StopHeld'
  <2>1. Driving \cup {"wait", "backoff", "cont"} \subseteq Pausing
    BY DEF Pausing
  <2> QED
    BY <1>2, <1>5, <2>1 DEF LockInv, StopHeld
<1> QED
  BY <1>2, <1>4, <1>9, <1>11, <1>12, <1>13, <1>14 DEF LockInv

(* The window closes. *)
LEMMA LeaveWindowLocks ==
    ASSUME LockInv, NEW t \in Threads, LeaveWindow(t)
    PROVE  /\ LockInv' /\ th[t].pc = "leave" /\ th'[t].pc = "unflock" /\ th'[t].err = th[t].err
           /\ \A u \in Threads \ {t} : th'[u] = th[u]
<1>1. MainType /\ BusType /\ ThreadType /\ LockType /\ DogType
  BY DEF LockInv, SpiTypeOK
<1>2. th[t].pc = "leave" /\ UNCHANGED <<main, mutex, flk, died>>
  BY DEF LeaveWindow
<1>3. /\ ThreadType' /\ th'[t].pc = "unflock" /\ th'[t].err = th[t].err
      /\ \A u \in Threads \ {t} : th'[u] = th[u]
  BY <1>1, <1>2, ThreadTo DEF LeaveWindow, Pcs
<1>4. "leave" \in Pausing /\ "unflock" \notin Pausing
  BY DEF Pausing, Driving
<1>5. \A u \in Threads \ {t} : th[u].pc \notin Pausing
  BY <1>2, <1>4, OneBorrower DEF LockInv
<1>6. \A u \in Threads : th'[u].pc \notin Pausing
  BY <1>3, <1>4, <1>5
<1>7. depth[Proc(t)] = 1 /\ depth' = [depth EXCEPT ![Proc(t)] = 0]
  <2>1. depth[Proc(t)] = 1
    BY <1>2, <1>4 DEF LockInv, DepthCounts
  <2> QED
    BY <2>1 DEF LeaveWindow
<1>8. \A p \in Procs : depth'[p] = 0
  <2> TAKE p \in Procs
  <2>1. p = Proc(t) => depth'[p] = 0
    BY <1>1, <1>7 DEF LockType
  <2>2. ASSUME p # Proc(t) PROVE depth[p] = 0 /\ depth'[p] = depth[p]
    <3>1. depth[p] \in {0, 1} /\ depth'[p] = depth[p]
      BY <1>1, <1>7, <2>2 DEF LockType
    <3>2. depth[p] # 1
      BY <1>5, <2>2 DEF LockInv, DepthCounts, ThreadsOf
    <3> QED
      BY <3>1, <3>2
  <2> QED
    BY <2>1, <2>2
<1>9. SpiTypeOK'
  <2>1. MainType' /\ BusType' /\ DogType'
    BY <1>1 DEF LeaveWindow, MainType, BusType, DogType
  <2>2. LockType'
    BY <1>1, <1>2, <1>7 DEF LockType
  <2> QED
    BY <1>3, <2>1, <2>2 DEF SpiTypeOK
<1>10. HoldsMutex'
  <2>1. \A u \in Threads : th'[u].pc # "idle" <=> th[u].pc # "idle"
    BY <1>2, <1>3
  <2> QED
    BY <1>2, <2>1 DEF LockInv, HoldsMutex, Proc
<1>11. HoldsFlock'
  <2>1. \A u \in Threads : th'[u].pc \in Pausing \cup {"unflock"} <=> th[u].pc \in Pausing \cup {"unflock"}
    BY <1>2, <1>3, <1>4
  <2> QED
    BY <1>2, <2>1 DEF LockInv, HoldsFlock, Pausing, Driving
<1>12. DepthCounts'
  BY <1>6, <1>8, Names DEF DepthCounts, Pausing, Driving
<1>13. StopHeld'
  <2>1. "leave" \notin Driving \cup {"wait", "backoff", "cont"}
    BY DEF Driving
  <2>2. \A u \in Threads : th[u].pc \in Driving \cup {"wait", "backoff", "cont"} => th'[u].pc = th[u].pc
    BY <1>2, <1>3, <2>1
  <2> QED
    BY <1>2, <2>2 DEF LockInv, StopHeld, Driving
<1> QED
  BY <1>2, <1>3, <1>9, <1>10, <1>11, <1>12, <1>13 DEF LockInv

(* The flock is given back. *)
LEMMA UnflockLocks ==
    ASSUME LockInv, NEW t \in Threads, Unflock(t)
    PROVE  /\ LockInv' /\ th[t].pc = "unflock" /\ th'[t].pc = "unlock" /\ th'[t].err = th[t].err
           /\ \A u \in Threads \ {t} : th'[u] = th[u]
<1>1. MainType /\ BusType /\ ThreadType /\ LockType /\ DogType
  BY DEF LockInv, SpiTypeOK
<1>2. th[t].pc = "unflock" /\ flk' = Free /\ UNCHANGED <<main, mutex, depth, died>>
  BY DEF Unflock
<1>3. /\ ThreadType' /\ th'[t].pc = "unlock" /\ th'[t].err = th[t].err
      /\ \A u \in Threads \ {t} : th'[u] = th[u]
  BY <1>1, <1>2, ThreadTo DEF Unflock, Pcs
<1>4. SpiTypeOK'
  <2>1. MainType' /\ BusType' /\ DogType' /\ LockType'
    BY <1>1 DEF Unflock, MainType, BusType, DogType, LockType
  <2> QED
    BY <1>3, <2>1 DEF SpiTypeOK
<1>5. HoldsMutex'
  <2>1. \A u \in Threads : th'[u].pc # "idle" <=> th[u].pc # "idle"
    BY <1>2, <1>3
  <2> QED
    BY <1>2, <2>1 DEF LockInv, HoldsMutex, Proc
<1>6. {"unflock", "unlock"} \cap Pausing = {}
  BY DEF Pausing, Driving
<1>7. HoldsFlock'
  <2>1. \A u \in Threads : flk # Free /\ (u # t => flk # u)
    BY <1>2, Names DEF LockInv, HoldsFlock
  <2>2. \A u \in Threads : th'[u].pc \notin Pausing \cup {"unflock"}
    BY <1>3, <1>6, <2>1 DEF LockInv, HoldsFlock
  <2> QED
    BY <1>2, <2>2, Names DEF HoldsFlock, Pausing, Driving
<1>8. DepthCounts'
  <2>1. \A u \in Threads : th'[u].pc \in Pausing <=> th[u].pc \in Pausing
    BY <1>2, <1>3, <1>6
  <2> QED
    BY <1>2, <2>1 DEF LockInv, DepthCounts, ThreadsOf, Proc, Pausing, Driving
<1>9. StopHeld'
  <2>1. \A u \in Threads : th[u].pc \in Driving \cup {"wait", "backoff", "cont"} => th'[u].pc = th[u].pc
    BY <1>2, <1>3, <1>6 DEF Pausing
  <2> QED
    BY <1>2, <2>1 DEF LockInv, StopHeld, Driving
<1> QED
  BY <1>2, <1>3, <1>4, <1>5, <1>7, <1>8, <1>9 DEF LockInv

(* The thread as it is when no call is under way. *)
LEMMA Rests ==
    ASSUME NEW c \in 0..MaxCalls
    PROVE  /\ [Resting EXCEPT !.calls = c] \in ThreadStates /\ Sound([Resting EXCEPT !.calls = c])
           /\ [Resting EXCEPT !.calls = c].pc = "idle" /\ ~[Resting EXCEPT !.calls = c].err
<1> DEFINE r == [Resting EXCEPT !.calls = c]
<1>1. r \in ThreadStates /\ r.pc = "idle" /\ r.err = FALSE
  BY RestingType DEF ThreadStates
<1> HIDE DEF r
<1>2. Sound(r)
  BY <1>1 DEF Sound
<1> QED
  BY <1>1, <1>2 DEF r

(* SpiExclusive ends. *)
LEMMA UnlockLocks ==
    ASSUME LockInv, NEW t \in Threads, Unlock(t)
    PROVE  /\ LockInv' /\ th[t].pc = "unlock" /\ th'[t].pc = "idle" /\ ~th'[t].err
           /\ \A u \in Threads \ {t} : th'[u] = th[u]
<1>1. MainType /\ BusType /\ ThreadType /\ LockType /\ DogType
  BY DEF LockInv, SpiTypeOK
<1>2. /\ th[t].pc = "unlock" /\ mutex' = [mutex EXCEPT ![Proc(t)] = Free]
      /\ UNCHANGED <<main, flk, depth, died>>
  BY DEF Unlock
<1> DEFINE r == [Resting EXCEPT !.calls = th[t].calls]
<1>3. r \in ThreadStates /\ Sound(r) /\ r.pc = "idle" /\ ~r.err
  <2>1. th[t].calls \in 0..MaxCalls
    BY <1>1 DEF ThreadType, ThreadStates
  <2> QED
    BY <2>1, Rests
<1>4. th' = [th EXCEPT ![t] = r]
  BY DEF Unlock
<1> HIDE DEF r
<1>5. ThreadType' /\ th'[t] = r /\ \A u \in Threads \ {t} : th'[u] = th[u]
  BY <1>1, <1>3, <1>4, ThreadMove
<1>6. SpiTypeOK'
  <2>1. MainType' /\ BusType' /\ DogType'
    BY <1>1 DEF Unlock, MainType, BusType, DogType
  <2>2. LockType'
    BY <1>1, <1>2, Names DEF Unlock, LockType
  <2> QED
    BY <1>5, <2>1, <2>2 DEF SpiTypeOK
<1>7. HoldsMutex'
  <2> SUFFICES ASSUME NEW u \in Threads PROVE (th[u].pc # "idle" <=> mutex[Proc(u)] = u)'
    BY DEF HoldsMutex
  <2>1. /\ th[u].pc # "idle" <=> mutex[Proc(u)] = u
        /\ mutex[Proc(t)] = t
    BY <1>2 DEF LockInv, HoldsMutex
  <2>2. mutex'[Proc(u)] = IF Proc(u) = Proc(t) THEN Free ELSE mutex[Proc(u)]
    BY <1>1, <1>2, Names DEF LockType
  <2>3. Free # u
    BY Names
  <2> QED
    BY <1>3, <1>5, <2>1, <2>2, <2>3 DEF Proc
<1>8. "idle" \notin Pausing \cup {"unflock"} /\ "unlock" \notin Pausing \cup {"unflock"}
  BY DEF Pausing, Driving
<1>9. HoldsFlock'
  <2>1. \A u \in Threads : th'[u].pc \in Pausing \cup {"unflock"} <=> th[u].pc \in Pausing \cup {"unflock"}
    BY <1>2, <1>3, <1>5, <1>8
  <2> QED
    BY <1>2, <2>1 DEF LockInv, HoldsFlock, Pausing, Driving
<1>10. DepthCounts'
  <2>1. \A u \in Threads : th'[u].pc \in Pausing <=> th[u].pc \in Pausing
    BY <1>2, <1>3, <1>5, <1>8
  <2> QED
    BY <1>2, <2>1 DEF LockInv, DepthCounts, ThreadsOf, Proc, Pausing, Driving
<1>11. StopHeld'
  <2>1. \A u \in Threads : th[u].pc \in Driving \cup {"wait", "backoff", "cont"} => th'[u].pc = th[u].pc
    BY <1>2, <1>5, <1>8 DEF Pausing
  <2> QED
    BY <1>2, <2>1 DEF LockInv, StopHeld, Driving
<1> QED
  BY <1>2, <1>3, <1>5, <1>6, <1>7, <1>9, <1>10, <1>11 DEF LockInv

(* A process dies: its threads are gone, and what they held is free. *)
LEMMA DieLocks ==
    ASSUME LockInv, NEW p \in Procs, Die(p), MainType', BusType', late' \in BOOLEAN, fought' \in BOOLEAN
    PROVE  /\ LockInv'
           /\ \A t \in ThreadsOf(p) : th'[t].pc = "idle" /\ ~th'[t].err
           /\ \A t \in Threads \ ThreadsOf(p) : th'[t] = th[t]
<1>1. ThreadType /\ LockType /\ DogType
  BY DEF LockInv, SpiTypeOK
<1>2. \A t \in ThreadsOf(p) : th'[t] \in ThreadStates /\ Sound(th'[t]) /\ th'[t].pc = "idle" /\ ~th'[t].err
  <2> TAKE t \in ThreadsOf(p)
  <2> DEFINE c == IF p = Daemon THEN th[t].calls ELSE MaxCalls
  <2>1. t \in Threads /\ Proc(t) = p
    BY DEF ThreadsOf
  <2>2. c \in 0..MaxCalls
    BY <1>1, <2>1, SpiAssumption DEF ThreadType, ThreadStates
  <2>3. th'[t] = [Resting EXCEPT !.calls = c]
    BY <2>1 DEF Die
  <2> HIDE DEF c
  <2> QED
    BY <2>2, <2>3, Rests
<1>3. \A t \in Threads \ ThreadsOf(p) : th'[t] = th[t]
  BY DEF Die, ThreadsOf
<1>4. ThreadType'
  <2>1. \A t \in Threads : th'[t] \in ThreadStates /\ Sound(th'[t])
    BY <1>1, <1>2, <1>3 DEF ThreadType
  <2>2. th' = [t \in Threads |-> th'[t]]
    BY DEF Die
  <2>3. th' \in [Threads -> ThreadStates]
    BY <2>1, <2>2
  <2> QED
    BY <2>1, <2>3 DEF ThreadType
<1>5. /\ mutex' = [mutex EXCEPT ![p] = Free] /\ depth' = [depth EXCEPT ![p] = 0]
      /\ flk' = IF flk \in ThreadsOf(p) THEN Free ELSE flk
  BY DEF Die
<1>6. LockType' /\ DogType'
  <2>1. LockType'
    BY <1>1, <1>5 DEF LockType
  <2>2. deaths' \in 0..MaxDeaths
    <3>1. deaths \in 0..MaxDeaths /\ deaths < MaxDeaths /\ deaths' = deaths + 1 /\ MaxDeaths \in Nat
      BY <1>1, SpiAssumption DEF DogType, Die
    <3> QED
      BY <3>1
  <2>3. dog' \in [phase : {"boot", "loop", "exit", "off"}, pc : {"check", "scan"}]
    BY <1>1 DEF DogType, Die
  <2>4. torn' \in BOOLEAN /\ died' \in BOOLEAN
    BY <1>1 DEF DogType, Die
  <2> QED
    BY <2>1, <2>2, <2>3, <2>4 DEF DogType
<1>7. HoldsMutex'
  <2> SUFFICES ASSUME NEW u \in Threads PROVE (th[u].pc # "idle" <=> mutex[Proc(u)] = u)'
    BY DEF HoldsMutex
  <2>1. th[u].pc # "idle" <=> mutex[Proc(u)] = u
    BY DEF LockInv, HoldsMutex
  <2>2. mutex'[Proc(u)] = IF Proc(u) = p THEN Free ELSE mutex[Proc(u)]
    BY <1>1, <1>5, Names DEF LockType
  <2>3. Free # u /\ (u \in ThreadsOf(p) <=> Proc(u) = p)
    BY Names DEF ThreadsOf
  <2> QED
    BY <1>2, <1>3, <2>1, <2>2, <2>3 DEF Proc
<1>8. "idle" \notin Pausing \cup {"unflock"}
  BY DEF Pausing, Driving
<1>9. HoldsFlock'
  <2> SUFFICES ASSUME NEW u \in Threads PROVE (th[u].pc \in Pausing \cup {"unflock"} <=> flk = u)'
    BY DEF HoldsFlock
  <2>1. th[u].pc \in Pausing \cup {"unflock"} <=> flk = u
    BY DEF LockInv, HoldsFlock
  <2>2. th'[u].pc \in Pausing \cup {"unflock"} <=> flk' = u
    BY <1>2, <1>3, <1>5, <1>8, <2>1, Names
  <2> QED
    BY <2>2 DEF Pausing, Driving
<1>10. DepthCounts'
  <2>1. ASSUME NEW q \in Procs, depth'[q] = 1 PROVE \E u \in ThreadsOf(q) : th'[u].pc \in Pausing
    <3>1. q # p /\ depth[q] = 1
      BY <1>1, <1>5, <2>1 DEF LockType
    <3>2. PICK u \in ThreadsOf(q) : th[u].pc \in Pausing
      BY <3>1 DEF LockInv, DepthCounts
    <3>3. th'[u] = th[u]
      BY <1>3, <3>1 DEF ThreadsOf
    <3> QED
      BY <3>2, <3>3
  <2>2. ASSUME NEW u \in Threads, th'[u].pc \in Pausing PROVE depth'[Proc(u)] = 1
    <3>1. u \notin ThreadsOf(p) /\ th[u].pc \in Pausing
      BY <1>2, <1>3, <1>8, <2>2
    <3>2. depth[Proc(u)] = 1 /\ Proc(u) # p
      BY <3>1 DEF LockInv, DepthCounts, ThreadsOf
    <3> QED
      BY <1>1, <1>5, <3>2, Names DEF LockType
  <2> QED
    BY <2>1, <2>2 DEF DepthCounts, ThreadsOf, Proc, Pausing, Driving
<1>11. StopHeld'
  BY DEF StopHeld, Die
<1> QED
  BY <1>2, <1>3, <1>4, <1>6, <1>7, <1>9, <1>10, <1>11 DEF LockInv, SpiTypeOK

(* The steps of Main, the core and the daemon's main thread. *)
Background ==
  \/ MainStep \/ CoreAck \/ ResumeCheck \/ ResumeScan \/ Exit \/ Restart

LEMMA MainMoves ==
    ASSUME SpiTypeOK, NEW k \in BusTasks, MainCompute(k) \/ MainStore(k)
    PROVE  SpiTypeOK'
<1>1. MainType /\ BusType /\ ThreadType /\ LockType /\ DogType
  BY DEF SpiTypeOK
<1>2. k \in Tasks /\ main.copy \in Gpo
  BY <1>1, SpiAssumption DEF MainType
<1>3. ThreadType' /\ LockType' /\ DogType'
  BY <1>1 DEF MainCompute, MainStore, ThreadType, LockType, DogType
<1>4. CASE MainCompute(k)
  <2>1. BusType'
    BY <1>1, <1>4 DEF MainCompute, BusType
  <2>2. ASSUME NEW pc \in {"between", "enabled", "strobed", "cleared"}, NEW copy \in Gpo, MainTo(k, pc, copy)
        PROVE  MainType'
    BY <1>1, <1>2, <2>2 DEF MainTo, MainType
  <2>3. /\ [main.copy EXCEPT !.en = {"io"}] \in Gpo
        /\ [main.copy EXCEPT !.strobe = TRUE, !.word = "main"] \in Gpo
        /\ [main.copy EXCEPT !.strobe = FALSE] \in Gpo
        /\ [main.copy EXCEPT !.en = {}] \in Gpo
    BY <1>2 DEF Gpo
  <2>4. MainType'
    BY <1>4, <2>2, <2>3 DEF MainCompute, MainEnable, MainStrobe, MainAcked, MainDisable
  <2> QED
    BY <1>3, <2>1, <2>4 DEF SpiTypeOK
<1>5. CASE MainStore(k)
  <2>1. BusType'
    BY <1>1, <1>2, <1>5, DriveType DEF MainStore, BusType
  <2>2. MainType'
    BY <1>1, <1>5 DEF MainStore, MainType
  <2> QED
    BY <1>3, <2>1, <2>2 DEF SpiTypeOK
<1> QED
  BY <1>4, <1>5

LEMMA BackgroundType ==
    ASSUME SpiTypeOK, Background
    PROVE  /\ SpiTypeOK' /\ UNCHANGED <<th, mutex, flk, depth, died>>
           /\ main'.stopping => main.stopping
<1>1. MainType /\ BusType /\ ThreadType /\ LockType /\ DogType
  BY DEF SpiTypeOK
<1>2. CASE \E k \in BusTasks : MainCompute(k) \/ MainStore(k)
  <2>1. PICK k \in BusTasks : MainCompute(k) \/ MainStore(k)
    BY <1>2
  <2>2. SpiTypeOK'
    BY <2>1, MainMoves
  <2>3. main'.stopping = main.stopping
    <3>1. CASE MainCompute(k)
      <4>1. PICK pc, copy : MainTo(k, pc, copy)
        BY <3>1 DEF MainCompute, MainEnable, MainStrobe, MainAcked, MainDisable
      <4> QED
        BY <1>1, <4>1 DEF MainTo, MainType
    <3>2. CASE MainStore(k)
      BY <1>1, <3>2 DEF MainStore, MainType
    <3> QED
      BY <2>1, <3>1, <3>2
  <2> QED
    BY <2>1, <2>2, <2>3 DEF MainCompute, MainStore
<1>3. CASE \E k \in Tasks : TaskStops(k)
  <2>1. PICK k \in Tasks : TaskStops(k)
    BY <1>3
  <2>2. MainType' /\ main'.stopping = main.stopping
    BY <1>1, <2>1 DEF TaskStops, MainType
  <2> QED
    BY <1>1, <2>1, <2>2 DEF TaskStops, SpiTypeOK, BusType, ThreadType, LockType, DogType
<1>4. CASE CoreAck
  <2>1. got' \in 0..GotCap
    <3>1. got \in 0..3
      BY <1>1 DEF BusType, GotCap
    <3> QED
      BY <1>4, <3>1 DEF CoreAck, GotCap
  <2>2. ack' \in BOOLEAN /\ gpo' \in Gpo
    BY <1>1, <1>4 DEF CoreAck, BusType, Gpo
  <2> QED
    BY <1>1, <1>4, <2>1, <2>2 DEF CoreAck, SpiTypeOK, BusType, MainType, ThreadType, LockType, DogType
<1>5. CASE ResumeCheck
  <2>1. dog' \in [phase : {"boot", "loop", "exit", "off"}, pc : {"check", "scan"}]
    BY <1>1, <1>5 DEF ResumeCheck, Pass, DogType
  <2> QED
    BY <1>1, <1>5, <2>1 DEF ResumeCheck, SpiTypeOK, BusType, MainType, ThreadType, LockType, DogType
<1>6. CASE ResumeScan
  <2>1. dog' \in [phase : {"boot", "loop", "exit", "off"}, pc : {"check", "scan"}]
    BY <1>1, <1>6 DEF ResumeScan, Pass, DogType
  <2>2. fought' \in BOOLEAN
    BY <1>1, <1>6 DEF ResumeScan, DogType
  <2>3. MainType' /\ (main'.stopping => main.stopping)
    BY <1>1, <1>6, SigType DEF ResumeScan, MainType
  <2> QED
    BY <1>1, <1>6, <2>1, <2>2, <2>3 DEF ResumeScan, SpiTypeOK, BusType, ThreadType, LockType, DogType
<1>7. CASE Exit
  <2>1. deaths' \in 0..MaxDeaths
    <3>1. deaths \in 0..MaxDeaths /\ deaths < MaxDeaths /\ deaths' = deaths + 1 /\ MaxDeaths \in Nat
      BY <1>1, <1>7, SpiAssumption DEF DogType, Exit
    <3> QED
      BY <3>1
  <2> QED
    BY <1>1, <1>7, <2>1 DEF Exit, SpiTypeOK, BusType, MainType, ThreadType, LockType, DogType
<1>8. CASE Restart
  BY <1>1, <1>8 DEF Restart, SpiTypeOK, BusType, MainType, ThreadType, LockType, DogType
<1> QED
  BY <1>2, <1>3, <1>4, <1>5, <1>6, <1>7, <1>8 DEF Background, MainStep

LEMMA BackgroundLocks ==
    ASSUME LockInv, SpiTypeOK', UNCHANGED <<th, mutex, flk, depth, died>>, main'.stopping => main.stopping
    PROVE  LockInv'
<1>1. HoldsMutex' /\ HoldsFlock' /\ DepthCounts'
  BY DEF LockInv, HoldsMutex, HoldsFlock, DepthCounts, ThreadsOf, Proc, Pausing, Driving
<1>2. StopHeld'
  BY DEF LockInv, StopHeld, Driving
<1> QED
  BY <1>1, <1>2 DEF LockInv

LEMMA LockStep ==
    ASSUME LockInv, SpiNext
    PROVE  LockInv'
<1>1. SpiTypeOK
  BY DEF LockInv
<1>2. CASE Background
  BY <1>1, <1>2, BackgroundType, BackgroundLocks
<1>3. ASSUME NEW t \in Threads, Call(t) \/ ThreadStep(t) PROVE LockInv'
  <2>1. CASE Call(t) \/ TakeFlock(t) \/ LeaveWindow(t) \/ Unflock(t) \/ Unlock(t)
    BY <2>1, CallLocks, TakeFlockLocks, LeaveWindowLocks, UnflockLocks, UnlockLocks
  <2>2. CASE StopMain(t) \/ WaitStopped(t) \/ EnterWindow(t) \/ Restore(t) \/ ContMain(t)
    BY <1>1, <2>2, PauseInner, InnerLocks
  <2>3. CASE SampleGpo(t) \/ BackOff(t) \/ Enable(t) \/ Disable(t)
    BY <1>1, <2>3, SampleInner, BackOffInner, EnableInner, DisableInner, InnerLocks
  <2>4. CASE SpiWord(t) \/ AckSet(t) \/ AckSetFails(t) \/ AckClr(t) \/ SpiWriteBytes(t)
    BY <1>1, <2>4, WordInner, AckInner, InnerLocks
  <2> QED
    BY <1>3, <2>1, <2>2, <2>3, <2>4 DEF ThreadStep
<1>4. ASSUME NEW p \in Procs, Kill(p) PROVE LockInv'
  <2>1. MainType' /\ BusType' /\ late' \in BOOLEAN /\ fought' \in BOOLEAN
    BY <1>1, <1>4 DEF Kill, SpiTypeOK, MainType, BusType, DogType
  <2> QED
    BY <1>4, <2>1, DieLocks DEF Kill
<1>5. CASE CrashGuard
  <2>1. MainType' /\ BusType' /\ late' \in BOOLEAN /\ fought' \in BOOLEAN
    BY <1>1, <1>5, SigType DEF CrashGuard, SpiTypeOK, BusType, DogType
  <2>2. Daemon \in Procs
    BY DEF Procs
  <2> QED
    BY <1>5, <2>1, <2>2, DieLocks DEF CrashGuard
<1> QED
  BY <1>2, <1>3, <1>4, <1>5 DEF SpiNext, Background

LEMMA LockStart ==
    ASSUME SpiInit
    PROVE  LockInv /\ \A t \in Threads : th[t].pc = "idle" /\ ~th[t].err
<1>1. Quiet \in Gpo
  BY DEF Quiet, Gpo
<1>2. MainType
  <2>1. (CHOOSE k \in BusTasks : TRUE) \in Tasks
    BY SpiAssumption
  <2> QED
    BY <1>1, <2>1 DEF SpiInit, MainType
<1>3. BusType /\ LockType /\ DogType
  <2>1. 0 \in 0..GotCap
    BY DEF GotCap
  <2>2. BusType
    BY <1>1, <2>1 DEF SpiInit, BusType
  <2>3. LockType
    BY DEF SpiInit, LockType
  <2>4. dog = [phase |-> "boot", pc |-> "check"] /\ deaths \in 0..MaxDeaths
    BY DEF SpiInit
  <2>5. late = FALSE /\ died = FALSE /\ fought = FALSE /\ torn = FALSE
    BY DEF SpiInit
  <2> QED
    BY <2>2, <2>3, <2>4, <2>5 DEF DogType
<1>4. PICK spent \in [Threads -> 0..MaxCalls] :
        th = [t \in Threads |-> [Resting EXCEPT !.calls = spent[t]]]
  BY DEF SpiInit
<1>5. \A t \in Threads : th[t] \in ThreadStates /\ Sound(th[t]) /\ th[t].pc = "idle" /\ ~th[t].err
  <2> TAKE t \in Threads
  <2> DEFINE c == spent[t]
  <2>1. c \in 0..MaxCalls /\ th[t] = [Resting EXCEPT !.calls = c]
    BY <1>4
  <2> HIDE DEF c
  <2> QED
    BY <2>1, Rests
<1>6. ThreadType
  <2>1. th = [t \in Threads |-> th[t]]
    BY <1>4
  <2>2. th \in [Threads -> ThreadStates]
    BY <1>5, <2>1
  <2> QED
    BY <1>5, <2>2 DEF ThreadType
<1>7. HoldsMutex /\ HoldsFlock /\ DepthCounts
  <2>1. "idle" \notin Pausing \cup {"unflock"}
    BY DEF Pausing, Driving
  <2>2. \A p \in Procs : mutex[p] = Free /\ depth[p] = 0
    BY DEF SpiInit
  <2>3. flk = Free
    BY DEF SpiInit
  <2> QED
    BY <1>5, <2>1, <2>2, <2>3, Names DEF HoldsMutex, HoldsFlock, DepthCounts
<1>8. StopHeld
  BY DEF SpiInit, StopHeld
<1> QED
  BY <1>2, <1>3, <1>5, <1>6, <1>7, <1>8 DEF LockInv, SpiTypeOK

LEMMA LockStutter ==
    ASSUME LockInv, UNCHANGED spiVars
    PROVE  LockInv'
<1>1. SpiTypeOK'
  BY DEF LockInv, spiVars, SpiTypeOK, MainType, BusType, ThreadType, LockType, DogType
<1> QED
  BY <1>1, BackgroundLocks DEF spiVars

LEMMA LocksHeld == SpiSpec => []LockInv
<1>1. SpiInit => LockInv
  BY LockStart
<1>2. LockInv /\ [SpiNext]_spiVars => LockInv'
  BY LockStep, LockStutter
<1> QED
  BY <1>1, <1>2, PTL DEF SpiSpec

(* Every variable keeps its shape; in particular mainPauseDepth never leaves  *)
(* {0, 1} although windows of the same process count into it, and no thread    *)
(* runs past SpiExclusive's attempts or the brackets of its call.              *)
THEOREM SpiTypeCorrect == SpiSpec => []SpiTypeOK
<1>1. LockInv => SpiTypeOK
  BY DEF LockInv
<1> QED
  BY <1>1, LocksHeld, PTL

(* fpga_spi.cpp MainSafeWindow / resumeStrandedMain: when every call has ended *)
(* and Main is still stopped, a process died in a window, and the daemon's     *)
(* mainPauseDepth does not hide it from resumeStrandedMain.                    *)
THEOREM StrandedMainIsSeen == SpiSpec => []StrandedIsSeen
<1>1. LockInv => StrandedIsSeen
  <2> SUFFICES ASSUME LockInv, main.stopping, \A t \in Threads : th[t].pc = "idle"
               PROVE  died /\ depth[Daemon] = 0
    BY DEF StrandedIsSeen
  <2>1. "idle" \notin Pausing /\ "idle" \notin Driving \cup {"wait", "backoff", "cont"}
    BY DEF Pausing, Driving
  <2>2. died
    BY <2>1 DEF LockInv, StopHeld
  <2>3. depth[Daemon] \in {0, 1}
    BY DEF LockInv, SpiTypeOK, LockType, Procs
  <2>4. depth[Daemon] # 1
    BY <2>1 DEF LockInv, DepthCounts, ThreadsOf, Procs
  <2> QED
    BY <2>2, <2>3, <2>4
<1> QED
  BY <1>1, LocksHeld, PTL

--------------------------------------------------------------------------------
(* The register.                                                           *)

(* Steps that neither write the register nor let a thread begin to: Main's   *)
(* transaction is as it was, and unless its tasks are resumed or stopped      *)
(* nobody drives.                                                            *)
LEMMA BusFrame ==
    ASSUME BusInv, Clean' => Clean, gpo' = gpo,
           main'.pc = main.pc, main'.copy = main.copy, main'.stored = main.stored,
           Clean' => \A u \in Threads : /\ th'[u].pc \in Driving => th'[u] = th[u] /\ main'.stopped = main.stopped
                                        /\ th[u].pc \in Writing => th'[u] = th[u]
    PROVE  BusInv'
<1> SUFFICES ASSUME Clean'
             PROVE  (/\ MainHeld /\ CopyShape
                     /\ \A t \in Threads : th[t].pc \in Driving \ {"sample"} => Borrowed(t)
                     /\ \A t \in Threads : th[t].pc = "enter" => gpo = th[t].saved
                     /\ (\A t \in Threads : th[t].pc \notin Driving \ {"sample", "enter"}) => RegisterIsMains)'
  BY DEF BusInv
<1>1. /\ MainHeld /\ CopyShape
      /\ \A t \in Threads : th[t].pc \in Driving \ {"sample"} => Borrowed(t)
      /\ \A t \in Threads : th[t].pc = "enter" => gpo = th[t].saved
      /\ (\A t \in Threads : th[t].pc \notin Writing) => RegisterIsMains
  BY DEF BusInv, Writing
<1>2. MainHeld'
  BY <1>1 DEF MainHeld, Driving
<1>3. CopyShape'
  BY <1>1 DEF CopyShape
<1>4. \A t \in Threads : th'[t].pc \in Driving \ {"sample"} => Borrowed(t)'
  BY <1>1 DEF Borrowed, Busy
<1>5. \A t \in Threads : th'[t].pc = "enter" => gpo' = th'[t].saved
  BY <1>1 DEF Driving
<1>6. (\A t \in Threads : th'[t].pc \notin Writing) => RegisterIsMains'
  BY <1>1 DEF RegisterIsMains
<1> QED
  BY <1>2, <1>3, <1>4, <1>5, <1>6 DEF Writing, Driving

(* The stores of a transaction. *)
TxnStep(t) ==
  \/ Enable(t) \/ SpiWord(t) \/ AckSet(t) \/ AckSetFails(t) \/ AckClr(t) \/ SpiWriteBytes(t) \/ Disable(t)

LEMMA TxnMoves ==
    ASSUME SpiTypeOK, NEW t \in Threads, TxnStep(t)
    PROVE  /\ th[t].pc \in Writing /\ th'[t].pc \in Writing /\ th'[t].saved = th[t].saved
           /\ \A u \in Threads \ {t} : th'[u] = th[u]
           /\ UNCHANGED <<main, fought, torn>>
<1>1. UNCHANGED <<main, fought, torn>>
  BY DEF TxnStep, Enable, SpiWord, AckSet, AckSetFails, AckClr, SpiWriteBytes, Disable
<1>2. \A u \in Threads \ {t} : th'[u] = th[u]
  BY EnableInner, WordInner, AckInner, DisableInner DEF TxnStep, Inner
<1>3. th[t].pc \in Writing
  BY DEF TxnStep, Enable, SpiWord, AckSet, AckSetFails, AckClr, SpiWriteBytes, Disable, Writing, Driving
<1>4. ThreadType /\ th[t] \in ThreadStates /\ Sound(th[t])
  BY DEF SpiTypeOK, ThreadType
<1>5. CASE Enable(t) \/ Disable(t) \/ AckSetFails(t) \/ AckClr(t)
  <2>1. th'[t].saved = th[t].saved /\ th'[t].pc \in {"word", "enable", "restore"} \cup (Driving \ {"sample", "enter"})
    BY <1>5, EnableInner, AckInner, DisableInner
  <2> QED
    BY <1>1, <1>2, <1>3, <2>1 DEF Writing, Driving
<1>6. CASE SpiWord(t)
  <2>1. th[t].pc = "word" /\ th[t].left > 0
    BY <1>4, <1>6 DEF SpiWord, Sound
  <2>2. th'[t].saved = th[t].saved /\ th'[t].pc = "ackSet"
    BY <1>4, <1>6, <2>1, ThreadTo DEF SpiWord, Pcs, Driving
  <2> QED
    BY <1>1, <1>2, <1>3, <2>2 DEF Writing, Driving
<1>7. CASE AckSet(t)
  <2>1. th[t].pc = "ackSet" /\ th[t].left > 0
    BY <1>4, <1>7 DEF AckSet, Sound
  <2>2. th'[t].saved = th[t].saved /\ th'[t].pc = "ackClr"
    BY <1>4, <1>7, <2>1, ThreadTo DEF AckSet, Pcs, Driving
  <2> QED
    BY <1>1, <1>2, <1>3, <2>2 DEF Writing, Driving
<1>8. CASE SpiWriteBytes(t)
  <2>1. th[t].pc = "bulk"
    BY <1>8 DEF SpiWriteBytes
  <2>2. th'[t].saved = th[t].saved /\ th'[t].pc = "disable"
    BY <1>4, <1>8, <2>1, ThreadTo DEF SpiWriteBytes, Pcs, Driving
  <2> QED
    BY <1>1, <1>2, <1>3, <2>2 DEF Writing, Driving
<1> QED
  BY <1>5, <1>6, <1>7, <1>8 DEF TxnStep

(* While one thread is in its window no other drives. *)
LEMMA OthersKeepOff ==
    ASSUME LockInv, NEW t \in Threads, th[t].pc \in Pausing,
           \A u \in Threads \ {t} : th'[u] = th[u]
    PROVE  \A u \in Threads \ {t} : th[u].pc \notin Driving /\ th'[u].pc \notin Driving
BY OneBorrower DEF LockInv, Pausing

LEMMA TxnBus ==
    ASSUME LockInv, BusInv, NEW t \in Threads, TxnStep(t)
    PROVE  BusInv'
<1>1. SpiTypeOK
  BY DEF LockInv
<1>2. /\ th[t].pc \in Writing /\ th'[t].pc \in Writing /\ th'[t].saved = th[t].saved
      /\ \A u \in Threads \ {t} : th'[u] = th[u]
      /\ UNCHANGED <<main, fought, torn>>
  BY <1>1, TxnMoves
<1>3. \A u \in Threads \ {t} : th[u].pc \notin Driving /\ th'[u].pc \notin Driving
  BY <1>2, OthersKeepOff DEF Writing, Pausing
<1> SUFFICES ASSUME Clean'
             PROVE  (/\ MainHeld /\ CopyShape
                     /\ \A u \in Threads : th[u].pc \in Driving \ {"sample"} => Borrowed(u)
                     /\ \A u \in Threads : th[u].pc = "enter" => gpo = th[u].saved
                     /\ (\A u \in Threads : th[u].pc \notin Driving \ {"sample", "enter"}) => RegisterIsMains)'
  BY DEF BusInv
<1>4. MainHeld /\ CopyShape /\ Borrowed(t)
  BY <1>2 DEF BusInv, Clean, Writing
<1>5. MainHeld'
  BY <1>2, <1>3, <1>4 DEF MainHeld, Driving, Writing
<1>6. CopyShape'
  BY <1>2, <1>4 DEF CopyShape
<1>7. Borrowed(t)'
  BY <1>2, <1>4 DEF Borrowed, Busy
<1>8. th'[t].pc # "enter" /\ "enter" \in Driving
  BY <1>2 DEF Writing, Driving
<1> QED
  BY <1>2, <1>3, <1>5, <1>6, <1>7, <1>8 DEF Driving, Writing

(* From the stop of Main to the first store, and the restore. *)
LEMMA WindowBus ==
    ASSUME LockInv, BusInv, NEW t \in Threads,
           WaitStopped(t) \/ SampleGpo(t) \/ EnterWindow(t) \/ Restore(t)
    PROVE  BusInv'
<1>1. SpiTypeOK /\ ThreadType /\ th[t] \in ThreadStates /\ gpo \in Gpo /\ MainType
  BY DEF LockInv, SpiTypeOK, ThreadType, BusType
<1>2. Inner(t)
  BY <1>1, PauseInner, SampleInner
<1>3. /\ \A u \in Threads \ {t} : th'[u] = th[u]
      /\ UNCHANGED <<main, fought, torn>>
  BY <1>2 DEF Inner, WaitStopped, SampleGpo, EnterWindow, Restore
<1>4. \A u \in Threads \ {t} : th[u].pc \notin Driving /\ th'[u].pc \notin Driving
  BY <1>2, <1>3, OthersKeepOff DEF Inner
<1> SUFFICES ASSUME Clean'
             PROVE  (/\ MainHeld /\ CopyShape
                     /\ \A u \in Threads : th[u].pc \in Driving \ {"sample"} => Borrowed(u)
                     /\ \A u \in Threads : th[u].pc = "enter" => gpo = th[u].saved
                     /\ (\A u \in Threads : th[u].pc \notin Driving \ {"sample", "enter"}) => RegisterIsMains)'
  BY DEF BusInv
<1>5. /\ MainHeld /\ CopyShape
      /\ th[t].pc \in Driving \ {"sample"} => Borrowed(t)
      /\ th[t].pc = "enter" => gpo = th[t].saved
      /\ th[t].pc \notin Writing => RegisterIsMains
  BY <1>3, <1>4 DEF BusInv, Clean, Writing
<1>6. CopyShape'
  BY <1>3, <1>5 DEF CopyShape
<1>7. SUFFICES /\ th'[t].pc \in Driving => main.stopped = Tasks
               /\ th'[t].pc \in Driving \ {"sample"} => Borrowed(t)'
               /\ th'[t].pc = "enter" => gpo' = th'[t].saved
               /\ th'[t].pc \notin Writing => RegisterIsMains'
  <2>1. MainHeld'
    BY <1>3, <1>4, <1>7 DEF MainHeld, Driving
  <2>2. \A u \in Threads : th'[u].pc \in Driving \ {"sample"} => Borrowed(u)'
    BY <1>4, <1>7
  <2>3. \A u \in Threads : th'[u].pc = "enter" => gpo' = th'[u].saved
    BY <1>4, <1>7 DEF Driving
  <2>4. (\A u \in Threads : th'[u].pc \notin Writing) => RegisterIsMains'
    BY <1>7
  <2> QED
    BY <1>6, <2>1, <2>2, <2>3, <2>4 DEF Driving, Writing
<1>8. CASE WaitStopped(t)
  <2>1. th[t].pc = "wait" /\ UNCHANGED gpo
    BY <1>8 DEF WaitStopped
  <2>2. \/ th'[t].pc = "sample" /\ main.stopped = Tasks
        \/ th'[t].pc = "backoff"
    BY <1>1, <1>8 DEF WaitStopped, To, AllTasksStopped, ThreadType, ThreadStates
  <2>3. RegisterIsMains'
    BY <1>3, <1>5, <2>1 DEF RegisterIsMains, Writing, Driving
  <2> QED
    BY <2>2, <2>3 DEF Driving
<1>9. CASE SampleGpo(t)
  <2>1. th[t].pc = "sample" /\ UNCHANGED gpo
    BY <1>9 DEF SampleGpo
  <2>2. RegisterIsMains /\ main.stopped = Tasks
    BY <1>5, <2>1 DEF Writing, Driving, MainHeld
  <2>3. RegisterIsMains'
    BY <1>3, <2>1, <2>2 DEF RegisterIsMains
  <2>4. CASE Busy(gpo)
    <3>1. th'[t].pc = "backoff"
      BY <1>1, <1>9, <2>4, SampleInner
    <3> QED
      BY <2>3, <3>1 DEF Driving
  <2>5. CASE ~Busy(gpo)
    <3>1. th'[t].pc = "enter" /\ th'[t].saved = gpo
      BY <1>1, <1>9, <2>5, SampleInner
    <3>2. gpo.en = {} /\ ~gpo.strobe /\ main.stored \in BOOLEAN
      BY <1>1, <2>5 DEF Busy, MainType
    <3>3. main.stored => main.pc = "between" /\ gpo = main.copy
      BY <1>5, <2>2, <3>2 DEF RegisterIsMains, CopyShape
    <3>4. ~main.stored => main.pc = "enabled"
      BY <2>2, <3>2 DEF RegisterIsMains
    <3>5. Borrowed(t)'
      BY <1>3, <2>1, <2>5, <3>1, <3>2, <3>3, <3>4 DEF Borrowed, Busy
    <3> QED
      BY <2>1, <2>2, <2>3, <3>1, <3>5
  <2> QED
    BY <2>4, <2>5
<1>10. CASE EnterWindow(t)
  <2>1. th[t].pc = "enter"
    BY <1>10 DEF EnterWindow
  <2>2. th'[t].pc \in {"enable", "restore"} /\ th'[t].saved = th[t].saved
    BY <1>1, <1>10 DEF EnterWindow, To, ThreadType, ThreadStates
  <2>3. Borrowed(t) /\ main.stopped = Tasks
    BY <1>5, <2>1 DEF Driving, MainHeld
  <2>4. Borrowed(t)'
    BY <1>3, <2>2, <2>3 DEF Borrowed, Busy
  <2> QED
    BY <2>2, <2>3, <2>4 DEF Driving, Writing
<1>11. CASE Restore(t)
  <2>1. th[t].pc = "restore" /\ gpo' = th[t].saved
    BY <1>11 DEF Restore, Drive
  <2>2. th'[t].pc = "cont"
    BY <1>1, <1>11 DEF Restore, To, ThreadType, ThreadStates
  <2>3. Borrowed(t)
    BY <1>5, <2>1 DEF Driving
  <2>4. th[t].saved.en = {} /\ th[t].saved.strobe = FALSE
    BY <1>1, <2>3 DEF Borrowed, Busy, ThreadStates, Gpo
  <2>5. RegisterIsMains'
    BY <1>3, <2>1, <2>3, <2>4 DEF Borrowed, RegisterIsMains
  <2> QED
    BY <2>2, <2>5 DEF Driving
<1> QED
  BY <1>8, <1>9, <1>10, <1>11

(* Main's own transaction. *)
LEMMA MainBus ==
    ASSUME LockInv, BusInv, NEW k \in BusTasks, MainCompute(k) \/ MainStore(k)
    PROVE  BusInv'
<1>1. MainType /\ main.copy \in Gpo /\ k \in Tasks
  BY SpiAssumption DEF LockInv, SpiTypeOK, MainType
<1>2. UNCHANGED <<th, fought, torn>> /\ k \notin main.stopped
  BY DEF MainCompute, MainStore
<1>3. main'.stopped = main.stopped /\ main'.stored \in BOOLEAN
  <2>1. CASE MainCompute(k)
    <3>1. PICK pc, copy : MainTo(k, pc, copy)
      BY <2>1 DEF MainCompute, MainEnable, MainStrobe, MainAcked, MainDisable
    <3> QED
      BY <1>1, <3>1 DEF MainTo, MainType
  <2>2. CASE MainStore(k)
    BY <1>1, <2>2 DEF MainStore, MainType
  <2> QED
    BY <2>1, <2>2
<1> SUFFICES ASSUME Clean'
             PROVE  (/\ MainHeld /\ CopyShape
                     /\ \A u \in Threads : th[u].pc \in Driving \ {"sample"} => Borrowed(u)
                     /\ \A u \in Threads : th[u].pc = "enter" => gpo = th[u].saved
                     /\ (\A u \in Threads : th[u].pc \notin Driving \ {"sample", "enter"}) => RegisterIsMains)'
  BY DEF BusInv
<1>4. MainHeld /\ CopyShape /\ ((\A u \in Threads : th[u].pc \notin Driving) => RegisterIsMains)
  BY <1>2 DEF BusInv, Clean
<1>5. \A u \in Threads : th[u].pc \notin Driving
  BY <1>1, <1>2, <1>4 DEF MainHeld
<1>6. RegisterIsMains
  BY <1>4, <1>5
<1>7. CopyShape' /\ RegisterIsMains'
  <2>1. CASE MainCompute(k)
    <3>1. gpo = main.copy /\ UNCHANGED gpo
      BY <1>6, <2>1 DEF MainCompute, RegisterIsMains
    <3>2. ASSUME NEW pc, NEW copy \in Gpo, MainTo(k, pc, copy)
          PROVE  main'.pc = pc /\ main'.copy = copy /\ main'.stored = FALSE
      BY <1>1, <3>2 DEF MainTo, MainType
    <3>3. CASE MainEnable(k)
      <4> DEFINE c == [main.copy EXCEPT !.en = {"io"}]
      <4>1. c \in Gpo /\ c.en = {"io"} /\ c.strobe = main.copy.strobe
        BY <1>1 DEF Gpo
      <4>2. MainTo(k, "enabled", c) /\ main.pc = "between"
        BY <3>3 DEF MainEnable
      <4> HIDE DEF c
      <4>3. main'.pc = "enabled" /\ main'.copy = c /\ main'.stored = FALSE
        BY <3>2, <4>1, <4>2
      <4> QED
        BY <1>4, <3>1, <4>1, <4>2, <4>3 DEF CopyShape, RegisterIsMains
    <3>4. CASE MainStrobe(k)
      <4> DEFINE c == [main.copy EXCEPT !.strobe = TRUE, !.word = "main"]
      <4>1. c \in Gpo /\ c.en = main.copy.en /\ c.strobe = TRUE
        BY <1>1 DEF Gpo
      <4>2. MainTo(k, "strobed", c) /\ main.pc = "enabled"
        BY <3>4 DEF MainStrobe
      <4> HIDE DEF c
      <4>3. main'.pc = "strobed" /\ main'.copy = c /\ main'.stored = FALSE
        BY <3>2, <4>1, <4>2
      <4> QED
        BY <1>4, <3>1, <4>1, <4>2, <4>3 DEF CopyShape, RegisterIsMains
    <3>5. CASE MainAcked(k)
      <4> DEFINE c == [main.copy EXCEPT !.strobe = FALSE]
      <4>1. c \in Gpo /\ c.en = main.copy.en /\ c.strobe = FALSE
        BY <1>1 DEF Gpo
      <4>2. MainTo(k, "cleared", c) /\ main.pc = "strobed"
        BY <3>5 DEF MainAcked
      <4> HIDE DEF c
      <4>3. main'.pc = "cleared" /\ main'.copy = c /\ main'.stored = FALSE
        BY <3>2, <4>1, <4>2
      <4> QED
        BY <1>4, <3>1, <4>1, <4>2, <4>3 DEF CopyShape, RegisterIsMains
    <3>6. CASE MainDisable(k)
      <4> DEFINE c == [main.copy EXCEPT !.en = {}]
      <4>1. c \in Gpo /\ c.en = {} /\ c.strobe = main.copy.strobe
        BY <1>1 DEF Gpo
      <4>2. MainTo(k, "between", c) /\ main.pc = "cleared"
        BY <3>6 DEF MainDisable
      <4> HIDE DEF c
      <4>3. main'.pc = "between" /\ main'.copy = c /\ main'.stored = FALSE
        BY <3>2, <4>1, <4>2
      <4> QED
        BY <1>4, <3>1, <4>1, <4>2, <4>3 DEF CopyShape, RegisterIsMains
    <3> QED
      BY <2>1, <3>3, <3>4, <3>5, <3>6 DEF MainCompute
  <2>2. CASE MainStore(k)
    <3>1. gpo' = main.copy /\ main'.copy = main.copy /\ main'.pc = main.pc /\ main'.stored = TRUE
      BY <1>1, <2>2 DEF MainStore, Drive, MainType
    <3> QED
      BY <1>4, <3>1 DEF CopyShape, RegisterIsMains
  <2> QED
    BY <2>1, <2>2
<1>8. MainHeld'
  BY <1>2, <1>5 DEF MainHeld, Driving
<1> QED
  BY <1>2, <1>5, <1>7, <1>8 DEF Driving

LEMMA BusStep ==
    ASSUME LockInv, BusInv, SpiNext
    PROVE  BusInv'
<1>1. SpiTypeOK /\ MainType /\ ThreadType
  BY DEF LockInv, SpiTypeOK
<1>2. CASE \E k \in BusTasks : MainCompute(k) \/ MainStore(k)
  BY <1>2, MainBus
<1>3. CASE \E k \in Tasks : TaskStops(k)
  <2>1. PICK k \in Tasks : TaskStops(k)
    BY <1>3
  <2>2. /\ main'.pc = main.pc /\ main'.copy = main.copy /\ main'.stored = main.stored
        /\ UNCHANGED <<gpo, th, fought, torn>> /\ k \notin main.stopped
    BY <1>1, <2>1 DEF TaskStops, MainType
  <2>3. Clean' => \A u \in Threads : th[u].pc \notin Driving
    BY <2>1, <2>2 DEF BusInv, MainHeld, Clean
  <2>4. Clean' => \A u \in Threads : /\ th'[u].pc \in Driving => th'[u] = th[u] /\ main'.stopped = main.stopped
                                     /\ th[u].pc \in Writing => th'[u] = th[u]
    BY <2>2, <2>3
  <2> QED
    BY <2>2, <2>4, BusFrame DEF Clean
<1>4. CASE CoreAck \/ ResumeCheck \/ Exit \/ Restart
  <2>1. UNCHANGED <<main, gpo, th, fought, torn>>
    BY <1>4 DEF CoreAck, ResumeCheck, Exit, Restart
  <2> QED
    BY <2>1, BusFrame DEF Clean
<1>5. CASE ResumeScan
  <2>1. UNCHANGED <<gpo, th, torn>> /\ (fought' = fought \/ fought' = (fought \/ Others({})))
    BY <1>5 DEF ResumeScan
  <2>2. main'.pc = main.pc /\ main'.copy = main.copy /\ main'.stored = main.stored
    BY <1>1, <1>5, SigType DEF ResumeScan, MainType
  <2>3. Clean' => \/ main' = main
                   \/ \A u \in Threads : th[u].pc \notin Driving
    BY <1>5 DEF ResumeScan, Clean, Others, InWindow
  <2>4. Clean' => Clean
    BY <2>1 DEF Clean
  <2>5. Clean' => \A u \in Threads : /\ th'[u].pc \in Driving => th'[u] = th[u] /\ main'.stopped = main.stopped
                                     /\ th[u].pc \in Writing => th'[u] = th[u]
    BY <2>1, <2>3
  <2> QED
    BY <2>1, <2>2, <2>4, <2>5, BusFrame
<1>6. ASSUME NEW t \in Threads, Call(t) \/ TakeFlock(t) \/ LeaveWindow(t) \/ Unflock(t) \/ Unlock(t)
      PROVE  BusInv'
  <2>1. /\ th[t].pc \in {"idle", "flock", "leave", "unflock", "unlock"}
        /\ th'[t].pc \in {"idle", "flock", "stop", "unflock", "unlock"}
        /\ \A u \in Threads \ {t} : th'[u] = th[u]
    BY <1>6, CallLocks, TakeFlockLocks, LeaveWindowLocks, UnflockLocks, UnlockLocks
  <2>2. UNCHANGED <<main, gpo, fought, torn>>
    BY <1>6 DEF Call, TakeFlock, LeaveWindow, Unflock, Unlock
  <2>3. \A u \in Threads : /\ th'[u].pc \in Driving => th'[u] = th[u] /\ main'.stopped = main.stopped
                           /\ th[u].pc \in Writing => th'[u] = th[u]
    BY <2>1, <2>2 DEF Writing, Driving
  <2> QED
    BY <2>2, <2>3, BusFrame DEF Clean
<1>7. ASSUME NEW t \in Threads, StopMain(t) \/ BackOff(t) \/ ContMain(t)
      PROVE  BusInv'
  <2>1. Inner(t)
    BY <1>1, <1>7, PauseInner, BackOffInner
  <2>2. /\ th[t].pc \notin Driving /\ \A u \in Threads \ {t} : th'[u] = th[u]
        /\ th[t].pc \in Pausing
    BY <1>7, <2>1 DEF StopMain, BackOff, ContMain, Driving, Inner
  <2>3. th'[t].pc \notin Driving
    BY <1>1, <1>7, BackOffInner DEF StopMain, ContMain, To, ThreadType, ThreadStates, Driving
  <2>4. UNCHANGED <<gpo, fought, torn>>
    BY <1>7 DEF StopMain, BackOff, ContMain
  <2>5. main'.pc = main.pc /\ main'.copy = main.copy /\ main'.stored = main.stored
    BY <1>1, <1>7, SigType DEF StopMain, BackOff, ContMain, MainType
  <2>6. \A u \in Threads : th[u].pc \notin Driving /\ th'[u].pc \notin Driving
    BY <2>2, <2>3, OthersKeepOff
  <2> QED
    BY <2>4, <2>5, <2>6, BusFrame DEF Clean, Writing
<1>8. ASSUME NEW t \in Threads, WaitStopped(t) \/ SampleGpo(t) \/ EnterWindow(t) \/ Restore(t) \/ TxnStep(t)
      PROVE  BusInv'
  BY <1>8, WindowBus, TxnBus
<1>9. ASSUME NEW p \in Procs, Die(p), Clean' => Clean, gpo' = gpo,
             main'.pc = main.pc, main'.copy = main.copy, main'.stored = main.stored,
             \A t \in ThreadsOf(p) : th'[t].pc = "idle",
             \A t \in Threads \ ThreadsOf(p) : th'[t] = th[t],
             Clean' => \/ main' = main
                       \/ \A t \in Threads \ ThreadsOf(p) : th[t].pc \notin Driving
      PROVE  BusInv'
  <2>1. Clean' => \A t \in ThreadsOf(p) : th[t].pc \notin Writing
    BY <1>9 DEF Die, Clean, Writing
  <2>2. Clean' => \A u \in Threads : /\ th'[u].pc \in Driving => th'[u] = th[u] /\ main'.stopped = main.stopped
                                     /\ th[u].pc \in Writing => th'[u] = th[u]
    BY <1>9, <2>1 DEF Driving
  <2> QED
    BY <1>9, <2>2, BusFrame
<1>10. ASSUME NEW p \in Procs, Kill(p) PROVE BusInv'
  <2>1. MainType' /\ BusType' /\ late' \in BOOLEAN /\ fought' \in BOOLEAN
    BY <1>10 DEF Kill, LockInv, SpiTypeOK, MainType, BusType, DogType
  <2>2. /\ \A t \in ThreadsOf(p) : th'[t].pc = "idle"
        /\ \A t \in Threads \ ThreadsOf(p) : th'[t] = th[t]
    BY <1>10, <2>1, DieLocks DEF Kill
  <2>3. Die(p) /\ UNCHANGED <<main, gpo>>
    BY <1>10 DEF Kill
  <2>4. Clean' => Clean
    BY <1>10 DEF Kill, Die, Clean
  <2> QED
    BY <1>9, <2>2, <2>3, <2>4
<1>11. CASE CrashGuard
  <2>1. MainType' /\ BusType' /\ late' \in BOOLEAN /\ fought' \in BOOLEAN
    BY <1>11, SigType DEF CrashGuard, LockInv, SpiTypeOK, BusType, DogType
  <2>2. Daemon \in Procs /\ Die(Daemon) /\ gpo' = gpo
    BY <1>11 DEF Procs, CrashGuard
  <2>3. /\ \A t \in ThreadsOf(Daemon) : th'[t].pc = "idle"
        /\ \A t \in Threads \ ThreadsOf(Daemon) : th'[t] = th[t]
    BY <2>1, <2>2, DieLocks
  <2>4. main'.pc = main.pc /\ main'.copy = main.copy /\ main'.stored = main.stored
    BY <1>1, <1>11, SigType DEF CrashGuard, MainType
  <2>5. Clean' => Clean
    BY <1>11 DEF CrashGuard, Die, Clean
  <2>6. ThreadsOf(Daemon) = DaemonThreads
    BY NamesAssumption DEF ThreadsOf, Threads, Proc
  <2>7. Clean' => \A t \in Threads \ DaemonThreads : th[t].pc \notin Driving
    BY <1>11 DEF CrashGuard, Clean, Others, InWindow
  <2> QED
    BY <1>9, <2>2, <2>3, <2>4, <2>5, <2>6, <2>7
<1> QED
  BY <1>2, <1>3, <1>4, <1>5, <1>6, <1>7, <1>8, <1>10, <1>11 DEF SpiNext, MainStep, ThreadStep, TxnStep

LEMMA BusStart ==
    ASSUME SpiInit
    PROVE  BusInv
<1>1. \A t \in Threads : th[t].pc \notin Driving
  BY LockStart DEF Driving
<1>2. main.pc = "between" /\ main.copy = Quiet /\ main.stored = TRUE /\ gpo = Quiet
  BY DEF SpiInit
<1>3. Quiet.en = {} /\ Quiet.strobe = FALSE
  BY DEF Quiet
<1>4. MainHeld /\ CopyShape /\ RegisterIsMains
  BY <1>1, <1>2, <1>3 DEF MainHeld, CopyShape, RegisterIsMains
<1> QED
  BY <1>1, <1>4 DEF BusInv, Driving

LEMMA BusStutter ==
    ASSUME BusInv, UNCHANGED spiVars
    PROVE  BusInv'
BY BusFrame DEF spiVars, Clean

LEMMA RegisterKept == SpiSpec => [](LockInv /\ BusInv)
<1>1. SpiInit => LockInv /\ BusInv
  BY LockStart, BusStart
<1>2. LockInv /\ BusInv /\ [SpiNext]_spiVars => (LockInv /\ BusInv)'
  BY LockStep, LockStutter, BusStep, BusStutter
<1> QED
  BY <1>1, <1>2, PTL DEF SpiSpec

(* fpga_spi.hpp, MainSafeWindow: however many threads and tool processes      *)
(* borrow the register, whenever a task of Main can run and Main has no store *)
(* under way the register holds what Main last stored - unless a process died *)
(* while driving it or somebody resumed Main in the middle of a window.       *)
THEOREM RegisterHandedBack == SpiSpec => []BusHandedBack
<1>1. LockInv /\ BusInv => BusHandedBack
  <2> SUFFICES ASSUME LockInv, BusInv, ~fought, ~torn, main.stopped # Tasks, main.stored
               PROVE  gpo = main.copy
    BY DEF BusHandedBack
  <2>1. \A t \in Threads : th[t].pc \notin Driving
    BY DEF BusInv, Clean, MainHeld
  <2>2. RegisterIsMains
    BY <2>1 DEF BusInv, Clean
  <2> QED
    BY <2>2 DEF RegisterIsMains
<1> QED
  BY <1>1, RegisterKept, PTL

--------------------------------------------------------------------------------
(* The words.                                                              *)

Prompt == Clean /\ ~late

LEMMA WordsFrame ==
    ASSUME WordsInv, Prompt' => Prompt, UNCHANGED <<gpo, ack, got>>,
           main'.pc = main.pc, main'.stored = main.stored,
           \A u \in Threads : th'[u].err => th[u].err,
           Prompt' => \A u \in Threads : th'[u].pc \in Writing \/ th[u].pc \in Writing => th'[u] = th[u]
    PROVE  WordsInv'
<1> SUFFICES ASSUME Prompt'
             PROVE  (/\ \A t \in Threads : ~th[t].err
                     /\ \A t \in Threads : th[t].pc \in Driving \ {"sample", "enter"} => TxnShape(t)
                     /\ (\A t \in Threads : th[t].pc \notin Driving \ {"sample", "enter"}) => AckShape)'
  BY DEF WordsInv, Prompt
<1>1. /\ \A t \in Threads : ~th[t].err
      /\ \A t \in Threads : th[t].pc \in Writing => TxnShape(t)
      /\ (\A t \in Threads : th[t].pc \notin Writing) => AckShape
  BY DEF WordsInv, Prompt, Writing
<1>2. ASSUME NEW t \in Threads, th'[t].pc \in Writing PROVE TxnShape(t)'
  <2>1. th'[t] = th[t] /\ TxnShape(t)
    BY <1>1, <1>2
  <2>2. seg(t)' = seg(t)
    BY <2>1 DEF seg
  <2> QED
    BY <2>1, <2>2 DEF TxnShape, Count
<1>3. (\A t \in Threads : th'[t].pc \notin Writing) => AckShape'
  BY <1>1 DEF AckShape
<1> QED
  BY <1>1, <1>2, <1>3 DEF Writing, Driving

(* A step to another place keeps the error flag. *)
LEMMA ToKeeps ==
    ASSUME ThreadType, NEW t \in Threads, NEW x, To(t, x)
    PROVE  /\ th'[t].pc = x /\ th'[t].err = th[t].err /\ th'[t].left = th[t].left
           /\ th'[t].op = th[t].op /\ th'[t].seg = th[t].seg
           /\ \A u \in Threads \ {t} : th'[u] = th[u]
BY DEF To, ThreadType, ThreadStates

(* The transactions, store by store. *)
LEMMA TxnWords ==
    ASSUME LockInv, WordsInv, NEW t \in Threads, TxnStep(t), Prompt'
    PROVE  ~th'[t].err /\ TxnShape(t)'
<1>1. SpiTypeOK /\ ThreadType /\ BusType /\ gpo \in Gpo /\ ack \in BOOLEAN /\ got \in 0..GotCap
  BY DEF LockInv, SpiTypeOK, BusType
<1>2. th[t].pc \in Writing /\ UNCHANGED <<fought, torn>> /\ th'[t].pc \in Writing
  BY <1>1, TxnMoves
<1>3. ~late /\ Prompt
  <2>1. CASE AckSetFails(t) \/ AckClr(t)
    <3>1. late' = late \/ late'
      BY <2>1 DEF AckSetFails, AckClr
    <3>2. ~late' /\ ~fought' /\ ~torn'
      BY DEF Prompt, Clean
    <3> QED
      BY <1>2, <3>1, <3>2 DEF Prompt, Clean
  <2>2. CASE ~(AckSetFails(t) \/ AckClr(t))
    <3>1. late' = late
      BY <2>2 DEF TxnStep, Enable, SpiWord, AckSet, SpiWriteBytes, Disable
    <3> QED
      BY <1>2, <3>1 DEF Prompt, Clean
  <2> QED
    BY <2>1, <2>2
<1>4. ~th[t].err /\ TxnShape(t)
  BY <1>2, <1>3 DEF WordsInv, Prompt, Writing
<1>5. seg(t) \in Segments /\ th[t] \in ThreadStates /\ Sound(th[t])
  <2>1. th[t].pc # "idle"
    BY <1>2 DEF Writing, Driving
  <2> QED
    BY <1>1, <2>1, SegOf DEF ThreadType
<1>6. seg(t).en \in {"fpga", "io"} /\ seg(t).n \in {1, 2} /\ th[t].left \in Nat
  BY <1>5 DEF Segments, ThreadStates
<1>7. CASE Enable(t)
  <2> DEFINE g == [gpo EXCEPT !.en = @ \cup {seg(t).en}]
  <2>1. th[t].pc = "enable" /\ Drive(g) /\ ack' = ack
    BY <1>7 DEF Enable
  <2>2. gpo.en = {} /\ ~gpo.strobe /\ ~ack
    BY <1>4, <2>1 DEF TxnShape
  <2>3. g \in Gpo /\ g.en = {seg(t).en} /\ g.strobe = gpo.strobe
    BY <1>1, <1>6, <2>2 DEF Gpo
  <2> HIDE DEF g
  <2>4. gpo' = g /\ got' = 0
    BY <1>1, <2>1, <2>2, <2>3, DriveType
  <2>5. /\ th'[t].pc = "word" /\ th'[t].left = seg(t).n /\ th'[t].err = th[t].err
        /\ th'[t].op = th[t].op /\ th'[t].seg = th[t].seg
    BY <1>1, <1>7, EnableInner
  <2>6. seg(t)' = seg(t)
    BY <2>5 DEF seg
  <2>7. seg(t).n - seg(t).n = 0 /\ seg(t).n <= seg(t).n
    BY <1>6
  <2> QED
    BY <1>4, <2>1, <2>2, <2>3, <2>4, <2>5, <2>6, <2>7 DEF TxnShape, Count
<1>8. CASE SpiWord(t)
  <2> DEFINE g == [gpo EXCEPT !.word = "ours", !.strobe = TRUE]
  <2>1. th[t].pc = "word" /\ Drive(g) /\ ack' = ack
    BY <1>8 DEF SpiWord
  <2>2. gpo.en = {seg(t).en} /\ th[t].left <= seg(t).n /\ got = seg(t).n - th[t].left /\ ~ack
    BY <1>4, <2>1 DEF TxnShape, Count
  <2>3. g \in Gpo /\ g.en = gpo.en /\ g.strobe
    BY <1>1 DEF Gpo
  <2> HIDE DEF g
  <2>4. gpo' = g /\ got' = got
    BY <1>1, <2>1, <2>2, <2>3, DriveType
  <2>5. /\ th'[t].pc = "ackSet" /\ th'[t].left = th[t].left /\ th'[t].err = th[t].err
        /\ th'[t].op = th[t].op /\ th'[t].seg = th[t].seg
    BY <1>1, <1>8, ToKeeps DEF SpiWord
  <2>6. seg(t)' = seg(t)
    BY <2>5 DEF seg
  <2> QED
    BY <1>4, <2>1, <2>2, <2>3, <2>4, <2>5, <2>6 DEF TxnShape, Count
<1>9. CASE AckSet(t)
  <2> DEFINE g == [gpo EXCEPT !.strobe = FALSE]
  <2>1. th[t].pc = "ackSet" /\ Drive(g) /\ ack' = ack /\ ack
    BY <1>9 DEF AckSet
  <2>2. gpo.en = {seg(t).en} /\ th[t].left <= seg(t).n /\ got = seg(t).n - th[t].left + 1
    BY <1>4, <2>1 DEF TxnShape, Count
  <2>3. g \in Gpo /\ g.en = gpo.en /\ ~g.strobe
    BY <1>1 DEF Gpo
  <2> HIDE DEF g
  <2>4. gpo' = g /\ got' = got
    BY <1>1, <2>1, <2>2, <2>3, DriveType
  <2>5. /\ th'[t].pc = "ackClr" /\ th'[t].left = th[t].left /\ th'[t].err = th[t].err
        /\ th'[t].op = th[t].op /\ th'[t].seg = th[t].seg
    BY <1>1, <1>9, ToKeeps DEF AckSet
  <2>6. seg(t)' = seg(t)
    BY <2>5 DEF seg
  <2> QED
    BY <1>4, <2>2, <2>3, <2>4, <2>5, <2>6 DEF TxnShape, Count
<1>10. CASE AckSetFails(t)
  BY <1>10 DEF AckSetFails, Prompt
<1>11. CASE AckClr(t)
  <2>1. /\ th[t].pc = "ackClr" /\ ~ack /\ WordDone(t, FALSE) /\ UNCHANGED <<gpo, ack, got>>
    BY <1>11 DEF AckClr, Prompt
  <2>2. /\ gpo.en = {seg(t).en} /\ th[t].left <= seg(t).n /\ got = seg(t).n - th[t].left + 1
        /\ ~gpo.strobe
    BY <1>4, <2>1 DEF TxnShape, Count
  <2>3. /\ th'[t].pc \in {"word", "bulk", "disable"}
        /\ th[t].left > 0 /\ th'[t].left = th[t].left - 1
        /\ th'[t].op = th[t].op /\ th'[t].seg = th[t].seg
        /\ ~th'[t].err
        /\ th'[t].pc = "word" <=> th[t].left > 1
    BY <1>1, <1>4, <2>1, WordDoneMoves
  <2>4. seg(t)' = seg(t)
    BY <2>3 DEF seg
  <2>5. /\ th'[t].left <= seg(t).n
        /\ got = seg(t).n - th'[t].left
        /\ th'[t].pc # "word" => got = seg(t).n
    BY <1>6, <2>2, <2>3
  <2> QED
    BY <2>1, <2>2, <2>3, <2>4, <2>5 DEF TxnShape, Count
<1>12. CASE SpiWriteBytes(t)
  <2> DEFINE g == [gpo EXCEPT !.word = "ours", !.strobe = FALSE]
  <2>1. th[t].pc = "bulk" /\ Drive(g) /\ ack' = ack
    BY <1>12 DEF SpiWriteBytes
  <2>2. gpo.en = {seg(t).en} /\ th[t].left <= seg(t).n /\ got = seg(t).n /\ ~ack
    BY <1>4, <2>1 DEF TxnShape, Count
  <2>3. g \in Gpo /\ g.en = gpo.en /\ ~g.strobe
    BY <1>1 DEF Gpo
  <2> HIDE DEF g
  <2>4. gpo' = g /\ got' = got
    BY <1>1, <2>1, <2>2, <2>3, DriveType
  <2>5. /\ th'[t].pc = "disable" /\ th'[t].left = th[t].left /\ th'[t].err = th[t].err
        /\ th'[t].op = th[t].op /\ th'[t].seg = th[t].seg
    BY <1>1, <1>12, ToKeeps DEF SpiWriteBytes
  <2>6. seg(t)' = seg(t)
    BY <2>5 DEF seg
  <2> QED
    BY <1>4, <2>1, <2>2, <2>3, <2>4, <2>5, <2>6 DEF TxnShape, Count
<1>13. CASE Disable(t)
  <2> DEFINE g == [gpo EXCEPT !.en = @ \ {seg(t).en}]
  <2>1. th[t].pc = "disable" /\ Drive(g) /\ ack' = ack
    BY <1>13 DEF Disable
  <2>2. gpo.en = {seg(t).en} /\ ~gpo.strobe /\ ~ack
    BY <1>4, <2>1 DEF TxnShape, Count
  <2>3. g \in Gpo /\ g.en = {} /\ g.strobe = gpo.strobe
    BY <1>1, <2>2 DEF Gpo
  <2> HIDE DEF g
  <2>4. gpo' = g
    BY <2>1 DEF Drive
  <2>5. th'[t].pc \in {"enable", "restore"} /\ th'[t].err = th[t].err
    BY <1>1, <1>13, DisableInner
  <2> QED
    BY <1>4, <2>1, <2>2, <2>3, <2>4, <2>5 DEF TxnShape
<1> QED
  BY <1>7, <1>8, <1>9, <1>10, <1>11, <1>12, <1>13 DEF TxnStep

(* Main's transactions keep the acknowledge in step. *)
LEMMA MainWords ==
    ASSUME LockInv, BusInv, WordsInv, NEW k \in BusTasks, MainCompute(k) \/ MainStore(k)
    PROVE  WordsInv'
<1>1. MainType /\ k \in Tasks /\ main.copy \in Gpo
  BY SpiAssumption DEF LockInv, SpiTypeOK, MainType
<1>2. UNCHANGED <<th, ack, fought, torn, late>> /\ k \notin main.stopped
  BY DEF MainCompute, MainStore
<1> SUFFICES ASSUME Prompt'
             PROVE  (/\ \A t \in Threads : ~th[t].err
                     /\ \A t \in Threads : th[t].pc \in Driving \ {"sample", "enter"} => TxnShape(t)
                     /\ (\A t \in Threads : th[t].pc \notin Driving \ {"sample", "enter"}) => AckShape)'
  BY DEF WordsInv, Prompt
<1>3. Clean /\ ~late
  BY <1>2 DEF Prompt, Clean
<1>4. \A u \in Threads : th[u].pc \notin Driving
  BY <1>1, <1>2, <1>3 DEF BusInv, MainHeld
<1>5. AckShape /\ \A t \in Threads : ~th[t].err
  BY <1>3, <1>4 DEF WordsInv
<1>6. AckShape'
  <2>1. CASE MainStore(k)
    <3>1. main'.pc = main.pc /\ main'.stored = TRUE
      BY <1>1, <2>1 DEF MainStore, MainType
    <3> QED
      BY <1>2, <1>5, <3>1 DEF AckShape
  <2>2. CASE MainCompute(k)
    <3>1. \/ main.pc = "between" /\ main'.pc = "enabled"
          \/ main.pc = "enabled" /\ main'.pc = "strobed"
          \/ main.pc = "strobed" /\ ack /\ main'.pc = "cleared"
          \/ main.pc = "cleared" /\ ~ack /\ main'.pc = "between"
      BY <1>1, <2>2 DEF MainCompute, MainEnable, MainStrobe, MainAcked, MainDisable, MainTo, MainType
    <3> QED
      BY <1>2, <1>5, <3>1 DEF AckShape
  <2> QED
    BY <2>1, <2>2
<1> QED
  BY <1>2, <1>4, <1>5, <1>6 DEF Driving

(* The core acknowledges a word. *)
LEMMA CoreWords ==
    ASSUME LockInv, BusInv, WordsInv, CoreAck
    PROVE  WordsInv'
<1>1. MainType /\ ThreadType /\ gpo \in Gpo /\ ack \in BOOLEAN /\ got \in 0..3
  BY DEF LockInv, SpiTypeOK, BusType, GotCap
<1>2. UNCHANGED <<main, gpo, th, fought, torn, late>> /\ ack # gpo.strobe /\ ack' = gpo.strobe
  BY DEF CoreAck
<1>3. got' = IF gpo.strobe /\ got < 3 THEN got + 1 ELSE got
  BY DEF CoreAck, GotCap
<1> SUFFICES ASSUME Prompt'
             PROVE  (/\ \A t \in Threads : ~th[t].err
                     /\ \A t \in Threads : th[t].pc \in Driving \ {"sample", "enter"} => TxnShape(t)
                     /\ (\A t \in Threads : th[t].pc \notin Driving \ {"sample", "enter"}) => AckShape)'
  BY DEF WordsInv, Prompt
<1>4. Clean /\ ~late
  BY <1>2 DEF Prompt, Clean
<1>5. /\ \A t \in Threads : ~th[t].err
      /\ \A t \in Threads : th[t].pc \in Writing => TxnShape(t)
      /\ (\A t \in Threads : th[t].pc \notin Writing) => AckShape
      /\ (\A t \in Threads : th[t].pc \notin Writing) => RegisterIsMains
      /\ CopyShape
  BY <1>4 DEF WordsInv, BusInv, Writing
<1>6. ASSUME NEW t \in Threads, th[t].pc \in Writing PROVE TxnShape(t)'
  <2>1. TxnShape(t) /\ th[t].pc \in Driving \ {"sample", "enter"} /\ gpo.strobe \in BOOLEAN
    BY <1>1, <1>5, <1>6 DEF Gpo, Writing
  <2>2. th[t].pc \in {"ackSet", "ackClr"}
    BY <1>1, <1>2, <2>1 DEF TxnShape, Count, Driving
  <2>3. seg(t)' = seg(t) /\ th'[t] = th[t]
    BY <1>2 DEF seg
  <2>4. gpo.en = {seg(t).en} /\ th[t].left <= seg(t).n
    BY <2>1, <2>2 DEF TxnShape
  <2>5. seg(t).n \in {1, 2} /\ th[t].left \in Nat /\ th[t].left > 0
    <3>1. seg(t) \in Segments /\ th[t] \in ThreadStates /\ Sound(th[t])
      BY <1>1, <2>2, SegOf DEF ThreadType
    <3> QED
      BY <2>2, <3>1 DEF Segments, ThreadStates, Sound
  <2>6. CASE th[t].pc = "ackSet"
    <3>1. gpo.strobe /\ ~ack /\ got = seg(t).n - th[t].left
      BY <1>1, <1>2, <2>1, <2>6 DEF TxnShape, Count
    <3>2. got < 3
      BY <2>5, <3>1
    <3>3. ack' /\ got' = seg(t).n - th[t].left + 1
      BY <1>2, <1>3, <3>1, <3>2
    <3> QED
      BY <1>2, <2>3, <2>4, <2>6, <3>1, <3>3 DEF TxnShape, Count
  <2>7. CASE th[t].pc = "ackClr"
    <3>1. ~gpo.strobe /\ got = seg(t).n - th[t].left + 1
      BY <2>1, <2>7 DEF TxnShape, Count
    <3>2. got' = got
      BY <1>3, <3>1
    <3> QED
      BY <1>2, <2>3, <2>4, <2>7, <3>1, <3>2 DEF TxnShape, Count
  <2> QED
    BY <2>2, <2>6, <2>7
<1>7. ASSUME \A t \in Threads : th[t].pc \notin Writing PROVE AckShape'
  <2>1. RegisterIsMains /\ CopyShape /\ main.stored \in BOOLEAN
    BY <1>1, <1>5, <1>7 DEF MainType
  <2>2. main.pc \in {"between", "enabled"} => gpo.strobe = FALSE
    BY <2>1 DEF RegisterIsMains, CopyShape
  <2>3. ~main.stored => gpo.strobe = (main.pc = "cleared")
    BY <2>1 DEF RegisterIsMains
  <2> QED
    BY <1>2, <2>2, <2>3 DEF AckShape
<1> QED
  BY <1>2, <1>5, <1>6, <1>7 DEF Writing, Driving

(* The first store of a window finds the core idle, the last leaves it so. *)
LEMMA EdgeWords ==
    ASSUME LockInv, BusInv, WordsInv, NEW t \in Threads, EnterWindow(t) \/ Restore(t) \/ TxnStep(t)
    PROVE  WordsInv'
<1>1. SpiTypeOK /\ ThreadType /\ th[t] \in ThreadStates /\ gpo \in Gpo
  BY DEF LockInv, SpiTypeOK, ThreadType, BusType
<1>2. \A u \in Threads \ {t} : th'[u] = th[u]
  BY <1>1, TxnMoves, PauseInner DEF Inner
<1>3. th[t].pc \in Pausing /\ th[t].pc \in Driving \ {"sample"}
  BY <1>1, TxnMoves DEF EnterWindow, Restore, Writing, Driving, Pausing
<1>4. \A u \in Threads \ {t} : th[u].pc \notin Driving /\ th'[u].pc \notin Driving
  BY <1>2, <1>3, OthersKeepOff
<1> SUFFICES ASSUME Prompt'
             PROVE  (/\ \A u \in Threads : ~th[u].err
                     /\ \A u \in Threads : th[u].pc \in Driving \ {"sample", "enter"} => TxnShape(u)
                     /\ (\A u \in Threads : th[u].pc \notin Driving \ {"sample", "enter"}) => AckShape)'
  BY DEF WordsInv, Prompt
<1>5. Clean /\ ~late
  <2>1. CASE TxnStep(t)
    <3>1. UNCHANGED <<fought, torn>>
      BY <1>1, <2>1, TxnMoves
    <3>2. late => late'
      BY <2>1 DEF TxnStep, Enable, SpiWord, AckSet, AckSetFails, AckClr, SpiWriteBytes, Disable
    <3> QED
      BY <3>1, <3>2 DEF Prompt, Clean
  <2>2. CASE EnterWindow(t) \/ Restore(t)
    BY <2>2 DEF EnterWindow, Restore, Prompt, Clean
  <2> QED
    BY <2>1, <2>2
<1>6. Borrowed(t) /\ ~th[t].err /\ (\A u \in Threads : ~th[u].err)
      /\ (th[t].pc = "enter" => gpo = th[t].saved)
  BY <1>3, <1>5 DEF BusInv, WordsInv
<1>7. SUFFICES /\ ~th'[t].err
               /\ th'[t].pc \in Writing => TxnShape(t)'
               /\ th'[t].pc \notin Writing => AckShape'
  <2>1. \A u \in Threads : ~th'[u].err
    BY <1>2, <1>6, <1>7
  <2>2. \A u \in Threads : th'[u].pc \in Writing => TxnShape(u)'
    BY <1>4, <1>7 DEF Writing
  <2>3. (\A u \in Threads : th'[u].pc \notin Writing) => AckShape'
    BY <1>7
  <2> QED
    BY <2>1, <2>2, <2>3 DEF Writing, Driving
<1>8. CASE TxnStep(t)
  BY <1>1, <1>8, TxnWords, TxnMoves
<1>9. CASE EnterWindow(t)
  <2>1. th[t].pc = "enter" /\ UNCHANGED <<gpo, ack>>
    BY <1>9 DEF EnterWindow
  <2>2. th'[t].pc \in {"enable", "restore"} /\ th'[t].err = th[t].err
    BY <1>1, <1>9, ToKeeps DEF EnterWindow
  <2>3. gpo.en = {} /\ ~gpo.strobe
    BY <1>6, <2>1 DEF Borrowed, Busy
  <2>4. AckShape
    BY <1>4, <1>5, <2>1 DEF WordsInv
  <2>5. ~ack
    BY <1>6, <2>4 DEF Borrowed, AckShape
  <2> QED
    BY <1>6, <2>1, <2>2, <2>3, <2>5 DEF TxnShape, Writing, Driving
<1>10. CASE Restore(t)
  <2>1. th[t].pc = "restore" /\ UNCHANGED <<main, ack>>
    BY <1>10 DEF Restore
  <2>2. th'[t].pc = "cont" /\ th'[t].err = th[t].err
    BY <1>1, <1>10, ToKeeps DEF Restore
  <2>3. ~ack
    BY <1>3, <1>5, <2>1 DEF WordsInv, TxnShape, Driving
  <2>4. AckShape'
    BY <1>6, <2>1, <2>3 DEF AckShape, Borrowed
  <2> QED
    BY <1>6, <2>2, <2>4 DEF Writing, Driving
<1> QED
  BY <1>8, <1>9, <1>10

LEMMA WordsStep ==
    ASSUME LockInv, BusInv, WordsInv, SpiNext
    PROVE  WordsInv'
<1>1. SpiTypeOK /\ MainType /\ ThreadType
  BY DEF LockInv, SpiTypeOK
<1>2. CASE \E k \in BusTasks : MainCompute(k) \/ MainStore(k)
  BY <1>2, MainWords
<1>3. CASE CoreAck
  BY <1>3, CoreWords
<1>4. CASE \E k \in Tasks : TaskStops(k)
  <2>1. /\ main'.pc = main.pc /\ main'.stored = main.stored
        /\ UNCHANGED <<gpo, ack, got, th, fought, torn, late>>
    BY <1>1, <1>4 DEF TaskStops, MainType
  <2> QED
    BY <2>1, WordsFrame DEF Prompt, Clean
<1>5. CASE ResumeCheck \/ Exit \/ Restart
  <2>1. UNCHANGED <<main, gpo, ack, got, th, fought, torn, late>>
    BY <1>5 DEF ResumeCheck, Exit, Restart
  <2> QED
    BY <2>1, WordsFrame DEF Prompt, Clean
<1>6. CASE ResumeScan
  <2>1. UNCHANGED <<gpo, ack, got, th, torn, late>> /\ (fought => fought')
    BY <1>6 DEF ResumeScan
  <2>2. main'.pc = main.pc /\ main'.stored = main.stored
    BY <1>1, <1>6, SigType DEF ResumeScan, MainType
  <2> QED
    BY <2>1, <2>2, WordsFrame DEF Prompt, Clean
<1>7. ASSUME NEW t \in Threads, Call(t) \/ TakeFlock(t) \/ LeaveWindow(t) \/ Unflock(t) \/ Unlock(t)
      PROVE  WordsInv'
  <2>1. /\ th[t].pc \in {"idle", "flock", "leave", "unflock", "unlock"}
        /\ th'[t].pc \in {"idle", "flock", "stop", "unflock", "unlock"}
        /\ th'[t].err => th[t].err
        /\ \A u \in Threads \ {t} : th'[u] = th[u]
    BY <1>7, CallLocks, TakeFlockLocks, LeaveWindowLocks, UnflockLocks, UnlockLocks
  <2>2. UNCHANGED <<main, gpo, ack, got, fought, torn, late>>
    BY <1>7 DEF Call, TakeFlock, LeaveWindow, Unflock, Unlock
  <2>3. \A u \in Threads : th'[u].pc \in Writing \/ th[u].pc \in Writing => th'[u] = th[u]
    BY <2>1 DEF Writing, Driving
  <2>4. \A u \in Threads : th'[u].err => th[u].err
    BY <2>1
  <2> QED
    BY <2>2, <2>3, <2>4, WordsFrame DEF Prompt, Clean
<1>8. ASSUME NEW t \in Threads, StopMain(t) \/ BackOff(t) \/ ContMain(t) \/ WaitStopped(t) \/ SampleGpo(t)
      PROVE  WordsInv'
  <2>1. /\ th[t].pc \in {"stop", "backoff", "cont", "wait", "sample"}
        /\ UNCHANGED <<gpo, ack, got, fought, torn, late>>
    BY <1>8 DEF StopMain, BackOff, ContMain, WaitStopped, SampleGpo
  <2>2. main'.pc = main.pc /\ main'.stored = main.stored
    BY <1>1, <1>8, SigType DEF StopMain, BackOff, ContMain, WaitStopped, SampleGpo, MainType
  <2>3. /\ th'[t].pc \in {"stop", "backoff", "cont", "wait", "sample", "enter", "leave"}
        /\ th'[t].err = th[t].err
    BY <1>1, <1>8, BackOffInner, SampleInner, ToKeeps DEF StopMain, ContMain, WaitStopped
  <2>4. \A u \in Threads \ {t} : th'[u] = th[u]
    BY <1>1, <1>8, PauseInner, BackOffInner, SampleInner DEF Inner
  <2>5. \A u \in Threads : th'[u].pc \in Writing \/ th[u].pc \in Writing => th'[u] = th[u]
    BY <2>1, <2>3, <2>4 DEF Writing, Driving
  <2>6. \A u \in Threads : th'[u].err => th[u].err
    BY <2>3, <2>4
  <2> QED
    BY <2>1, <2>2, <2>5, <2>6, WordsFrame DEF Prompt, Clean
<1>9. ASSUME NEW t \in Threads, EnterWindow(t) \/ Restore(t) \/ TxnStep(t)
      PROVE  WordsInv'
  BY <1>9, EdgeWords
<1>10. ASSUME NEW p \in Procs, Die(p), UNCHANGED <<gpo, ack, got, late>>, fought => fought', fought' \in BOOLEAN,
              MainType', main'.pc = main.pc, main'.stored = main.stored
       PROVE  WordsInv'
  <2>1. BusType' /\ late' \in BOOLEAN
    BY <1>10 DEF LockInv, SpiTypeOK, BusType, DogType
  <2>2. /\ \A t \in ThreadsOf(p) : th'[t].pc = "idle" /\ ~th'[t].err
        /\ \A t \in Threads \ ThreadsOf(p) : th'[t] = th[t]
    BY <1>10, <2>1, DieLocks
  <2>3. torn' = (torn \/ \E t \in ThreadsOf(p) : th[t].pc \in Writing)
    BY <1>10 DEF Die, Writing
  <2>4. Prompt' => Prompt
    BY <1>10, <2>3 DEF Prompt, Clean
  <2>5. Prompt' => \A u \in Threads : th'[u].pc \in Writing \/ th[u].pc \in Writing => th'[u] = th[u]
    BY <2>2, <2>3 DEF Prompt, Clean, Writing, Driving
  <2>6. \A u \in Threads : th'[u].err => th[u].err
    BY <2>2
  <2> QED
    BY <1>10, <2>4, <2>5, <2>6, WordsFrame
<1>11. ASSUME NEW p \in Procs, Kill(p) PROVE WordsInv'
  <2>1. Die(p) /\ UNCHANGED <<main, gpo, ack, got, late, fought>>
    BY <1>11 DEF Kill
  <2>2. MainType' /\ fought' \in BOOLEAN
    BY <2>1 DEF LockInv, SpiTypeOK, MainType, DogType
  <2> QED
    BY <1>10, <2>1, <2>2
<1>12. CASE CrashGuard
  <2>1. Die(Daemon) /\ UNCHANGED <<gpo, ack, got, late>> /\ Daemon \in Procs /\ (fought => fought')
    BY <1>12 DEF CrashGuard, Procs
  <2>2. MainType' /\ main'.pc = main.pc /\ main'.stored = main.stored
    BY <1>1, <1>12, SigType DEF CrashGuard, MainType
  <2>3. fought' \in BOOLEAN
    BY <1>12 DEF CrashGuard, LockInv, SpiTypeOK, DogType
  <2> QED
    BY <1>10, <2>1, <2>2, <2>3
<1> QED
  BY <1>2, <1>3, <1>4, <1>5, <1>6, <1>7, <1>8, <1>9, <1>11, <1>12
     DEF SpiNext, MainStep, ThreadStep, TxnStep

LEMMA WordsStart ==
    ASSUME SpiInit
    PROVE  WordsInv
<1>1. \A t \in Threads : th[t].pc \notin Driving /\ ~th[t].err
  BY LockStart DEF Driving
<1>2. main.pc = "between" /\ main.stored = TRUE /\ ack = FALSE
  BY DEF SpiInit
<1>3. AckShape
  BY <1>2 DEF AckShape
<1> QED
  BY <1>1, <1>3 DEF WordsInv

LEMMA WordsStutter ==
    ASSUME WordsInv, UNCHANGED spiVars
    PROVE  WordsInv'
BY WordsFrame DEF spiVars, Prompt, Clean

(* fpga_spi.cpp spiWordTxn and the calls built on it: a bracket that ends     *)
(* without an error has handed the core every word of it, once, whatever Main *)
(* and the other borrowers do before, after and while the thread waits for    *)
(* the acknowledge.  Neither the sample of the register nor the acknowledge   *)
(* alone gives this: a quiet register must also mean that the core is idle.   *)
THEOREM WordsReachTheCore == SpiSpec => []WordsDelivered
<1>1. SpiInit => LockInv /\ BusInv /\ WordsInv
  BY LockStart, BusStart, WordsStart
<1>2. LockInv /\ BusInv /\ WordsInv /\ [SpiNext]_spiVars => (LockInv /\ BusInv /\ WordsInv)'
  BY LockStep, LockStutter, BusStep, BusStutter, WordsStep, WordsStutter
<1>3. WordsInv => WordsDelivered
  <2> SUFFICES ASSUME WordsInv, NEW t \in Threads, th[t].pc \in {"bulk", "disable"},
                      ~late, ~fought, ~torn
               PROVE  got = seg(t).n
    BY DEF WordsDelivered
  <2>1. TxnShape(t)
    BY DEF WordsInv, Clean, Driving
  <2> QED
    BY <2>1 DEF TxnShape, Count
<1> QED
  BY <1>1, <1>2, <1>3, PTL DEF SpiSpec
================================================================================
