------------------------------- MODULE SpiWindow -------------------------------
(***************************************************************************)
(* The HPS<->FPGA register and who may drive it (fpga_spi.cpp SpiExclusive,*)
(* MainSafeWindow, resumeStrandedMain, crashGuardHandler, spiWord and the  *)
(* multi-word transactions built on it; spi_ack_wait.hpp; the watchdog of  *)
(* main.cpp).                                                              *)
(*                                                                         *)
(* One register, GPO, carries a word, a strobe and transaction enables. The*)
(* Main process (MiSTer, external) believes it is the only writer and never*)
(* reads the register back. The daemon's threads, and tool processes that  *)
(* link the same code, borrow the register: mutex, flock, SIGSTOP, wait    *)
(* until every task of Main is stopped, sample, and only then drive it.    *)
(* Main may stop between updating its copy and storing it: those are two   *)
(* steps here. A process may die at any step of a window.                  *)
(***************************************************************************)
EXTENDS Integers, Sequences, FiniteSets, Functions

CONSTANTS DaemonThreads,  \* threads of misterplexd that call FpgaSpi
          ToolThreads,    \* one thread per tool process (push_frame, set_status)
          Tasks, Leader,  \* the tasks of Main; Leader is its main thread
          BusTasks,       \* bound: the tasks of Main that use the bus
          DaemonOps,      \* the calls daemon threads make, see Segs
          ToolOps,        \* the calls tools make
          Attempts,       \* SpiExclusive's attempts (8 in the code)
          MaxCalls,       \* bound: calls per thread
          MaxDeaths,      \* bound: process deaths
          MaxLoad         \* bound: calls and deaths in one behaviour

ASSUME SpiAssumption == /\ Leader \in Tasks /\ IsFiniteSet(Tasks) /\ BusTasks \subseteq Tasks /\ BusTasks # {}
                        /\ Attempts \in Nat \ {0}
                        /\ MaxCalls \in Nat /\ MaxDeaths \in Nat /\ MaxLoad \in Nat
                        /\ DaemonThreads \cap ToolThreads = {}
                        /\ DaemonOps \cup ToolOps \subseteq {"setStatus", "getStatus", "getString", "kick", "fileTx"}

VARIABLES main,    \* the Main process: where it is, its copy of GPO, its stopped tasks
          gpo,     \* the register
          ack,     \* the core's acknowledge line, which follows the strobe
          got,     \* strobe edges the core took since the last enable
          th,      \* the borrowing threads
          mutex,   \* spiMutex of each process: its owner or Free
          flk,     \* the owner of /tmp/misterplex_spi.lock or Free
          depth,   \* mainPauseDepth of each process
          dog,     \* the daemon's main thread, in resumeStrandedMain
          deaths,
          late,    \* history: a word timed out
          died,    \* history: a process died
          fought,  \* history: somebody resumed Main inside another's window
          torn     \* history: a process died between its first write and its restore

spiVars == <<main, gpo, ack, got, th, mutex, flk, depth, dog, deaths, late, died, fought, torn>>

Threads == DaemonThreads \cup ToolThreads
Daemon == "daemon"
Procs == {Daemon} \cup ToolThreads
Proc(t) == IF t \in DaemonThreads THEN Daemon ELSE t
Free == "free"
ASSUME NamesAssumption == Free \notin Threads /\ Daemon \notin ToolThreads
Ops(t) == IF t \in DaemonThreads THEN DaemonOps ELSE ToolOps

Gpo == [en : SUBSET {"fpga", "io"}, strobe : BOOLEAN, word : {"none", "main", "ours"}]

Quiet == [en |-> {}, strobe |-> FALSE, word |-> "none"]

BusyStrobeOnly(g) == g.strobe

(* kMainBusyMask: any enable, or the strobe *)
Busy(g) == g.en # {} \/ g.strobe

(* What a call sends: per enable/disable bracket the enable, the handshaken *)
(* words (n), and whether unacknowledged bulk bytes follow (spiWriteBytes). *)
(* Word counts are scaled down: 9 status words are 2, a command and its     *)
(* operand one, all chunks two.                                             *)
Seg(en, n, bulk) == [en |-> en, n |-> n, bulk |-> bulk]
StatusTxn == Seg("io", 2, FALSE)
Segs(op) ==
  CASE op = "setStatus" -> <<StatusTxn>>
    [] op = "getStatus" -> <<StatusTxn>>
    [] op = "getString" -> <<StatusTxn>>
    [] op = "kick" -> <<StatusTxn, StatusTxn, StatusTxn>>
    [] op = "fileTx" -> <<Seg("fpga", 1, FALSE), Seg("fpga", 1, FALSE),
                          Seg("fpga", 1, TRUE), Seg("fpga", 1, TRUE), Seg("fpga", 1, FALSE)>>

(* The status calls give up at the first failed word; getConfigString and   *)
(* sendFileTx look at err_ only later.                                      *)
StopsAtError(op) == op \in {"setStatus", "getStatus", "kick"}

Resting == [pc |-> "idle", op |-> "none", attempt |-> 0, seg |-> 1, left |-> 0,
            err |-> FALSE, safe |-> FALSE, saved |-> Quiet, calls |-> 0]

(* The thread drives the register, or has concluded that it may. *)
Driving == {"sample", "enter", "enable", "word", "ackSet", "ackClr", "bulk", "disable", "restore"}
InWindow(t) == th[t].pc \in Driving

(* How many calls and deaths are to come is chosen here. *)
SpiInit ==
  /\ main = [pc |-> "between", owner |-> CHOOSE k \in BusTasks : TRUE, copy |-> Quiet, stored |-> TRUE,
             stopping |-> FALSE, stopped |-> {}]
  /\ gpo = Quiet /\ ack = FALSE /\ got = 0
  /\ \E spent \in [Threads -> 0..MaxCalls] :
       th = [t \in Threads |-> [Resting EXCEPT !.calls = spent[t]]]
  /\ mutex = [p \in Procs |-> Free] /\ flk = Free
  /\ depth = [p \in Procs |-> 0]
  /\ dog = [phase |-> "boot", pc |-> "check"]
  /\ deaths \in 0..MaxDeaths
  /\ FoldFunction(LAMBDA x, y : x + y, 0, [t \in Threads |-> MaxCalls - th[t].calls])
       + (MaxDeaths - deaths) <= MaxLoad
  /\ late = FALSE /\ died = FALSE /\ fought = FALSE /\ torn = FALSE

--------------------------------------------------------------------------------
(* Main (external).  A task that is not stopped computes the next value of  *)
(* its copy of GPO, then stores it.  fpga_spi() spins on the acknowledge    *)
(* with no timeout.                                                         *)

MainTo(k, pc, copy) == main' = [main EXCEPT !.pc = pc, !.owner = k, !.copy = copy, !.stored = FALSE]
MainEnable(k) ==
  /\ main.pc = "between" /\ MainTo(k, "enabled", [main.copy EXCEPT !.en = {"io"}])
MainStrobe(k) ==
  /\ main.pc = "enabled" /\ main.owner = k
  /\ MainTo(k, "strobed", [main.copy EXCEPT !.strobe = TRUE, !.word = "main"])
MainAcked(k) ==
  /\ main.pc = "strobed" /\ ack /\ main.owner = k
  /\ MainTo(k, "cleared", [main.copy EXCEPT !.strobe = FALSE])
MainDisable(k) ==
  /\ main.pc = "cleared" /\ ~ack /\ main.owner = k
  /\ MainTo(k, "between", [main.copy EXCEPT !.en = {}])

MainCompute(k) ==
  /\ k \notin main.stopped /\ main.stored
  /\ ~fought /\ ~torn   \* bound: after these nothing is claimed of the register
  /\ MainEnable(k) \/ MainStrobe(k) \/ MainAcked(k) \/ MainDisable(k)
  /\ UNCHANGED <<gpo, ack, got, th, mutex, flk, depth, dog, deaths, late, died, fought, torn>>

Rises(new) == new.en # {} /\ gpo.en = {}
Drive(new) == gpo' = new /\ got' = IF Rises(new) THEN 0 ELSE got

MainStore(k) ==
  /\ main.owner = k /\ k \notin main.stopped /\ ~main.stored
  /\ Drive(main.copy) /\ main' = [main EXCEPT !.stored = TRUE]
  /\ UNCHANGED <<ack, th, mutex, flk, depth, dog, deaths, late, died, fought, torn>>

(* A group stop reaches the tasks one by one. *)
TaskStops(k) ==
  /\ main.stopping /\ k \notin main.stopped
  /\ main' = [main EXCEPT !.stopped = @ \cup {k}]
  /\ UNCHANGED <<gpo, ack, got, th, mutex, flk, depth, dog, deaths, late, died, fought, torn>>

GotCap == 3   \* got saturates above the longest transaction

(* The core (hps_io, external): the acknowledge follows the strobe, and a  *)
(* rising strobe takes the word.                                           *)
CoreAck ==
  /\ ack # gpo.strobe /\ ack' = gpo.strobe
  /\ got' = IF gpo.strobe /\ got < GotCap THEN got + 1 ELSE got
  /\ UNCHANGED <<main, gpo, th, mutex, flk, depth, dog, deaths, late, died, fought, torn>>

SigStop == main' = [main EXCEPT !.stopping = TRUE]
SigCont == main' = [main EXCEPT !.stopping = FALSE, !.stopped = {}]

--------------------------------------------------------------------------------
(* SpiExclusive: mutex, flock, window; and back in the reverse order.      *)

To(t, pc) == th' = [th EXCEPT ![t].pc = pc]

Call(t) ==
  /\ th[t].pc = "idle" /\ th[t].calls < MaxCalls
  /\ t \in DaemonThreads => dog.phase = "loop"
  /\ mutex[Proc(t)] = Free /\ mutex' = [mutex EXCEPT ![Proc(t)] = t]
  /\ \E op \in Ops(t) :
       th' = [th EXCEPT ![t] = [Resting EXCEPT !.pc = "flock", !.op = op, !.calls = th[t].calls + 1]]
  /\ UNCHANGED <<main, gpo, ack, got, flk, depth, dog, deaths, late, died, fought, torn>>

TakeFlock(t) ==
  /\ th[t].pc = "flock" /\ flk = Free /\ flk' = t
  /\ depth' = [depth EXCEPT ![Proc(t)] = @ + 1]
  /\ To(t, "stop")
  /\ UNCHANGED <<main, gpo, ack, got, mutex, dog, deaths, late, died, fought, torn>>

StopMain(t) ==
  /\ th[t].pc = "stop" /\ SigStop /\ To(t, "wait")
  /\ UNCHANGED <<gpo, ack, got, mutex, flk, depth, dog, deaths, late, died, fought, torn>>

LeaderStopped == Leader \in main.stopped
AllTasksStopped == main.stopped = Tasks

(* waitStopped: every task reported T, or 50 ms passed. *)
WaitStopped(t) ==
  /\ th[t].pc = "wait"
  /\ \/ AllTasksStopped /\ To(t, "sample")
     \/ ~AllTasksStopped /\ To(t, "backoff")
  /\ UNCHANGED <<main, gpo, ack, got, mutex, flk, depth, dog, deaths, late, died, fought, torn>>

SampleGpo(t) ==
  /\ th[t].pc = "sample"
  /\ IF Busy(gpo) THEN To(t, "backoff")
     ELSE th' = [th EXCEPT ![t].pc = "enter", ![t].safe = TRUE, ![t].saved = gpo]
  /\ UNCHANGED <<main, gpo, ack, got, mutex, flk, depth, dog, deaths, late, died, fought, torn>>

(* Main is mid-transaction, or would not stop: resume it and try again.    *)
BackOff(t) ==
  /\ th[t].pc = "backoff" /\ SigCont
  /\ th' = [th EXCEPT ![t].attempt = @ + 1,
                      ![t].pc = IF th[t].attempt + 1 < Attempts THEN "stop" ELSE "cont"]
  /\ UNCHANGED <<gpo, ack, got, mutex, flk, depth, dog, deaths, late, died, fought, torn>>

(* gpiUserMode: a core that is not in user mode ends the call at once. *)
EnterWindow(t) ==
  /\ th[t].pc = "enter"
  /\ To(t, "enable") \/ To(t, "restore")
  /\ UNCHANGED <<main, gpo, ack, got, mutex, flk, depth, dog, deaths, late, died, fought, torn>>

Restore(t) ==
  /\ th[t].pc = "restore" /\ Drive(th[t].saved) /\ To(t, "cont")
  /\ UNCHANGED <<main, ack, mutex, flk, depth, dog, deaths, late, died, fought, torn>>

ContMainForgets(t) ==
  /\ th[t].pc = "cont" /\ To(t, "leave")
  /\ UNCHANGED <<main, gpo, ack, got, mutex, flk, depth, dog, deaths, late, died, fought, torn>>

ContMain(t) ==
  /\ th[t].pc = "cont" /\ SigCont /\ To(t, "leave")
  /\ UNCHANGED <<gpo, ack, got, mutex, flk, depth, dog, deaths, late, died, fought, torn>>

LeaveWindow(t) ==
  /\ th[t].pc = "leave" /\ depth' = [depth EXCEPT ![Proc(t)] = @ - 1]
  /\ To(t, "unflock")
  /\ UNCHANGED <<main, gpo, ack, got, mutex, flk, dog, deaths, late, died, fought, torn>>

Unflock(t) ==
  /\ th[t].pc = "unflock" /\ flk' = Free /\ To(t, "unlock")
  /\ UNCHANGED <<main, gpo, ack, got, mutex, depth, dog, deaths, late, died, fought, torn>>

Unlock(t) ==
  /\ th[t].pc = "unlock" /\ mutex' = [mutex EXCEPT ![Proc(t)] = Free]
  /\ th' = [th EXCEPT ![t] = [Resting EXCEPT !.calls = th[t].calls]]
  /\ UNCHANGED <<main, gpo, ack, got, flk, depth, dog, deaths, late, died, fought, torn>>

--------------------------------------------------------------------------------
(* The transactions inside a window.                                       *)

seg(t) == Segs(th[t].op)[th[t].seg]

Enable(t) ==
  /\ th[t].pc = "enable" /\ Drive([gpo EXCEPT !.en = @ \cup {seg(t).en}])
  /\ th' = [th EXCEPT ![t].pc = "word", ![t].left = seg(t).n]
  /\ UNCHANGED <<main, ack, mutex, flk, depth, dog, deaths, late, died, fought, torn>>

(* spiWordTxn: the word without, then with the strobe *)
SpiWord(t) ==
  /\ th[t].pc = "word" /\ Drive([gpo EXCEPT !.word = "ours", !.strobe = TRUE])
  /\ To(t, "ackSet")
  /\ UNCHANGED <<main, ack, mutex, flk, depth, dog, deaths, late, died, fought, torn>>

AckSet(t) ==
  /\ th[t].pc = "ackSet" /\ ack /\ Drive([gpo EXCEPT !.strobe = FALSE])
  /\ To(t, "ackClr")
  /\ UNCHANGED <<main, ack, mutex, flk, depth, dog, deaths, late, died, fought, torn>>

(* Where a word that has ended, well or not, leads. *)
WordDone(t, failed) ==
  LET err == th[t].err \/ failed IN
  th' = [th EXCEPT ![t].err = err, ![t].left = @ - 1,
                   ![t].pc = IF err /\ StopsAtError(th[t].op) THEN "disable"
                             ELSE IF th[t].left > 1 THEN "word"
                             ELSE IF seg(t).bulk THEN "bulk" ELSE "disable"]

AckSetFails(t) ==
  /\ th[t].pc = "ackSet" /\ ~ack /\ Drive([gpo EXCEPT !.strobe = FALSE])
  /\ WordDone(t, TRUE) /\ late' = TRUE
  /\ UNCHANGED <<main, ack, mutex, flk, depth, dog, deaths, died, fought, torn>>

AckClr(t) ==
  /\ th[t].pc = "ackClr"
  /\ \/ ~ack /\ WordDone(t, FALSE) /\ UNCHANGED late
     \/ ack /\ WordDone(t, TRUE) /\ late' = TRUE
  /\ UNCHANGED <<main, gpo, ack, got, mutex, flk, depth, dog, deaths, died, fought, torn>>

(* spiWriteBytes: bytes without acknowledge; the core is taken to keep up. *)
SpiWriteBytes(t) ==
  /\ th[t].pc = "bulk" /\ Drive([gpo EXCEPT !.word = "ours", !.strobe = FALSE])
  /\ To(t, "disable")
  /\ UNCHANGED <<main, ack, mutex, flk, depth, dog, deaths, late, died, fought, torn>>

(* An error after a chunk skips the other chunks, never setDownload(0). *)
NextSeg(t) ==
  LET last == Len(Segs(th[t].op)) IN
  IF th[t].err /\ seg(t).bulk THEN last ELSE th[t].seg + 1

Disable(t) ==
  /\ th[t].pc = "disable" /\ Drive([gpo EXCEPT !.en = @ \ {seg(t).en}])
  /\ IF th[t].seg = Len(Segs(th[t].op)) \/ (th[t].err /\ StopsAtError(th[t].op))
     THEN To(t, "restore")
     ELSE th' = [th EXCEPT ![t].pc = "enable", ![t].seg = NextSeg(t)]
  /\ UNCHANGED <<main, ack, mutex, flk, depth, dog, deaths, late, died, fought, torn>>

--------------------------------------------------------------------------------
(* resumeStrandedMain, from the daemon's main thread: at startup, from the *)
(* watchdog and on the way out.                                            *)

Pass == dog' = CASE dog.phase = "boot" -> [phase |-> "loop", pc |-> "check"]
                 [] dog.phase = "loop" -> [phase |-> "loop", pc |-> "check"]
                 [] dog.phase = "exit" -> [phase |-> "off", pc |-> "check"]

ResumeCheck ==
  /\ dog.phase # "off" /\ dog.pc = "check"
  /\ IF depth[Daemon] > 0 THEN Pass ELSE dog' = [dog EXCEPT !.pc = "scan"]
  /\ UNCHANGED <<main, gpo, ack, got, th, mutex, flk, depth, deaths, late, died, fought, torn>>

Others(ts) == \E t \in Threads \ ts : InWindow(t)

ResumeScan ==
  /\ dog.phase # "off" /\ dog.pc = "scan" /\ Pass
  /\ IF Leader \in main.stopped
     THEN SigCont /\ fought' = (fought \/ Others({}))
     ELSE UNCHANGED <<main, fought>>
  /\ UNCHANGED <<gpo, ack, got, th, mutex, flk, depth, deaths, late, died, torn>>

(* SIGTERM: the threads are joined, then one last pass. *)
Exit ==
  /\ dog = [phase |-> "loop", pc |-> "check"] /\ deaths < MaxDeaths /\ deaths' = deaths + 1
  /\ \A t \in DaemonThreads : th[t].pc = "idle"
  /\ dog' = [phase |-> "exit", pc |-> "check"]
  /\ UNCHANGED <<main, gpo, ack, got, th, mutex, flk, depth, late, died, fought, torn>>

ThreadsOf(p) == {t \in Threads : Proc(t) = p}
Die(p) ==
  /\ deaths < MaxDeaths /\ deaths' = deaths + 1 /\ died' = TRUE
  /\ p = Daemon => dog.phase # "off"
  /\ torn' = (torn \/ \E t \in ThreadsOf(p) : th[t].pc \in Driving \ {"sample", "enter"})
  /\ th' = [t \in Threads |-> IF Proc(t) # p THEN th[t] ELSE [Resting EXCEPT !.calls =
                IF p = Daemon THEN th[t].calls ELSE MaxCalls]]
  /\ mutex' = [mutex EXCEPT ![p] = Free]
  /\ flk' = IF flk \in ThreadsOf(p) THEN Free ELSE flk
  /\ depth' = [depth EXCEPT ![p] = 0]
  /\ dog' = IF p = Daemon THEN [phase |-> "off", pc |-> "check"] ELSE dog

(* SIGKILL *)
Kill(p) == Die(p) /\ UNCHANGED <<main, gpo, ack, got, late, fought>>

(* A fatal signal: the handler resumes Main, then the process dies.        *)
CrashGuard ==
  /\ Die(Daemon) /\ dog.phase # "boot"
  /\ SigCont /\ fought' = (fought \/ Others(DaemonThreads))
  /\ UNCHANGED <<gpo, ack, got, late>>

(* The service script starts the daemon again (external). *)
Restart ==
  /\ dog.phase = "off" /\ dog' = [phase |-> "boot", pc |-> "check"]
  /\ UNCHANGED <<main, gpo, ack, got, th, mutex, flk, depth, deaths, late, died, fought, torn>>

--------------------------------------------------------------------------------
ThreadStep(t) ==
  \/ TakeFlock(t) \/ StopMain(t) \/ WaitStopped(t) \/ SampleGpo(t) \/ BackOff(t)
  \/ EnterWindow(t) \/ Restore(t) \/ ContMain(t) \/ LeaveWindow(t) \/ Unflock(t) \/ Unlock(t)
  \/ Enable(t) \/ SpiWord(t) \/ AckSet(t) \/ AckSetFails(t) \/ AckClr(t)
  \/ SpiWriteBytes(t) \/ Disable(t)

MainStep ==
  \/ \E k \in BusTasks : MainCompute(k) \/ MainStore(k)
  \/ \E k \in Tasks : TaskStops(k)

SpiNext ==
  \/ MainStep \/ CoreAck
  \/ \E t \in Threads : Call(t) \/ ThreadStep(t)
  \/ ResumeCheck \/ ResumeScan \/ Exit
  \/ \E p \in Procs : Kill(p)
  \/ CrashGuard \/ Restart

SpiSpec == SpiInit /\ [][SpiNext]_spiVars

--------------------------------------------------------------------------------
(* The shape of the state of Main, the register, the threads and the locks. *)
MainType ==
  main \in [pc : {"between", "enabled", "strobed", "cleared"}, owner : Tasks, copy : Gpo,
            stored : BOOLEAN, stopping : BOOLEAN, stopped : SUBSET Tasks]
BusType == gpo \in Gpo /\ ack \in BOOLEAN /\ got \in 0..GotCap
ThreadStates ==
  [pc : Driving \cup {"idle", "flock", "stop", "wait", "backoff", "cont", "leave", "unflock", "unlock"},
   op : DaemonOps \cup ToolOps \cup {"none"}, attempt : 0..Attempts, seg : Nat, left : Nat,
   err : BOOLEAN, safe : BOOLEAN, saved : Gpo, calls : 0..MaxCalls]
Sound(r) ==
  /\ r.pc \in {"flock", "stop", "wait", "sample", "backoff"} => r.attempt < Attempts
  /\ r.pc # "idle" => r.op # "none" /\ r.seg \in 1..Len(Segs(r.op))
  /\ r.pc \in {"word", "ackSet", "ackClr"} => r.left > 0
ThreadType == th \in [Threads -> ThreadStates] /\ \A t \in Threads : Sound(th[t])
LockType ==
  /\ mutex \in [Procs -> Threads \cup {Free}] /\ flk \in Threads \cup {Free}
  /\ depth \in [Procs -> {0, 1}]
DogType ==
  /\ dog \in [phase : {"boot", "loop", "exit", "off"}, pc : {"check", "scan"}]
  /\ deaths \in 0..MaxDeaths
  /\ late \in BOOLEAN /\ died \in BOOLEAN /\ fought \in BOOLEAN /\ torn \in BOOLEAN
SpiTypeOK == MainType /\ BusType /\ ThreadType /\ LockType /\ DogType

(* What the window is for (fpga_spi.hpp "restore GPO byte-for-byte, and    *)
(* resume Main - which wakes up with hardware exactly matching its shadow  *)
(* copy"): while a task of Main can run and has no store under way, the    *)
(* register holds what Main last stored, whoever borrowed it meanwhile -   *)
(* unless a process died while driving it or Main was resumed in a window. *)
BusHandedBack ==
  (~fought /\ ~torn /\ main.stopped # Tasks /\ main.stored) => gpo = main.copy

(* A transaction that found no error reached the core whole: the core took *)
(* exactly its words, in spite of Main's transactions before and after it. *)
(* (After a clear-phase timeout the acknowledge may be stale: excluded.)   *)
WordsDelivered ==
  \A t \in Threads :
    (th[t].pc \in {"bulk", "disable"} /\ ~th[t].err /\ ~late /\ ~fought /\ ~torn)
      => got = seg(t).n

(* A window always ends with Main resumed; only a death inside one can      *)
(* leave Main stopped with nobody in a window.  resumeStrandedMain then sees *)
(* it: no pause of a dead thread is still counted.                           *)
StrandedIsSeen ==
  (main.stopping /\ \A t \in Threads : th[t].pc = "idle") => died /\ depth[Daemon] = 0
================================================================================
