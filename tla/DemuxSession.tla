------------------------------ MODULE DemuxSession ------------------------------
(***************************************************************************)
(* One session of MediaPlayer::threadMain in arm/misterplexd/              *)
(* media_player.cpp from set-up to teardown: the scale filter, the FFmpeg  *)
(* processes it forks and the pid slots that name them, the pipes, the     *)
(* audio and stream pumps, and the stop() of another thread, which kills   *)
(* the children while the session may still be forking them.               *)
(*                                                                         *)
(* How pictures are paced and presented is in AvLock and PresentPipeline:  *)
(* here a session has shown a picture or not.  A stop is the part of       *)
(* stop() up to the join of the session, and both it and the session run   *)
(* killChildren.                                                           *)
(***************************************************************************)
EXTENDS Integers, Sequences, FiniteSets

CONSTANT Played   \* the configurations played: see Configs

Processes == {"demux", "remux", "video", "audio"}
Slots     == {"childPid", "audioPid", "streamPid"}
Pumps     == {"stream", "audio"}
Killers   == {"session", "stop"}
Empty     == "none"

VARIABLES
    dcfg,     \* what play() was given, and what the machine has
    at,       \* where the session is
    proc,     \* per process: "none", "run", "dead", "reaped"
    slot,     \* childPid_, audioPid_, streamPid_
    pumps,    \* streamThr_, audioThr_: "none", "run", "gated", "exited"
    fds,      \* pipe ends the daemon holds open
    fifo,     \* the remuxer has opened the fifo for writing
    released, \* audioFeedRelease_
    wantAudio, inproc, raw,   \* locals of threadMain
    pictured, aborted,        \* a picture was presented; the pipeline gave up
    dPlaying, dStop, terminal, \* playing_, stop_, the last report that ends a title
    killing,  \* per killer, where it is in killChildren
    early,    \* history: stop() came before the children were all published
    lost      \* history: processes whose pid left its slot while they ran

demuxVars == <<dcfg, at, proc, slot, pumps, fds, fifo, released, wantAudio, inproc, raw, pictured, aborted,
               dPlaying, dStop, terminal, killing, early, lost>>

-----------------------------------------------------------------------------
(* What the session decides before it forks.                               *)

Pattern(c)    == c.kind = "pattern"
Networked(c)  == c.kind \in {"direct", "universal"}
Native(c)     == c.mode \in {"fpga", "both"}
WantStream(c) == c.stream /\ ~Pattern(c)
SkipRgb(c)    == c.stream /\ c.skipRgb /\ c.mode = "fpga" /\ ~Pattern(c)
SplitAv(c)    == c.wide /\ ~Pattern(c)
WantInproc(c) == c.inproc /\ c.wide /\ ~Pattern(c)

\* stream: STREAM is on and the FPGA answers; wide: the bank is 1280x720 or
\* 960x540; claims, truth: the metadata says, and the title has, audio; timed:
\* the duration is known; refused: the bank breaks the 960x540 contract;
\* lab: FFMPEG_SWS_FLAGS asks for no scaling.
Configs ==
    {c \in [kind : {"pattern", "file", "direct", "universal"}, mode : {"fpga", "both", "fb0"}, stream : BOOLEAN, skipRgb : BOOLEAN,
            wide : BOOLEAN, inproc : BOOLEAN, device : BOOLEAN, claims : BOOLEAN, truth : BOOLEAN,
            timed : BOOLEAN, refused : BOOLEAN, lab : BOOLEAN] :
        /\ c.skipRgb => c.stream /\ c.mode = "fpga"
        /\ c.inproc => c.wide
        /\ c.kind \in {"file", "pattern"} => c.claims
        /\ Pattern(c) => c.truth /\ ~c.timed
        /\ ~c.device => c.claims /\ c.truth
        /\ c.refused => ~c.wide}

ASSUME DemuxAssumption == Played \subseteq Configs

\* ffmpegHasAudioStream: a probe whose fork fails answers yes.
HasAudioStream(c, forked) == forked => c.truth

AudioWanted(c, forked) ==
    /\ c.device /\ c.claims
    /\ c.kind = "file" => HasAudioStream(c, forked)

\* The picture a source delivers against the bank of the frame store: what the
\* metadata believes its size to be, and what arrives.
Sources(c) ==
    {s \in [exact : BOOLEAN, padded : BOOLEAN, believed : {"none", "bank", "other"},
            arrives : {"bank", "other"}] :
        /\ c.lab => ~s.exact
        /\ c.kind # "universal" /\ s.believed # "none" => s.arrives = s.believed}

\* Aspect is known whenever PMS transcodes for the native scaler (CastResolve).
CropPmsBars(c) == Native(c) /\ c.kind = "universal"

SourceIsBank(c, s) == Native(c) /\ ~s.exact /\ ~s.padded /\ s.believed = "bank"

SkipScaleTrusting(c, s) == c.lab \/ SourceIsBank(c, s)
SkipScale(c, s) == ~CropPmsBars(c) /\ (c.lab \/ SourceIsBank(c, s))

\* Every branch of the filter but the bypass ends in the size of the bank.
FrameSize(c, s) == IF SkipScale(c, s) /\ ~s.padded THEN s.arrives ELSE "bank"

-----------------------------------------------------------------------------
(* Processes, slots and pipes.                                             *)

Home(c, p) == CASE p \in {"demux", "remux"} -> "streamPid"
                [] p = "video" -> "childPid"
                [] p = "audio" -> IF SkipRgb(c) THEN "childPid" ELSE "audioPid"

\* One process writes both pictures and sound unless they are split.
Sound(c) == IF SkipRgb(c) \/ inproc \/ SplitAv(c) THEN "audio" ELSE "video"

DemuxInit ==
    /\ dcfg \in Played
    /\ at = "start"
    /\ proc = [p \in Processes |-> "none"] /\ slot = [s \in Slots |-> Empty]
    /\ pumps = [t \in Pumps |-> "none"] /\ fds = {} /\ fifo = FALSE
    /\ released = TRUE /\ wantAudio = FALSE /\ inproc = FALSE /\ raw = "bank"
    /\ pictured = FALSE /\ aborted = FALSE
    /\ dPlaying = TRUE /\ dStop = FALSE /\ terminal = Empty
    /\ killing = [k \in Killers |-> [step |-> "off", left |-> <<>>, saw |-> Empty]]
    /\ early = FALSE /\ lost = {}

Go(to) == at' = to
Locals == <<dcfg, fifo, released, wantAudio, inproc, raw>>
Ends   == <<pictured, aborted, dPlaying, dStop, terminal>>
Kills  == <<killing, early>>

\* A process whose pid is stored over, unreaped, is named by nobody any more.
Unreaped(p) == p \in Processes /\ proc[p] \in {"run", "dead"}
Forgotten(s) == {p \in {slot[s]} : Unreaped(p)}
StorePid(p) ==
    /\ slot' = [slot EXCEPT ![Home(dcfg, p)] = p]
    /\ lost' = lost \cup Forgotten(Home(dcfg, p))

Forked(p) == proc' = [proc EXCEPT ![p] = "run"]

-----------------------------------------------------------------------------
(* Set-up.                                                                 *)

SetUp == {"start", "stream", "streamStore", "recon0", "reconStore", "inproc", "remuxStore", "open",
          "pipes", "videoFork", "videoStore", "audioFork", "audioStore", "closeEnds"}

\* The 960x540 contract: the thread returns and playing_ stays set.
Refuse ==
    /\ at = "start" /\ dcfg.refused
    /\ Go("over")
    /\ UNCHANGED <<proc, slot, pumps, fds, Locals, Ends, Kills, lost>>

Plan ==
    /\ at = "start" /\ ~dcfg.refused
    /\ Go("stream")
    /\ \E forked \in BOOLEAN : wantAudio' = AudioWanted(dcfg, forked)
    /\ \E s \in Sources(dcfg) : raw' = FrameSize(dcfg, s)
    /\ UNCHANGED <<dcfg, fifo, released, inproc, proc, slot, pumps, fds, Ends, Kills, lost>>

AfterStream == IF SkipRgb(dcfg) THEN "recon0" ELSE IF WantInproc(dcfg) THEN "inproc" ELSE "pipes"

\* A pipe or a fork that fails leaves the session without its stream.
StreamFork ==
    /\ at = "stream"
    /\ \/ WantStream(dcfg) /\ Forked("demux") /\ fds' = fds \cup {"sr"} /\ Go("streamStore")
       \/ Go(AfterStream) /\ UNCHANGED <<proc, fds>>
    /\ UNCHANGED <<slot, pumps, Locals, Ends, Kills, lost>>

StreamStore ==
    /\ at = "streamStore"
    /\ StorePid("demux") /\ pumps' = [pumps EXCEPT !["stream"] = "run"]
    /\ Go(AfterStream)
    /\ UNCHANGED <<proc, fds, Locals, Ends, Kills>>

\* The path without RGB: FFmpeg for the sound alone, in childPid_.
ReconFork ==
    /\ at = "recon0"
    /\ \/ wantAudio /\ Forked("audio") /\ fds' = fds \cup {"ar"} /\ Go("reconStore")
       \/ Go("recon") /\ UNCHANGED <<proc, fds>>
    /\ UNCHANGED <<slot, pumps, Locals, Ends, Kills, lost>>

ReconStore ==
    /\ at = "reconStore"
    /\ StorePid("audio") /\ pumps' = [pumps EXCEPT !["audio"] = "run"]
    /\ Go("recon")
    /\ UNCHANGED <<proc, fds, Locals, Ends, Kills>>

\* abortInprocSession, and the other ways out of set-up: no report follows.
GiveUp == dPlaying' = FALSE /\ UNCHANGED <<pictured, aborted, dStop, terminal>>

InprocStart ==
    /\ at = "inproc"
    /\ \/ dcfg.mode # "fpga" /\ Go("failKill") /\ GiveUp /\ UNCHANGED proc
       \/ /\ dcfg.mode = "fpga" /\ Networked(dcfg)
          /\ Forked("remux") /\ Go("remuxStore") /\ UNCHANGED Ends
       \/ dcfg.mode = "fpga" /\ Go(IF Networked(dcfg) THEN "pipes" ELSE "open") /\ UNCHANGED <<proc, Ends>>
    /\ UNCHANGED <<slot, pumps, fds, Locals, Kills, lost>>

RemuxStore ==
    /\ at = "remuxStore"
    /\ StorePid("remux") /\ Go("open")
    /\ UNCHANGED <<proc, pumps, fds, Locals, Ends, Kills>>

\* AvInprocDecoder::open: a fifo waits for its writer, and the first picture is
\* decoded before it answers.  A decoder that does not open leaves the pipe.
InprocOpen ==
    /\ at = "open" /\ (Networked(dcfg) => fifo)
    /\ inproc' \in BOOLEAN
    /\ fds' = IF inproc' /\ Networked(dcfg) THEN fds \cup {"fifo"} ELSE fds
    /\ Go("pipes")
    /\ UNCHANGED <<dcfg, fifo, released, wantAudio, raw, proc, slot, pumps, Ends, Kills, lost>>

Pipes ==
    /\ at = "pipes"
    /\ \/ \E sound \in {{}, {"ar", "aw"}} :
             /\ sound # {} => wantAudio
             /\ fds' = fds \cup sound \cup (IF inproc THEN {} ELSE {"vr", "vw"})
             /\ Go(IF inproc THEN "audioFork" ELSE "videoFork") /\ UNCHANGED Ends
       \/ ~inproc /\ Go("failKill") /\ GiveUp /\ UNCHANGED fds
    /\ UNCHANGED <<proc, slot, pumps, Locals, Kills, lost>>

VideoFork ==
    /\ at = "videoFork"
    /\ \/ Forked("video") /\ Go("videoStore") /\ UNCHANGED <<fds, Ends>>
       \/ fds' = fds \ {"vr", "vw", "ar", "aw"} /\ Go("failKill") /\ GiveUp /\ UNCHANGED proc
    /\ UNCHANGED <<slot, pumps, Locals, Kills, lost>>

VideoStore ==
    /\ at = "videoStore"
    /\ StorePid("video") /\ Go("audioFork")
    /\ UNCHANGED <<proc, pumps, fds, Locals, Ends, Kills>>

AudioFork ==
    /\ at = "audioFork"
    /\ IF Sound(dcfg) = "audio" /\ "aw" \in fds
       THEN \/ Forked("audio") /\ Go("audioStore") /\ UNCHANGED fds
            \/ fds' = fds \ {"ar"} /\ Go("closeEnds") /\ UNCHANGED proc
       ELSE Go("closeEnds") /\ UNCHANGED <<proc, fds>>
    /\ UNCHANGED <<slot, pumps, Locals, Ends, Kills, lost>>

AudioStore ==
    /\ at = "audioStore"
    /\ StorePid("audio") /\ Go("closeEnds")
    /\ UNCHANGED <<proc, pumps, fds, Locals, Ends, Kills>>

\* The daemon drops its write ends; the audio pump of a session that decodes 1280x720
\* in process is gated until the first picture.
CloseEnds ==
    /\ at = "closeEnds"
    /\ fds' = fds \ {"vw", "aw"}
    /\ IF "ar" \in fds
       THEN \E native \in BOOLEAN : /\ released' = ~(inproc /\ native)
                                    /\ pumps' = [pumps EXCEPT !["audio"] = "run"]
       ELSE UNCHANGED <<released, pumps>>
    /\ Go("play")
    /\ UNCHANGED <<dcfg, fifo, wantAudio, inproc, raw, proc, slot, Ends, Kills, lost>>

SetUpStep ==
    \/ Refuse \/ Plan \/ StreamFork \/ StreamStore \/ ReconFork \/ ReconStore \/ InprocStart
    \/ RemuxStore \/ InprocOpen \/ Pipes \/ VideoFork \/ VideoStore \/ AudioFork \/ AudioStore
    \/ CloseEnds

-----------------------------------------------------------------------------
(* Processes and pumps.                                                    *)

\* FFmpeg comes to the end of its input, fails, or loses its reader.
Exits(p) ==
    /\ proc[p] = "run"
    /\ proc' = [proc EXCEPT ![p] = "dead"]
    /\ UNCHANGED <<at, slot, pumps, fds, Locals, Ends, Kills, lost>>

\* The remuxer opens its output once it has read from the server.
RemuxOpens ==
    /\ proc["remux"] = "run" /\ ~fifo /\ fifo' = TRUE
    /\ UNCHANGED <<dcfg, at, proc, slot, pumps, fds, released, wantAudio, inproc, raw, Ends, Kills, lost>>

Feeds(t) == IF t = "stream" THEN "demux" ELSE Sound(dcfg)

\* A pump ends at the end of its pipe or when it is told to stop; the audio pump
\* reads nothing before the gate opens.
APumpEndsDeafAtGate(t) ==
    /\ pumps[t] = "run"
    /\ (dStop \/ proc[Feeds(t)] # "run") /\ (t = "audio" => released)
    /\ pumps' = [pumps EXCEPT ![t] = "exited"]
    /\ fds' = fds \ {IF t = "stream" THEN "sr" ELSE "ar"}
    /\ UNCHANGED <<at, proc, slot, Locals, Ends, Kills, lost>>
APumpEnds(t) ==
    /\ pumps[t] = "run"
    /\ dStop \/ (proc[Feeds(t)] # "run" /\ (t = "audio" => released))
    /\ pumps' = [pumps EXCEPT ![t] = "exited"]
    /\ fds' = fds \ {IF t = "stream" THEN "sr" ELSE "ar"}
    /\ UNCHANGED <<at, proc, slot, Locals, Ends, Kills, lost>>

\* An FFmpeg that is given an audio output for a title without audio dies of it.
DualOutputDies == Sound(dcfg) = "video" /\ pumps["audio"] # "none" /\ ~dcfg.truth

Picture ==
    /\ \/ at = "recon" /\ pumps["stream"] = "run"
       \/ at = "play" /\ (inproc \/ ~DualOutputDies)
    /\ ~pictured /\ pictured' = TRUE /\ released' = TRUE
    /\ UNCHANGED <<dcfg, at, proc, slot, pumps, fds, fifo, wantAudio, inproc, raw, aborted, dPlaying,
                   dStop, terminal, Kills, lost>>

-----------------------------------------------------------------------------
(* The end of the session.                                                 *)

\* Without RGB the session waits for a stop, the duration, or both pumps and the
\* child: a session whose child is missing never sees the last.
ReconEnds ==
    /\ at = "recon"
    /\ \/ (dStop \/ dcfg.timed) /\ UNCHANGED <<proc, slot>>
       \/ /\ pumps["stream"] = "exited" /\ pumps["audio"] # "run" /\ slot["childPid"] # Empty
          /\ proc[slot["childPid"]] = "dead"
          /\ proc' = [proc EXCEPT ![slot["childPid"]] = "reaped"]
          /\ slot' = [slot EXCEPT !["childPid"] = Empty]
    /\ Go("kill")
    /\ UNCHANGED <<pumps, fds, Locals, Ends, Kills, lost>>

\* The first picture was decoded when the decoder opened, so it is shown; a
\* strict pipeline may give up.
PlayEnds ==
    /\ at = "play"
    /\ \/ dStop /\ UNCHANGED aborted
       \/ inproc /\ pictured /\ (Networked(dcfg) => proc["remux"] # "run") /\ UNCHANGED aborted
       \/ ~inproc /\ proc["video"] # "run" /\ UNCHANGED aborted
       \/ dcfg.mode = "fpga" /\ ~dcfg.wide /\ aborted' = TRUE
    /\ fds' = fds \ {"vr", "fifo"}
    /\ Go("kill")
    /\ UNCHANGED <<proc, slot, pumps, Locals, pictured, dPlaying, dStop, terminal, Kills, lost>>

JoinsAudio ==
    /\ at = "joinAudio" /\ pumps["audio"] \in {"none", "exited"}
    /\ pumps' = [pumps EXCEPT !["audio"] = "none"]
    /\ Go("joinStream")
    /\ UNCHANGED <<proc, slot, fds, Locals, Ends, Kills, lost>>

\* A session that could not be set up joins the stream pump alone.
JoinsStream ==
    /\ at \in {"joinStream", "failJoin"} /\ pumps["stream"] \in {"none", "exited"}
    /\ pumps' = [pumps EXCEPT !["stream"] = "none"]
    /\ fds' = fds \ {"fifo"}
    /\ Go(IF at = "failJoin" THEN "over" ELSE "report")
    /\ UNCHANGED <<proc, slot, Locals, Ends, Kills, lost>>

Classify(told, gaveUp, content) ==
    IF told THEN Empty ELSE IF gaveUp \/ ~content THEN "stopped" ELSE "ended"

\* Without RGB half a second of clock counts as content.
Report ==
    /\ at = "report"
    /\ \E elapsed \in BOOLEAN :
         terminal' = Classify(dStop, aborted, pictured \/ (SkipRgb(dcfg) /\ elapsed))
    /\ dPlaying' = FALSE
    /\ Go("over")
    /\ UNCHANGED <<proc, slot, pumps, fds, Locals, pictured, aborted, dStop, Kills, lost>>

MainStep == ReconEnds \/ PlayEnds \/ JoinsAudio \/ JoinsStream \/ Report

-----------------------------------------------------------------------------
(* killChildren, by the session and by stop().                             *)

Order == <<"childPid", "audioPid", "streamPid">>
Killer(step, left, saw) == [step |-> step, left |-> left, saw |-> saw]
KillStep(k, to) == killing' = [killing EXCEPT ![k] = to]
Off == Killer("off", <<>>, Empty)

KillStarts ==
    /\ at \in {"kill", "failKill"} /\ killing["session"].step = "off"
    /\ KillStep("session", Killer("term", <<>>, Empty))
    /\ Go(IF at = "kill" THEN "killing" ELSE "failKilling")
    /\ UNCHANGED <<proc, slot, pumps, fds, Locals, Ends, early, lost>>

\* signalChildren reaches the processes the slots name; SIGTERM may be slow.
Signalled(obey) ==
    [p \in Processes |-> IF obey /\ proc[p] = "run" /\ \E s \in Slots : slot[s] = p THEN "dead" ELSE proc[p]]

Signals(k) ==
    /\ \/ /\ killing[k].step = "term"
          /\ \E obey \in BOOLEAN : proc' = Signalled(obey)
          /\ KillStep(k, Killer("reap", Order, Empty))
       \/ /\ killing[k].step = "reap" /\ killing[k].left = <<>>
          /\ proc' = Signalled(TRUE)
          /\ KillStep(k, Killer("take", Order, Empty))
    /\ UNCHANGED <<at, slot, pumps, fds, Locals, Ends, early, lost>>

\* A round of WNOHANG waits: the slot is cleared after the process was reaped.
Reaps(k) ==
    LET now == killing[k] IN
    /\ now.step = "reap" /\ now.left # <<>>
    /\ LET p == slot[Head(now.left)] IN
       IF p # Empty /\ proc[p] = "dead"
       THEN proc' = [proc EXCEPT ![p] = "reaped"] /\ KillStep(k, Killer("clear", now.left, Empty))
       ELSE KillStep(k, Killer("reap", Tail(now.left), Empty)) /\ UNCHANGED proc
    /\ UNCHANGED <<at, slot, pumps, fds, Locals, Ends, early, lost>>

Clears(k) ==
    LET now == killing[k] IN
    /\ now.step = "clear"
    /\ slot' = [slot EXCEPT ![Head(now.left)] = Empty]
    /\ lost' = lost \cup Forgotten(Head(now.left))
    /\ KillStep(k, Killer("reap", Tail(now.left), Empty))
    /\ UNCHANGED <<at, proc, pumps, fds, Locals, Ends, early>>

\* exchange(-1), then a wait that lasts until the process is gone.
TakesUnwaited(k) ==
    LET now == killing[k] IN
    /\ now.step = "take" /\ now.left # <<>>
    /\ slot' = [slot EXCEPT ![Head(now.left)] = Empty]
    /\ KillStep(k, Killer("take", Tail(now.left), Empty))
    /\ UNCHANGED <<at, proc, pumps, fds, Locals, Ends, early, lost>>
Takes(k) ==
    LET now == killing[k] IN
    /\ now.step = "take" /\ now.left # <<>>
    /\ slot' = [slot EXCEPT ![Head(now.left)] = Empty]
    /\ LET p == slot[Head(now.left)] IN
       KillStep(k, IF p = Empty THEN Killer("take", Tail(now.left), Empty) ELSE Killer("wait", now.left, p))
    /\ UNCHANGED <<at, proc, pumps, fds, Locals, Ends, early, lost>>

Waits(k) ==
    LET now == killing[k] IN
    /\ now.step = "wait" /\ proc[now.saw] # "run"
    /\ proc' = [proc EXCEPT ![now.saw] = "reaped"]
    /\ KillStep(k, Killer("take", Tail(now.left), Empty))
    /\ UNCHANGED <<at, slot, pumps, fds, Locals, Ends, early, lost>>

KillReturns(k) ==
    /\ killing[k].step = "take" /\ killing[k].left = <<>>
    /\ IF k = "stop" THEN KillStep(k, Killer("join", <<>>, Empty)) /\ UNCHANGED at
       ELSE KillStep(k, Off) /\ Go(IF at = "killing" THEN "joinAudio" ELSE "failJoin")
    /\ UNCHANGED <<proc, slot, pumps, fds, Locals, Ends, early, lost>>

KillSteps == KillStarts \/ \E k \in Killers : Signals(k) \/ Reaps(k) \/ Clears(k) \/ Takes(k) \/ Waits(k) \/ KillReturns(k)

\* stop(), from another thread, up to the join of the session.
StopCalls ==
    /\ killing["stop"].step = "off" /\ at # "over"
    /\ dStop' = TRUE /\ early' = (at \in SetUp)
    /\ KillStep("stop", Killer("term", <<>>, Empty))
    /\ UNCHANGED <<at, proc, slot, pumps, fds, Locals, pictured, aborted, dPlaying, terminal, lost>>

StopJoins ==
    /\ killing["stop"].step = "join" /\ at = "over"
    /\ KillStep("stop", Killer("returned", <<>>, Empty))
    /\ UNCHANGED <<at, proc, slot, pumps, fds, Locals, Ends, early, lost>>

Progress ==
    \/ SetUpStep \/ MainStep \/ KillSteps \/ StopJoins \/ Picture \/ RemuxOpens
    \/ \E p \in Processes : Exits(p)
    \/ \E t \in Pumps : APumpEnds(t)

DemuxNext == Progress \/ StopCalls

DemuxSpec == DemuxInit /\ [][DemuxNext]_demuxVars

-----------------------------------------------------------------------------
(* What the session promises.                                              *)

\* The records and the places of the session have their shape.
DemuxTypeOK ==
    /\ dcfg \in Played /\ raw \in {"bank", "other"}
    /\ proc \in [Processes -> {"none", "run", "dead", "reaped"}]
    /\ slot \in [Slots -> Processes \cup {Empty}]
    /\ pumps \in [Pumps -> {"none", "run", "exited"}]
    /\ fds \subseteq {"sr", "vr", "vw", "ar", "aw", "fifo"}
    /\ {released, wantAudio, inproc, pictured, aborted, dPlaying, dStop, fifo, early} \subseteq BOOLEAN
    /\ terminal \in {Empty, "ended", "stopped"} /\ lost \subseteq Processes

\* Teardown, on every way out of threadMain and whatever stop() does meanwhile,
\* closes every pipe, joins both pumps and reaps every FFmpeg whose pid was not
\* lost; a pid is lost only where the remuxer takes streamPid_ over from the
\* demuxer, or where a stop() during set-up clears the slot of the demuxer it
\* reaped after the remuxer was stored there.
NothingLeft ==
    at = "over" /\ killing["stop"].step \in {"off", "join", "returned"} =>
        /\ fds = {} /\ \A t \in Pumps : pumps[t] = "none"
        /\ \A p \in Processes : Unreaped(p) => p \in lost
        /\ lost # {} => proc["remux"] # "none" /\ (lost = {"demux"} \/ early)

\* Where the session, its children, its pumps or a stop() wait for nothing.
CanGo ==
    \/ at \in SetUp /\ (at = "open" /\ Networked(dcfg) => fifo)
    \/ \E p \in Processes : proc[p] = "run"
    \/ \E t \in Pumps : pumps[t] = "run" /\ (dStop \/ (proc[Feeds(t)] # "run" /\ (t = "audio" => released)))
    \/ at = "recon" /\ \/ dStop \/ dcfg.timed
                       \/ pumps["stream"] = "exited" /\ slot["childPid"] # Empty /\ proc[slot["childPid"]] = "dead"
    \/ at = "play" /\ IF inproc THEN dStop \/ ~pictured \/ (Networked(dcfg) => proc["remux"] # "run")
                                ELSE dStop \/ proc["video"] # "run"
    \/ at \in {"kill", "failKill", "report"}
    \/ at = "joinAudio" /\ pumps["audio"] # "run"
    \/ at \in {"joinStream", "failJoin"} /\ pumps["stream"] # "run"
    \/ \E k \in Killers : killing[k].step \in {"term", "reap", "clear", "take"}
                          \/ (killing[k].step = "wait" /\ proc[killing[k].saw] # "run")

\* A session comes to its end by itself or by a stop().  Two waits are the
\* exception: the path without RGB, which looks for the end of its pumps only
\* when it has an audio child and a demuxer, and the decoder's open() of a fifo whose remuxer
\* died before it opened it, which no stop() ends either.
EndlessRecon == /\ at = "recon" /\ ~dStop /\ ~dcfg.timed
                /\ slot["childPid"] = Empty \/ pumps["stream"] = "none"
EndlessOpen  == at = "open" /\ ~fifo /\ proc["remux"] \in {"dead", "reaped"}
KnownWaits   == at # "over" /\ ~CanGo => EndlessRecon \/ EndlessOpen

\* The same, asked of the steps themselves.
SessionGoes  == at # "over" /\ ~ENABLED Progress => EndlessRecon \/ EndlessOpen

\* A session tells the controller "ended", which starts the next title, only
\* for content that was played to its end, and leaves it without an answer only
\* when nothing was ever pictured; playing() is false after it except for a bank
\* that breaks the contract.  A picture whose size is not that of the bank
\* reaches the frame store only under the lab's flag.
SessionAccounted ==
    /\ at = "over" =>
         /\ terminal = "ended" => ~aborted /\ (pictured \/ SkipRgb(dcfg))
         /\ terminal = Empty => dStop \/ ~pictured
         /\ dPlaying => dcfg.refused
    /\ raw = "other" => dcfg.lab
================================================================================
