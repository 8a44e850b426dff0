-------------------------------- MODULE MCFabric --------------------------------
(***************************************************************************)
(* What the daemon and the fabric say to each other, in one run: the       *)
(* borrowed GPO register (SpiWindow), the frame banks (DdrPresent), the    *)
(* record ring (BitstreamRing), the stream that is cut into records        *)
(* (NalStream), the cast that is resolved until the core acknowledges the  *)
(* picture's shape (CastResolve), and the keys and the menu of the box     *)
(* (LocalControls).  They share no state, so a behaviour is one of the six *)
(* and the others stand still in an initial state.                         *)
(***************************************************************************)
EXTENDS SpiWindow, DdrPresent, BitstreamRing, NalStream, CastResolve, LocalControls

VARIABLE part

fabricVars == <<part, spiVars, ddrVars, ringVars, nalVars, castVars, controlVars>>

--------------------------------------------------------------------------------
\* Three elementary streams: start codes of three and four bytes, an empty unit,
\* zeros before a start code, parameter sets that change, a unit longer than the
\* cap of the accumulator, garbage in front and a set at the end.
MCStreams == { <<0,0,0,1,7,9, 0,0,0,1,8,3, 0,0,0,1,5,9,0, 0,0,1,33,9>>,
               <<9,0,0,1,7, 0,0,1,8,2, 0,0,1,5,4, 0,0,1,8,3,0,0, 0,0,1,5>>,
               <<0,0,1,7,0,0,1,0,0,0,1,8,3,9,9,9,9,9,0,0,1,1,0,0,1,7>> }

\* The casts: each kind, each flag, each row of the menu, rates of the configuration,
\* servers that are pinned, out of reach or many; and a queue in which the id of one
\* item is part of another's key.
NoQueue == [items |-> <<>>, itemId |-> <<>>, key |-> <<>>]
PlainConf == [kbps |-> Bad, quality |-> Bad, profile |-> Bad]
PlainAsk == [kind |-> "library", address |-> Bad, token |-> FALSE, servers |-> <<"pms">>, preferDirect |-> FALSE,
             content |-> "p480", conf |-> PlainConf, contentFps |-> Bad, offsetMs |-> 1500,
             relayout |-> FALSE, queue |-> NoQueue]
Item(i, k) == [id |-> i, ratingKey |-> k, key |-> <<0>> \o k]
MCQueues ==
  {[items |-> <<Item(<<7>>, <<1, 2>>), Item(<<1>>, <<2>>), Item(<<8>>, <<3>>)>>, itemId |-> i, key |-> k] :
     i \in {<<>>, <<1>>, <<8>>}, k \in {<<0, 2>>, <<0, 3>>}}
MCAsks ==
  {[PlainAsk EXCEPT !.kind = k] : k \in KeyKinds}
  \cup {[PlainAsk EXCEPT !.content = "p240", !.contentFps = 0, !.relayout = TRUE],
        [PlainAsk EXCEPT !.preferDirect = TRUE, !.address = "bridge"],
        [PlainAsk EXCEPT !.content = "p720", !.contentFps = 23976, !.address = "remote", !.token = TRUE],
        [PlainAsk EXCEPT !.address = "remote", !.servers = <<"bridge", "pms">>],
        [PlainAsk EXCEPT !.conf = [kbps |-> 1000, quality |-> 90, profile |-> "main"],
                         !.servers = <<"bridge", "pms">>]}
  \cup {[PlainAsk EXCEPT !.kind = "queue", !.servers = <<>>, !.queue = q] : q \in MCQueues}

\* The probes: an FFmpeg that never ran, one that hung, one that found a shape
\* behind a nonsensical one, and one that found none.
MCProbes == {[end |-> "exec", dars |-> <<>>], [end |-> "timeout", dars |-> <<<<16, 9>>>>],
             [end |-> "error", dars |-> <<<<1, 5>>, <<16, 9>>>>], [end |-> "done", dars |-> <<>>]}

\* The screens: a framebuffer alone and beside the fabric; the fabric alone over a
\* bank of 720 lines, with the variable that makes acknowledgements optional set to 0
\* or left to the daemon.
Screen(m, hd, env) == [mode |-> m, hd |-> hd, fb |-> FALSE, env |-> env]
MCScreens == {Screen("fb0", FALSE, "unset"), Screen("both", FALSE, "unset"), Screen("fpga", TRUE, "unset"),
              Screen("fpga", TRUE, "0")}

\* The items: each codec flag; shapes as a ratio, as a decimal, from the pixels and
\* out of range, of the Media or of its first video stream; an audio stream in front;
\* the standard rates and an odd one.
Video == [NoStream EXCEPT !.video = TRUE, !.tag = "streamType", !.h264 = TRUE, !.size = <<640, 480>>, !.rate = 23976]
PlainMeta == [streams |-> <<Video>>, h264 |-> FALSE, light |-> FALSE, part |-> TRUE, size |-> <<640, 480>>,
              dar |-> <<16, 9>>, sar |-> Bad, anamorphic |-> Bad, vfr |-> [name |-> "none", v |-> 0]]
OfStream(v) == [PlainMeta EXCEPT !.streams = <<NoStream, v>>]
Shaped == <<<<<<4, 3>>, 24000>>, <<<<1, 5>>, 25000>>, <<<<1330>>, 29970>>, <<<<2350>>, 48000>>, <<<<5000>>, 50000>>,
            <<<<600>>, 59940>>>>
Pixelled == <<<<Bad, "no", 60000>>, <<Bad, "yes", 17500>>, <<<<4, 3>>, Bad, 40000>>>>
MCMetas ==
  {[PlainMeta EXCEPT !.streams = IF h THEN <<Video>> ELSE <<>>, !.light = l, !.part = p] : h, l, p \in BOOLEAN}
  \cup {[PlainMeta EXCEPT !.dar = s[1], !.streams[1].rate = s[2]] : s \in ToSet(Shaped)}
  \cup {[PlainMeta EXCEPT !.dar = Bad, !.streams[1].size = <<160, 120>>, !.sar = p[1], !.anamorphic = p[2],
                          !.streams[1].rate = p[3]] : p \in ToSet(Pixelled)}
  \cup {[PlainMeta EXCEPT !.dar = Bad, !.streams[1].rate = Bad, !.vfr = [name |-> n, v |-> 0]] :
          n \in {"none", "pal", "film"}}
  \cup {[PlainMeta EXCEPT !.streams[1].rate = Bad, !.vfr = [name |-> "number", v |-> v]] : v \in {25000, 50000}}
  \cup {[OfStream([Video EXCEPT !.tag = t, !.dar = <<4, 3>>]) EXCEPT !.dar = Bad, !.vfr = [name |-> "p24", v |-> 0]] :
          t \in {"type", "streamType"}}

--------------------------------------------------------------------------------
Alone(p, initial) == part # p => initial

\* DDR holds no words yet: those of an earlier life come about by resets and remaps.
FabricInit ==
  /\ part \in {"spi", "ddr", "ring", "nal", "cast", "controls"}
  /\ bell = Absent /\ plxd = Absent /\ DdrInit /\ RingInit
  /\ SpiInit /\ Alone("spi", deaths = MaxDeaths /\ \A t \in Threads : th[t].calls = MaxCalls)
  /\ NalInit /\ Alone("nal", ~paused /\ stream = CHOOSE s \in Streams : TRUE)
  /\ CastInit /\ Alone("cast", plxj = Bad /\ screen.mode = "fb0")
  /\ ControlsInit /\ Alone("controls", ~box.valid /\ box.seq = 0 /\ glass = CHOOSE g \in Glasses : TRUE)

Spi(A)  == part = "spi" /\ A /\ UNCHANGED <<part, ddrVars, ringVars, nalVars, castVars, controlVars>>
Ddr(A)  == part = "ddr" /\ A /\ UNCHANGED <<part, spiVars, ringVars, nalVars, castVars, controlVars>>
Ring(A) == part = "ring" /\ A /\ UNCHANGED <<part, spiVars, ddrVars, nalVars, castVars, controlVars>>
Nal(A)  == part = "nal" /\ A /\ UNCHANGED <<part, spiVars, ddrVars, ringVars, castVars, controlVars>>
Cast(A) == part = "cast" /\ A /\ UNCHANGED <<part, spiVars, ddrVars, ringVars, nalVars, controlVars>>
Box(A)  == part = "controls" /\ A /\ UNCHANGED <<part, spiVars, ddrVars, ringVars, nalVars, castVars>>

FabricNext ==
  \/ Spi(SpiNext) \/ Ddr(DdrNext) \/ Ring(RingNext) \/ Nal(NalNext) \/ Cast(CastNext)
  \/ Box(ControlsNext)

FabricSpec == FabricInit /\ [][FabricNext]_fabricVars

--------------------------------------------------------------------------------
\* The states of the six protocols are of the shape their modules give them.
FabricTypeOK ==
  CASE part = "spi" -> SpiTypeOK [] part = "ddr" -> DdrTypeOK [] part = "ring" -> RingTypeOK
    [] part = "nal" -> NalTypeOK [] part = "cast" -> CastTypeOK
    [] part = "controls" -> ControlsTypeOK
================================================================================
