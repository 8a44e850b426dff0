------------------------------ MODULE CastResolve ------------------------------
(***************************************************************************)
(* From a cast's key to something FFmpeg can open and a picture shape the  *)
(* scaler has acknowledged: resolveAgainstServers of main.cpp,             *)
(* resolvePlayTarget and its helpers in arm/misterplexd/plex_resolve.cpp,  *)
(* the frame rate the pictures are paced by, fetchPlayQueue's current      *)
(* item, source_aspect.hpp, the probe of a stream, and the PLXA/PLXJ       *)
(* handshake of FpgaSpi::sendSourceAspect as setSourceAspect uses it.      *)
(*                                                                         *)
(* A server answers each of the two requests as it likes, with an error    *)
(* page or not at all included.  Texts are what is read from them: a rate  *)
(* is a number of thousandths or a token, a resolution a pair, an id a     *)
(* sequence of digits, Bad the empty text.  Double arithmetic is exact.    *)
(***************************************************************************)
EXTENDS Integers, Sequences, FiniteSets, SequencesExt

CONSTANTS
    Asks,         \* casts, with the configuration they meet: see MCFabric!PlainAsk
    Metas,        \* what a server may know of an item: see MCFabric!PlainMeta
    Probes,       \* how a probing FFmpeg ends, and the aspects it has written
    Unreachable,  \* isUnreachableHost: the addresses of a container's bridge
    Screens,      \* where pictures go: presentMode_, the bank, the environment
    Bad,          \* no text, no aspect, no rate, no metadata, no server
    TokenMod,  \* 256 in the code
    MaxCasts   \* bound

ASSUME ResolveAssumption ==
    /\ TokenMod \in Nat \ {0, 1} /\ MaxCasts \in Nat
    /\ Screens \subseteq [mode : {"none", "fb0", "fpga", "both"}, hd : BOOLEAN, fb : {FALSE},
                         env : {"unset", "0", "1"}]
    /\ Bad \notin Unreachable \cup {"conf"} \cup Nat \cup (Nat \X Nat)

KeyKinds == {"test", "direct", "library", "queue"}

Given(text, otherwise) == IF text # Bad THEN text ELSE otherwise

(***************************************************************************)
(* The ladder.                                                             *)
(***************************************************************************)

\* plexTranscodeProfiles
Profiles == [p240 |-> [w |-> 320, h |-> 240, kbps |-> 1000, quality |-> 40, profile |-> "baseline", level |-> 30],
             p480 |-> [w |-> 640, h |-> 480, kbps |-> 2500, quality |-> 60, profile |-> "baseline", level |-> 30],
             p720 |-> [w |-> 1280, h |-> 720, kbps |-> 1500, quality |-> 70, profile |-> "main", level |-> 31]]

validateWeakLadder(l) ==
    /\ l.w > 0 /\ l.h > 0 /\ l.quality > 0 /\ l.kbps > 0
    /\ IF l.w >= 1280 \/ l.h >= 720
       THEN l.w <= 1280 /\ l.h <= 720 /\ l.level = 31 /\ l.kbps >= 1500 /\ l.profile \in {"baseline", "main"}
       ELSE /\ l.profile = "baseline" /\ l.level <= 30
            /\ IF l.w >= 640 \/ l.h >= 480 THEN l.w <= 640 /\ l.h <= 480 /\ l.kbps >= 2000
               ELSE l.kbps >= 750

\* weakForContentResolution: the profile of the menu's row, with that row's rate,
\* unless the configuration names its own.  Nothing validates the mixture.
ContentKbps == [p240 |-> 1000, p480 |-> 2500, p720 |-> 20000]
weakForContentResolution(label, conf) ==
    LET p == Profiles[label]
    IN  [p EXCEPT !.kbps = Given(conf.kbps, ContentKbps[label]), !.quality = Given(conf.quality, p.quality),
                  !.profile = Given(conf.profile, p.profile)]

Even(n) == IF n < 2 THEN 2 ELSE n - (n % 2)
Isqrt(n) == CHOOSE r \in 0..1024 : r * r <= n /\ n < (r + 1) * (r + 1)
PixelBudget == 640 * 384

\* The largest raster of the aspect inside the ladder's, then inside the budget.
InLadder(l, a) == IF a[1] * l.h >= a[2] * l.w THEN <<Even(l.w), Even((l.w * a[2]) \div a[1])>>
                  ELSE <<Even((l.h * a[1]) \div a[2]), Even(l.h)>>
InBudget(a) == LET w == Isqrt((PixelBudget * a[1]) \div a[2])
               IN  <<Even(w), Even((Even(w) * a[2]) \div a[1])>>

fitWeakLadderToAspect(l, a) ==
    IF a = Bad \/ (l.w >= 1280 /\ l.h >= 720) THEN l
    ELSE LET fit == InLadder(l, a)
             r == IF l.w <= 640 /\ l.h <= 480 /\ fit[1] * fit[2] > PixelBudget THEN InBudget(a) ELSE fit
         IN  [l EXCEPT !.w = r[1], !.h = r[2]]

(***************************************************************************)
(* The frame rate.                                                         *)
(***************************************************************************)

kStdFps == <<<<12, 1>>, <<15, 1>>, <<24000, 1001>>, <<24, 1>>, <<25, 1>>, <<30000, 1001>>, <<30, 1>>,
             <<48, 1>>, <<50, 1>>, <<60000, 1001>>, <<60, 1>>>>

Gap(x, y) == IF x > y THEN x - y ELSE y - x

\* v is in thousandths; the tolerance is a hundredth.
Near(v, f) == Gap(v * f[2], f[1] * 1000) <= 10 * f[2]
snapStdFps(v) ==
    LET i == SelectInSeq(kStdFps, LAMBDA f : Near(v, f))
    IN  IF v > 1000 * 1000 THEN Bad ELSE IF i # 0 THEN kStdFps[i] ELSE <<v, 1000>>

\* The first of the options that is nearest.
bucketFps(v) == LET opts == <<12, 24, 30, 60>>
                    d(i) == Gap(v, opts[i] * 1000)
                IN  opts[CHOOSE i \in 1..4 : \A j \in 1..4 : d(i) < d(j) \/ (d(i) = d(j) /\ i <= j)]

\* Media@videoFrameRate: a family by name, or a number with p or i behind it.
Families == [ntsc |-> <<30000, 1001>>, pal |-> <<25, 1>>, film |-> <<24000, 1001>>,
             p24 |-> <<24000, 1001>>, p30 |-> <<30000, 1001>>]
FamilyHints == [ntsc |-> 30, pal |-> 24, film |-> 24, p24 |-> 24, p30 |-> 30]

\* Stream@frameRate first, when it is a number.
parseExactFps(vfr, rate) ==
    IF rate # Bad /\ snapStdFps(rate) # Bad THEN snapStdFps(rate)
    ELSE IF vfr.name = "number" THEN snapStdFps(vfr.v)
    ELSE IF vfr.name = "none" THEN Bad ELSE Families[vfr.name]

contentFpsHint(vfr, rate) ==
    IF rate # Bad THEN bucketFps(rate)
    ELSE IF vfr.name = "number" THEN (IF vfr.v \div 1000 = 25 THEN 24 ELSE bucketFps(vfr.v))
    ELSE IF vfr.name = "none" THEN 0 ELSE FamilyHints[vfr.name]

\* capExactFpsToMaxHz at 30 Hz, as main() calls it.
capExactFps(f) ==
    IF f = Bad \/ f[1] * 100 <= 3001 * f[2] THEN f
    ELSE CASE f = <<60, 1>> -> <<30, 1>> [] f = <<60000, 1001>> -> <<30000, 1001>>
           [] f = <<50, 1>> -> <<25, 1>> [] f = <<48, 1>> -> <<24, 1>> [] OTHER -> <<30, 1>>

\* setContentFpsRational: a rate outside 1..240 is no rate.
setContentFpsRational(f) == IF f = Bad \/ f[1] < f[2] \/ f[1] > 240 * f[2] THEN Bad ELSE f

\* AV_CONTENT_FPS: nothing, 0 for a wall clock, or a rate that replaces the item's.
applyContentFpsConf(conf, f) == IF conf = Bad THEN f ELSE IF conf = 0 THEN Bad ELSE Given(snapStdFps(conf), f)

\* doPlay: the rate the player is told to pace by.
PacedBy(conf, f) == setContentFpsRational(capExactFps(applyContentFpsConf(conf, f)))

(***************************************************************************)
(* The aspect.                                                             *)
(***************************************************************************)

Divides(d, n) == n % d = 0
Gcd(x, y) == LET m == IF x < y THEN x ELSE y
             IN  CHOOSE d \in 1..m : Divides(d, x) /\ Divides(d, y)
                                     /\ \A e \in (d + 1)..m : ~(Divides(e, x) /\ Divides(e, y))

reduceSourceAspect(x, y) ==
    IF x <= 0 \/ y <= 0 THEN Bad
    ELSE LET g == Gcd(x, y) IN IF x \div g > 4095 \/ y \div g > 4095 THEN Bad ELSE <<x \div g, y \div g>>

Believed(x, y) == y <= 4 * x /\ x <= 4 * y

\* A decimal, in thousandths: a common shape, or the nearest fraction with a
\* denominator up to a hundred, if it is near enough.
CommonAspects == <<<<4, 3>>, <<16, 9>>, <<3, 2>>, <<5, 4>>, <<21, 9>>, <<47, 20>>, <<37, 20>>, <<239, 100>>>>
Rounded(v, y) == (2 * v * y + 1000) \div 2000
Miss(v, y) == Gap(v * y, 1000 * Rounded(v, y))   \* times 1000 * y
Common(v) == SelectInSeq(CommonAspects, LAMBDA a : Gap(v * a[2], 1000 * a[1]) < 5 * a[2])
Nearest(v, n, d) == \A e \in 1..n : /\ Miss(v, d) * e <= Miss(v, e) * d
                                    /\ e < d => Miss(v, d) * e < Miss(v, e) * d
sourceAspectFromDouble(v) ==
    LET y == CHOOSE d \in 1..100 : Nearest(v, 100, d)
    IN  IF ~Believed(v, 1000) THEN Bad
        ELSE IF Common(v) # 0 THEN CommonAspects[Common(v)]
        ELSE IF Miss(v, y) > y THEN Bad ELSE reduceSourceAspect(Rounded(v, y), y)

\* <<x, y>> is a text with a separator, <<v>> one without.
sourceAspectFromText(t) ==
    IF t = Bad THEN Bad
    ELSE IF Len(t) = 1 THEN sourceAspectFromDouble(t[1])
    ELSE LET r == reduceSourceAspect(t[1], t[2])
         IN  IF r = Bad THEN Bad ELSE IF Believed(r[1], r[2]) THEN r ELSE Bad

sourceAspectFromMetadata(dar, sar, size, square) ==
    LET display == sourceAspectFromText(dar)
        sample  == sourceAspectFromText(sar)
    IN  IF display # Bad THEN display
        ELSE IF sample # Bad /\ size[1] > 0 /\ size[2] > 0
             THEN reduceSourceAspect(size[1] * sample[1], size[2] * sample[2])
        ELSE IF square THEN reduceSourceAspect(size[1], size[2]) ELSE Bad

\* The first of FFmpeg's DARs that parses.
sourceAspectFromFfmpegProbeText(dars) ==
    LET i == SelectInSeq(dars, LAMBDA d : sourceAspectFromText(d) # Bad)
    IN  IF i = 0 THEN Bad ELSE sourceAspectFromText(dars[i])

\* The probe: no pipe, no fork, no FFmpeg or five seconds without an end say nothing;
\* an FFmpeg that fails on a damaged stream has still read its header.
ffmpegSourceAspect(p) ==
    IF p.end \in {"pipe", "fork", "exec", "timeout"} THEN Bad ELSE sourceAspectFromFfmpegProbeText(p.dars)

(***************************************************************************)
(* What is read from an item: its Media and its Streams.  The codec is any *)
(* video stream's; size, shape and profile are the first one's; the frame  *)
(* rate is the first stream's, or that of the first with type="video".     *)
(***************************************************************************)

NoStream == [video |-> FALSE, tag |-> "type", h264 |-> FALSE, size |-> Bad, dar |-> Bad, sar |-> Bad,
             anamorphic |-> Bad, rate |-> Bad]
FirstStream(m, chosen) == LET i == SelectInSeq(m.streams, LAMBDA s : s \in chosen)
                          IN  IF i = 0 THEN NoStream ELSE m.streams[i]

Videos(m)      == {s \in ToSet(m.streams) : s.video}
VideoStream(m) == FirstStream(m, Videos(m))

mediaVideoIsH264(m) == m.h264 \/ \E i \in DOMAIN m.streams : m.streams[i].video /\ m.streams[i].h264

MediaSize(m) == Given(VideoStream(m).size, Given(m.size, <<0, 0>>))

StreamRate(m) == Given(FirstStream(m, {s \in Videos(m) : s.tag = "type"}).rate,
                       FirstStream(m, ToSet(m.streams)).rate)

sourceAspectFromPlexMetadata(m) ==
    LET v == VideoStream(m)
    IN  sourceAspectFromMetadata(Given(m.dar, v.dar), Given(m.sar, v.sar), MediaSize(m),
                                 Given(m.anamorphic, v.anamorphic) = "no")

(***************************************************************************)
(* Whom to ask.  A cast that names its server is not shown the token of    *)
(* the configuration, and no other server is asked for it.                 *)
(***************************************************************************)

buildPlexBase(address, lan) == IF address # Bad /\ address \notin Unreachable THEN address
                               ELSE IF lan \notin Unreachable THEN lan ELSE Bad

defaultPms(a) == IF a.servers = <<>> THEN Bad ELSE a.servers[1]
Selected(a) == Given(buildPlexBase(a.address, defaultPms(a)), defaultPms(a))
TokenFor(a) == IF a.token THEN "cast" ELSE IF a.address = Bad THEN "conf" ELSE Bad
OtherServers(a) == IF a.address = Bad THEN a.servers ELSE <<>>

(***************************************************************************)
(* What is asked of a server: a rate ladder, and an offset in seconds.     *)
(***************************************************************************)

universalOffsetSeconds(ms) == IF ms <= 0 THEN 0 ELSE (ms + 500) \div 1000
buildUniversalTranscodeUrl(l, offsetMs) == [ladder |-> l, offset |-> universalOffsetSeconds(offsetMs)]

\* Its answer: nothing, a refusal, some page, or the container of a decision.
Answers == {"nothing", "no matching profile", "page", "MediaContainer"}
ensureUniversalDecision(answer) == answer = "MediaContainer"

(***************************************************************************)
(* The queue: ids are sequences of digits, and a key ends in its item's    *)
(* rating key.                                                             *)
(***************************************************************************)

Occurs(s, t) == \E i \in 0..(Len(s) - Len(t)) : SubSeq(s, i + 1, i + Len(t)) = t
FirstItem(items, P(_)) == IF SelectInSeq(items, P) = 0 THEN 1 ELSE SelectInSeq(items, P)

\* fetchPlayQueue: the item of the queue that plays, by id or else by key.
currentIndex(q) ==
    IF q.itemId # <<>>
    THEN FirstItem(q.items, LAMBDA it : it.id = q.itemId \/ it.ratingKey = q.itemId
                                        \/ Occurs(it.key, q.itemId))
    ELSE FirstItem(q.items, LAMBDA it : it.key = q.key
                                        \/ (it.ratingKey # <<>> /\ Occurs(q.key, it.ratingKey)))

\* What is read from a text is empty or of its kind: a number of thousandths, a
\* decimal or a ratio, the pixels of a picture.
Rate(v) == v = Bad \/ v \in Nat \ {0}
Shape(t) == t = Bad \/ (t \in Seq(Int) /\ Len(t) \in {1, 2})
Pixels(t) == t = Bad \/ (t \in Seq(Nat) /\ Len(t) = 2)

ASSUME AsksAssumption == \A a \in Asks :
    /\ a.kind \in KeyKinds /\ a.content \in DOMAIN Profiles /\ DOMAIN a.conf = {"kbps", "quality", "profile"}
    /\ a.relayout \in BOOLEAN /\ (a.contentFps = Bad \/ a.contentFps \in Nat)
    /\ a.servers \in Seq(ToSet(a.servers)) /\ Bad \notin ToSet(a.servers)
    /\ a.queue.items \in Seq(ToSet(a.queue.items))

ASSUME MetasAssumption == \A m \in Metas :
    /\ m # Bad /\ Shape(m.dar) /\ Shape(m.sar) /\ Pixels(m.size)
    /\ m.vfr.name \in DOMAIN Families \cup {"number", "none"} /\ (m.vfr.name = "number" => m.vfr.v \in Nat \ {0})
    /\ m.streams \in Seq(ToSet(m.streams))
    /\ \A s \in ToSet(m.streams) : Rate(s.rate) /\ Shape(s.dar) /\ Shape(s.sar) /\ Pixels(s.size)

--------------------------------------------------------------------------------
VARIABLES
    at,          \* "boot", "idle", "metadata", "decision", "fallback", "unresolved", "probe",
                 \* "publish", "ack", "retry", "start", "play", "failed"
    screen,      \* presentMode_, a bank of 720 lines, fb_.ok(), MPX_ASPECT_ACK_OPTIONAL
    ask,         \* the cast
    base, left,  \* the server that is asked and those that remain
    meta,        \* what it said of the item, or Bad
    refused,     \* it refused to transcode it
    result,      \* ResolveResult: where it plays from, the request, the rate, the aspect
    token,       \* sourceAspectToken_
    core,        \* the aspect and the token the core holds
    plxj,        \* the word it has published, which may be late
    casts

castVars == <<at, screen, ask, base, left, meta, refused, result, token, core, plxj, casts>>

NoAsk == [kind |-> "none", relayout |-> FALSE, queue |-> [items |-> <<>>, itemId |-> <<>>, key |-> <<>>]]
NoResult == [from |-> "none", url |-> buildUniversalTranscodeUrl(Profiles.p240, 0), fps |-> Bad, hint |-> 0,
             aspect |-> Bad]
TestPattern == [NoResult EXCEPT !.from = "test", !.fps = <<30, 1>>, !.hint = 30, !.aspect = <<4, 3>>]

\* With an FPGA path the core is told the shape, and acknowledges it unless the
\* environment says otherwise; without one the host owns it.
Transported == {"fpga", "both"}
publishing == IF screen.mode \notin Transported THEN "host"
              ELSE IF screen.env = "1" THEN "optional" ELSE "required"

CastInit ==
    /\ at = "boot" /\ screen \in Screens /\ ask = NoAsk /\ base = Bad /\ left = <<>>
    /\ meta = Bad /\ refused = FALSE /\ result = NoResult
    /\ token = 0 /\ core = [aspect |-> <<4, 3>>, token |-> 0] /\ plxj \in {core, Bad}
    /\ casts = 0

--------------------------------------------------------------------------------
\* The word in the PLXJ mailbox, read twice to be whole, if the core has written one.
readSourceAspectAck == plxj

\* sendSourceAspect: the token follows the one last acknowledged, or the last one
\* sent.  The packet goes out in unacknowledged bytes: the core may miss it.
NextTokenUnwrapped == (IF readSourceAspectAck # Bad THEN readSourceAspectAck.token ELSE token) + 1
NextToken == ((IF readSourceAspectAck # Bad THEN readSourceAspectAck.token ELSE token) + 1) % TokenMod
SendSourceAspect(a) == token' = NextToken /\ core' \in {core, [aspect |-> a, token |-> NextToken]}

\* initPresent opens what the mode wants.  With an FPGA path and a bank of 720 lines
\* it sends the shape of the panel, whatever becomes of it, and makes every later
\* acknowledgement optional unless the environment has the variable.
initPresent(opened, failed) ==
    \E fb, fpga \in BOOLEAN :
      /\ fb => screen.mode \in {"fb0", "both"}
      /\ fpga => screen.mode \in Transported
      /\ at' = IF screen.mode = "none" \/ fb \/ fpga THEN opened ELSE failed
      /\ screen' = [screen EXCEPT !.fb = fb,
                                  !.env = IF fpga /\ screen.hd /\ @ = "unset" THEN "1" ELSE @]
      /\ \/ fpga /\ screen.hd /\ SendSourceAspect(<<16, 9>>)
         \/ UNCHANGED <<token, core>>

Boot == at = "boot" /\ initPresent("idle", "idle")
        /\ UNCHANGED <<ask, base, left, meta, refused, result, plxj, casts>>

\* The cast's thread has returned, playing or not; its locals are gone.
Over == /\ at' = "idle" /\ ask' = NoAsk /\ base' = Bad /\ left' = <<>>
        /\ meta' = Bad /\ refused' = FALSE /\ result' = NoResult

\* A cast: a test pattern or a path needs no server; without a server nothing resolves.
Resolve ==
    /\ at = "idle" /\ casts < MaxCasts /\ casts' = casts + 1
    /\ ask' \in Asks
    /\ \/ ask'.kind = "test" /\ at' = "probe" /\ result' = TestPattern /\ UNCHANGED <<base, left>>
       \/ /\ ask'.kind = "direct" /\ at' = "probe" /\ result' = [NoResult EXCEPT !.from = "direct"]
          /\ UNCHANGED <<base, left>>
       \/ /\ ask'.kind \in {"library", "queue"} /\ result' = NoResult
          /\ base' = Selected(ask') /\ left' = OtherServers(ask')
          /\ at' = IF base' = Bad THEN "unresolved" ELSE "metadata"
    /\ UNCHANGED <<screen, meta, refused, token, core, plxj>>

\* The first exchange.  An error page is a body, not an item.
Described(m) ==
    [NoResult EXCEPT !.fps = parseExactFps(m.vfr, StreamRate(m)),
                     !.hint = contentFpsHint(m.vfr, StreamRate(m)),
                     !.aspect = sourceAspectFromPlexMetadata(m)]

\* The stream goes to the ARM as it is: wanted so, or light and already of the size.
Matches(m, l) == MediaSize(m) = <<l.w, l.h>>
DirectWanted(m) == /\ ask.kind = "library" /\ m # Bad /\ mediaVideoIsH264(m)
                   /\ (ask.preferDirect \/ (Matches(m, Profiles[ask.content]) /\ m.light))

\* Part@key, else Part@file.
DirectPart(m, r) == m # Bad /\ m.part /\ result' = [r EXCEPT !.from = "part"] /\ at' = "probe"

FetchMetadata ==
    /\ at = "metadata"
    /\ \E m \in Metas \cup {Bad} :
         LET r == IF m = Bad THEN NoResult ELSE Described(m)
         IN  /\ meta' = m
             /\ \/ DirectWanted(m) /\ DirectPart(m, r)
                \/ /\ ~(DirectWanted(m) /\ m.part) /\ result' = r
                   /\ at' = IF ask.kind = "library" THEN "decision" ELSE "fallback"
    /\ UNCHANGED <<screen, ask, base, left, refused, token, core, plxj, casts>>

\* The second exchange: the ladder, cut to the picture's shape, is asked for.
Decide ==
    /\ at = "decision"
    /\ LET weak == weakForContentResolution(ask.content, ask.conf)
           start == buildUniversalTranscodeUrl(fitWeakLadderToAspect(weak, result.aspect), ask.offsetMs)
       IN  \E answer \in Answers :
             IF ensureUniversalDecision(answer)
             THEN result' = [result EXCEPT !.from = "universal", !.url = start] /\ at' = "probe" /\ UNCHANGED refused
             ELSE at' = "fallback" /\ refused' = TRUE /\ UNCHANGED result
    /\ UNCHANGED <<screen, ask, base, left, meta, token, core, plxj, casts>>

\* The file itself, if the server knows one.
FallBack ==
    /\ at = "fallback"
    /\ DirectPart(meta, result) \/ (~(meta # Bad /\ meta.part) /\ at' = "unresolved" /\ UNCHANGED result)
    /\ UNCHANGED <<screen, ask, base, left, meta, refused, token, core, plxj, casts>>

\* The next server that was not the first; behind the last one doPlay casts the
\* test pattern instead.
Unresolved ==
    /\ at = "unresolved" /\ meta' = Bad /\ refused' = FALSE
    /\ \/ left = <<>> /\ at' = "probe" /\ result' = TestPattern /\ UNCHANGED <<base, left>>
       \/ left # <<>> /\ left' = Tail(left)
          /\ IF Head(left) = Selected(ask) THEN UNCHANGED <<at, base, result>>
             ELSE base' = Head(left) /\ at' = "metadata" /\ result' = NoResult
    /\ UNCHANGED <<screen, ask, token, core, plxj, casts>>

\* probeSourceAspect, when the metadata gave none; it may find none either.  The
\* player takes over what was resolved, and only the shape is still to be published.
Probe ==
    /\ at = "probe" /\ at' = "publish"
    /\ \E a \in IF result.aspect # Bad THEN {result.aspect} ELSE {ffmpegSourceAspect(p) : p \in Probes} :
         result' = [NoResult EXCEPT !.from = result.from, !.aspect = a]
    /\ ask' = [NoAsk EXCEPT !.relayout = ask.relayout]
    /\ base' = Bad /\ left' = <<>> /\ meta' = Bad /\ refused' = FALSE
    /\ UNCHANGED <<screen, token, core, plxj, casts>>

\* Without an acknowledgement: playback all the same, or the next layout.
NotAcked == IF publishing = "optional" THEN "start" ELSE "retry"

\* An unknown shape is refused; the layout may fail, and so may the transfer.
setSourceAspect ==
    /\ at = "publish"
    /\ \/ result.aspect # Bad /\ publishing = "host" /\ at' = "start" /\ UNCHANGED <<token, core>>
       \/ /\ result.aspect # Bad /\ publishing # "host" /\ SendSourceAspect(result.aspect)
          /\ at' \in {"ack", NotAcked}
       \/ (result.aspect = Bad \/ publishing # "host") /\ at' = "retry" /\ UNCHANGED <<token, core>>
    /\ UNCHANGED <<screen, ask, base, left, meta, refused, result, plxj, casts>>

AckMatchesLoosely == readSourceAspectAck.token = token
AckMatches == readSourceAspectAck.token = token /\ readSourceAspectAck.aspect = result.aspect

\* readSourceAspectAck until the word matches, or 250 ms pass.
AwaitAck ==
    /\ at = "ack"
    /\ \/ readSourceAspectAck # Bad /\ AckMatches /\ at' = "start"
       \/ at' = NotAcked
    /\ UNCHANGED <<screen, ask, base, left, meta, refused, result, token, core, plxj, casts>>

\* main(): one more try with the content's own layout, if the display's differs.
RetryLayout ==
    /\ at = "retry"
    /\ IF ask.relayout THEN at' = "publish" /\ ask' = [ask EXCEPT !.relayout = FALSE]
       ELSE at' = "failed" /\ UNCHANGED ask
    /\ UNCHANGED <<screen, base, left, meta, refused, result, token, core, plxj, casts>>

\* MediaPlayer::play, called by doPlay behind the handshake and again by every seek:
\* unless the framebuffer is open it runs initPresent once more.
Start ==
    /\ \/ at = "start" /\ screen.fb /\ at' = "play" /\ UNCHANGED <<screen, token, core>>
       \/ at \in {"start", "play"} /\ ~screen.fb /\ initPresent("play", "failed")
    /\ UNCHANGED <<ask, base, left, meta, refused, result, plxj, casts>>

Return == at \in {"play", "failed"} /\ Over /\ UNCHANGED <<screen, token, core, plxj, casts>>

\* The core's word, written between lines when the memory is free.
CorePublishes ==
    /\ plxj # core /\ plxj' = core
    /\ UNCHANGED <<at, screen, ask, base, left, meta, refused, result, token, core, casts>>

CastNext ==
    \/ Boot \/ Resolve \/ FetchMetadata \/ Decide \/ FallBack \/ Unresolved \/ Probe
    \/ setSourceAspect \/ AwaitAck \/ RetryLayout \/ Start \/ Return \/ CorePublishes

CastSpec == CastInit /\ [][CastNext]_castVars

--------------------------------------------------------------------------------
\* The shape of the state; the token of a packet is one byte.
CastTypeOK ==
    /\ at \in {"boot", "idle", "metadata", "decision", "fallback", "unresolved", "probe", "publish", "ack",
               "retry", "start", "play", "failed"}
    /\ screen.fb \in BOOLEAN /\ screen.env \in {"unset", "0", "1"}
    /\ ask.kind \in KeyKinds \cup {"none"} /\ token \in 0..(TokenMod - 1) /\ casts \in 0..MaxCasts
    /\ result.from \in {"none", "test", "direct", "part", "universal"}

\* setSourceAspect, "refusing playback with unknown source display aspect" and
\* "ack=matched": nothing is started without a shape, and where an acknowledgement is
\* required the core holds that shape when the player is started, although packets
\* can be lost, words are late, a token is reused after a timeout and a retry sends
\* the same aspect again.  It holds it while the title plays, too; but over a bank of
\* 720 lines play() may have put the shape of the panel in its place.
AspectTaken ==
    /\ at \in {"start", "play"} => result.aspect # Bad
    /\ publishing = "required" =>
         /\ at = "start" => core.aspect = result.aspect
         /\ at = "play" => core.aspect = result.aspect \/ (screen.hd /\ core.aspect = <<16, 9>>)

\* resolvePlayTarget, "keep weak ladder for High": a stream too heavy for the
\* ARM is handed to it only when the server refused to transcode it or streams
\* are wanted as they are.
HeavyLast ==
    (at = "probe" /\ result.from = "part" /\ ask.kind = "library" /\ ~ask.preferDirect)
        => refused \/ (meta.light /\ Matches(meta, Profiles[ask.content]))

\* fitWeakLadderToAspect: what the server is asked for is inside the row of the menu,
\* and legal when the configuration has no rates of its own; and when the metadata
\* gave a shape, it is inside the decoder's budget ("falls below rate") and keeps the
\* shape to a few pixels.
RasterFits ==
    (at = "probe" /\ result.from = "universal") =>
        LET l == result.url.ladder
            full == Profiles[ask.content]
            shape == IF meta = Bad THEN Bad ELSE sourceAspectFromPlexMetadata(meta)
        IN  /\ l.w <= full.w /\ l.h <= full.h
            /\ (\A f \in DOMAIN ask.conf : ask.conf[f] = Bad) => validateWeakLadder(l)
            /\ (full.h <= 480 /\ shape # Bad) =>
                  /\ l.w * l.h <= PixelBudget
                  /\ Gap(l.w * shape[2], l.h * shape[1]) <= 2 * (shape[1] + shape[2])

\* "pacing that at 24 costs ~1 ms/s of lipsync drift": the rate pictures are paced
\* by is the source's (or the one the configuration puts in its place) to a hundredth
\* of a hertz, and the source's or its half for the standard rates the display cannot
\* keep up with: only an odd rate above 30 Hz is given up.  And the rate of the log's
\* hint is the nearest option to the same source.
SourceRate(m) == IF StreamRate(m) # Bad THEN StreamRate(m) ELSE m.vfr.v
Showable(rate) == (1000 <= rate /\ rate <= 30010) \/ \E i \in DOMAIN kStdFps : Near(rate, kStdFps[i])
InStep(rate, f) == \E k \in {1, 2} : Gap(rate * f[2], k * f[1] * 1000) <= 10 * f[2]
RatesAgree ==
    (at = "probe" /\ meta # Bad /\ (StreamRate(meta) # Bad \/ meta.vfr.name = "number")) =>
        LET rate == IF ask.contentFps = Bad THEN SourceRate(meta) ELSE ask.contentFps
        IN  /\ Showable(rate) => InStep(rate, PacedBy(ask.contentFps, result.fps))
            /\ result.hint = bucketFps(SourceRate(meta))

\* resolveAgainstServers, "Cast-pinned host must not authenticate with conf token":
\* the configuration's token goes to its own servers only, and a cast that names a
\* server that can be reached is asked of no other.
TokenKept ==
    at \in {"metadata", "decision"} =>
        /\ TokenFor(ask) = "conf" => base \in ToSet(ask.servers)
        /\ ask.address \notin Unreachable \cup {Bad} => base = ask.address /\ TokenFor(ask) # "conf"

\* fetchPlayQueue: the item that was asked for, by its id or by its key, is found,
\* unless an item before it has the same one or the digits occur in the other's key.
QueueItemFound ==
    \A i \in DOMAIN ask.queue.items :
        LET q == ask.queue  it == q.items[i]
        IN  /\ (/\ q.itemId = it.id /\ q.itemId # <<>>
                /\ \A j \in 1..(i - 1) : /\ ~Occurs(q.items[j].key, q.itemId)
                                         /\ q.itemId \notin {q.items[j].ratingKey, q.items[j].id})
                  => currentIndex(q) = i
            /\ (/\ q.itemId = <<>> /\ q.key = it.key
                /\ \A j \in 1..(i - 1) : /\ q.key # q.items[j].key
                                         /\ q.items[j].ratingKey = <<>> \/ ~Occurs(q.key, q.items[j].ratingKey))
                  => currentIndex(q) = i

\* What the resolver hands over is fit to play, whatever the servers answered.
ResolverSound == HeavyLast /\ RasterFits /\ RatesAgree /\ TokenKept /\ QueueItemFound

\* A cast that reaches the player is fit to play and the core knows its shape.
CastSound == AspectTaken /\ ResolverSound
================================================================================
