# TLA+ models of MisterPlex

MisterPlex turns a MiSTer FPGA board into a Plex player. A Linux daemon,
`misterplexd`, runs on the ARM side: it answers Plex controllers (Plex Web, a
phone) over HTTP, resolves titles at a Plex Media Server (PMS), decodes them and
hands frames, audio and elementary streams to the FPGA core through shared DDR
and SPI. This directory holds TLA+ models of that system, TLC configurations that
check them on small instances, and TLAPS proofs of what those checks suggest, for
instances of any size.

The models cover the daemon's own logic from the cast to the bank of the frame
store: the play session and what controllers see of it, the two timelines, the
resolver and the aspect handshake, the player's threads and child processes, and
the protocols between ARM and core.

## 1. Inventory

| component | state | operations | hard part | what makes it correct |
|---|---|---|---|---|
| companion session state (`companion.cpp`, `companion.hpp`) | state, time, duration, scrub target, `wantPlay_`, `prePlayHold_`, `castBound_`, pending key, all under `mu_` | `setState`, `bindMedia`, `seedPlaybackPosition`, `stagePlay`, `clearMedia`, the plants of the handlers, `timelineXml` | progress of an old demux arriving after a stop, a seek or a new cast | the thumb does not jump back, a stopped session stays stopped, the timeline names the running title |
| companion HTTP handlers (`httpLoop`) | one thread, one request at a time | playMedia, play, pause, stop, seekTo, step, skipNext, skipPrevious, poll, mirror, unsubscribe | several critical sections per request; callbacks into `main.cpp` that wait for locks | every request is answered |
| play session orchestration (`main.cpp`) | `playGen`, `playHandoffMu`, `seekGen`, `seekMu`, `lastPlay`, `autoNextInFlight` | `doPlay`, `seekAsync`, `tryQueueStep`, `closedStopPlay`, progress callback, live resolution change | detached threads, network resolves that finish in any order | the newest request wins, none is lost, the DDR layout never changes under a demux |
| Plex resolver and source aspect (`plex_resolve.cpp`, `source_aspect.hpp`) | the candidates left, the token and the PLXJ word | `resolveAgainstServers`, `resolvePlayTarget`, `fetchPlayQueue`, `setSourceAspect` | servers that refuse, hang or lie; lost packets and late words | what plays is light enough, fits the raster, and the core knows its shape |
| media player lifecycle (`media_player.cpp`) | play thread, three workers, five mutexes, the decoder's pid | `play`, `stop`, `seekMs`, `pause`, `resume`, `shutdown` | joins under locks, an input thread that calls back in | one session owns decoder and screen |
| a session of `threadMain` | FFmpeg processes, pid slots, pipes, two pumps | set-up, play, teardown, `killChildren` from two threads | a stop during set-up, a child that dies, a fifo nobody opens | nothing is left, the end is reported rightly |
| present loops and overlay | ring of two slots or one buffer, banks, overlay | read, pace, present, prefetch, repaint in a pause | pause and resume at any point, two threads at one bank | pictures whole, in order, none in another's place |
| audio pump and A/V lock | bytes written, depth sampled, pictures shown | hold, pace, sample; hold, drop, present | two threads that wait for each other | neither waits for ever |
| PMS timeline reporter (`pms_timeline.cpp`) | active session, token, queue of 4, worker, `cv_` | `beginSession`, `reportState`, `endSession`, `updateToken`, `stopAndFlush` | build and queue are two sections; bounded queue; wakeups outside the lock | a session that ended is reported stopped once |
| companion timeline push | subscribers (8), command ids (16), two push flags | `subscribeTimeline`, `updateTimelineCommand`, `unsubscribeTimeline`, `timelinePushLoop`, `postTimeline`, `stop` | a list edited during posts, a wakeup that can be lost in `stop` | changes reach every subscriber; only dead ones go |
| local input and OSD (`input_mailbox.hpp`, `osd_menu.hpp`) | mailbox words, last sequence numbers, settings | edge detection, dispatch, OSD poll and decode | sequence wrap, words of an earlier core | a key acts once, the menu is followed |
| FPGA SPI transport (`fpga_spi.cpp`, `spi_ack_wait.hpp`) | GPO register, mutex, lock file, stopped Main | window, word, transaction, watchdog | another process believes it owns the register; a crash inside a window | the register is handed back, words arrive |
| frame banks (`fpga_spi.cpp`, `ddr_frame_store.sv`) | doorbell, swap count, PLXD, strict baseline | write, kick, swap, publish, probe | two clock domains and late words | no tearing |
| bitstream ring (`ddr_bitstream_ring.hpp`, `ddr_bitstream_reader.sv`) | cells, CTRL, READ, flags | begin, push, pause, end, read | two processors, no lock, stale counts | a lossless bounded queue |
| NAL stream (`streamPump`, `h264_nal_dispatch.hpp`) | accumulator, parameter sets | cut, dispatch, pause, resume | reads that end anywhere | exact units, sets before slices |
| FIFOs, arbiter, H.264 decode arithmetic, framebuffer, GDM, scripts, log redaction | – | – | – | see section 8 |

How they interact. The HTTP thread calls lambdas that `main.cpp` installs
(`setPlayQueued`, `setPlay`, `setStop`, `setSeek`, ...). Some run on the HTTP
thread and take `playHandoffMu`; the rest detach a thread. Every detached thread
that starts a title runs `doPlay`. `doPlay` resolves the title, publishes its
aspect, calls back into the companion (`bindMedia`, `setState`, ...), into the
reporter and into the player. The play thread forks the decoders, reads pictures
and reports through the progress lambda, which calls the reporter and the
companion and may detach an auto-next thread. The input thread calls the player
directly; `doPlay` parks it with `FpgaWorkerHandoff` while it changes the layout.
All access to the core goes through `FpgaSpi`, which borrows the GPO register
from the Main process of MiSTer, and through DDR words that either side reads
when it likes.

## 2. Modules

| module | models | kind |
|---|---|---|
| `Companion` | the record under `Companion::mu_`, one operator per critical section | operators |
| `PlaySession` | the threads of the daemon around that record; extends `Companion` | state machine |
| `PmsTimeline` | `PmsTimelineReporter`, its callers, its worker and the flush | state machine |
| `TimelinePush` | the push thread, its subscribers, the HTTP thread as it edits them, `Companion::stop` | state machine |
| `CastResolve` | from a cast's key to a URL, a raster, a rate and an acknowledged aspect | state machine over pure operators |
| `MediaWorkers` | the player's mutexes, workers, sessions and calls | state machine |
| `DemuxSession` | one session of `threadMain`: processes, pid slots, pipes, pumps, and a concurrent `stop()` | state machine |
| `PresentPipeline` | the present loop of `PRESENT=fpga`: reader, ring of two, present thread | state machine |
| `SerialPresent` | the present loop of the other modes, with the overlay drawn into its one buffer | state machine |
| `AvLock` | the audio pump against the pictures | timed state machine |
| `SpiWindow` | the GPO register, its borrowers, Main, crashes, the watchdog | state machine |
| `DdrPresent` | the frame banks and their doorbell | state machine |
| `BitstreamRing` | the record ring; an instance of `RecordFifo` under a refinement mapping | state machine |
| `RecordFifo` | what the ring promises: a bounded queue of whole records | abstract specification |
| `NalStream` | `streamPump` and the NAL dispatcher | state machine |
| `LocalControls` | the two mailboxes of the box and their polls | state machine |
| `MCPlaySession`, `MCTimelines`, `MCFabric`, `MCThreads` | instances and unions for TLC | for TLC |
| `PlaySession_proofs`, `PmsTimeline_proofs`, `SpiWindow_proofs`, `DdrPresent_proofs`, `BitstreamRing_proofs` | theorems about the module of that name | TLAPS |
| `Timelines_proofs` | theorems about `TimelinePush` and the union `MCTimelines` | TLAPS |
| `Fabric_proofs` | theorems about `LocalControls`, `CastResolve`, `NalStream` and the union `MCFabric` | TLAPS |
| `Threads_proofs` | theorems about the five modules of `MCThreads` and their union | TLAPS |

The three unions put components that share no state into one run: a variable
says which of them runs and the others stand still, so a behaviour of the union
is a behaviour of one component. Where components do share state (the
session, the player, the companion) they are one state machine, `PlaySession`, or
one of them appears in the other by what it publishes.

### PlaySession

A step is one critical section, or one operation on an atomic. The places where
a thread can be interrupted are therefore those of the code.

* `comp` is the companion record; `playGen`, `playHandoffMu`, `seekMu`,
  `seekGen`, `lastPlay` and `autoNextInFlight` are the variables of `main()` with
  these names; `player` is what the others see of `MediaPlayer`; `pms` is the
  title of the reporter's active session.
* `http` and `input` say where the HTTP thread and the input thread are and what
  they have read. `pc` and `task` are slots for detached threads: a playMedia, a
  seek, a queue step or a resolution change.
* `PlayMediaQueued` ... `Unsubscribe` are the HTTP handlers. `DoPlayEnter` ...
  `DoPlayPlay` are the sections of `doPlay` in their order; `Finish` is its return,
  where the lock guards and `FpgaWorkerHandoff` unwind. `SeekStart`, `SeekMsRead`
  and `SeekMsPlay` are the seek thread; `StepRead` ... `AutoStop` are a queue
  step. `MediaBegins` ... `MediaUnstarted` are the media thread, with the callback
  each report runs. `InputStop` ... `ContentResolutionChanged` are the local
  controls.
* `stopped`, `settled` and a task's `overtaken` are history: no action reads them.

What is abstracted. Titles are model values; of the identity of a title only its
key is kept, since only the key is compared. Times are ticks; `Catchup`,
`Advance` and `RestartAfter` stand for 2000, 400 and 3000 ms. A resolve is one
step that may find any of `Durations[k]` (module `CastResolve` has the resolve
itself); a failed resolve plays the test pattern under the same key, so it is one
more member of that set. Durations that are not known (0) are left out. A queue
step may always fail to fetch. `MediaPlayer::stop` and `play` are one step each,
because `lifeMu_` covers them (`MediaWorkers` has their steps). The two early
checks of `playGen` in `doPlay` only lead to a return, which the check in
`DoPlayAccept` also takes, so they are part of that step. A restart of a
skipPrevious that found no previous item takes over the slot of its thread.

### The timelines

`PmsTimeline`: a call builds its request in one section of `mu_`, queues it in a
second and notifies after it: `BeginSession`, `ReportState` and `EndSession` are
the first, `Enqueue` the second, `NotifyQueued` the third. `WorkerCheck` is the
worker's section with its wait, `WorkerSend` the send outside the lock.
`StopAndFlush`, `FlushNotify` and `FlushJoin` are `stopAndFlush`. Whether the
one-second cadence has passed is a free choice.

`TimelinePush`: the session is a version number, so that "what was posted" can be
compared with "what is". The wait is two steps, the look at the predicate and the
block, because `Companion::stop` notifies without the mutex. A post may fail;
three failures in a row drop the subscriber, which may meanwhile have subscribed
again.

### The cast

`CastResolve` runs a cast through `Resolve`, `FetchMetadata`, `Decide`,
`FallBack`, `Probe`, `setSourceAspect` and `AwaitAck`, with a server that answers
each request as it likes. The helpers of `plex_resolve.cpp` and
`source_aspect.hpp` are pure operators on what the text says: a rate is a number
of thousandths, an aspect a pair. `MPX_ASPECT_ACK_OPTIONAL`, the retry after a
layout change and `AV_CONTENT_FPS` are modelled. `initPresent` runs at boot (`Boot`)
and again in every `MediaPlayer::play` whose framebuffer is not open (`Start`), that is
behind the handshake; over a bank of 720 lines it sends 16:9 and makes later
acknowledgements optional. `screen` is what decides this: the present mode, the
bank, whether the framebuffer is open, and the environment variable.

### The player

`MediaWorkers` writes each call of the player as the list of its steps (take a
mutex, set a flag, join, signal, fork), so that the order of locks and joins is
that of the code. `DemuxSession` has the steps of one session, every early return
included, against a `stop()` that may come at any of them. `PresentPipeline` and
`SerialPresent` are the two loops that bring pictures to the screen; frames are
their numbers. `AvLock` keeps time in milliseconds because the two waits compare
times.

### The fabric

`SpiWindow` separates Main's update of its own copy of the register from its
store, since SIGSTOP may fall between. `DdrPresent` keeps the doorbell, the
request that crosses clock domains, the swap and the PLXD word as four places
that change one after another. The core may be reset at any time; doorbell and PLXD
outlive it, and the daemon, in DDR. The first token the core reads behind a reset only
primes its poll, and becomes a request when it stays; an edge on SPI is ignored until
a token was accepted. `BitstreamRing` keeps the published words apart
from the reader's own state. `NalStream` works on real byte sequences and cuts
them at every possible read. `LocalControls` lets the mailboxes hold anything an
earlier core may have left. Main, the SIGSTOP delivery and the core's ack are
external: they are modelled from how the daemon uses them.

## 3. Properties

`PlaySession`:

* `TypeOK`. The interesting part is that no thread forwards a state that the
  timeline does not know ("ended") and that no clamp yields a negative time.
* `HandoffOwnsNewest`: from acceptance to return a `doPlay` holds
  `playHandoffMu` and the newest generation, so it is never superseded half way.
* `StartsInOrder`: demuxes start, or fail closed, in the order of generations.
* `LayoutExclusive`: the DDR layout changes only with no demux running.
* `StopSticks`: after an answered stop only a new cast starts the player.
* `NewestSettles`: when all is quiet, the newest generation is the one that
  started a demux or reported that it could not: no cast gets lost.
* `TimelineTitle`: when all is quiet the timeline names the title that is playing.
  `ReportedTitle`: the server is told of the title in the player, or of the one that a
  `doPlay` between `beginSession` and `player.play` is about to start.
* `PlantHonoured`: late progress does not rewind a planted scrubber.
* `RequestsAnswered`, `ThreadsReturn`: nothing waits for ever.

The timelines:

* `OneStop`, `EndedIsSilent`: an ended session is reported stopped exactly once,
  and that is the last report built for it. `StopsDisplaceStops`: a "stopped" is
  displaced only when as many sessions have ended as the queue holds.
  `QueueDrains`, `FlushReturns`: reports are sent and the flush returns.
* `LastVersionShown`: while the companion runs, every subscriber is in the end
  posted the session as it is. `DropEarned`: a subscriber is dropped for failures
  of its own registration, with at most one of an earlier one. `CommandForward`:
  command ids go forward at an endpoint unless the table had to forget.
* `EndsClean`: both threads leave with nothing queued and are woken by the end,
  but for a notification of `Companion::stop` that falls before the wait.

The fabric:

* `BusHandedBack`, `WordsDelivered`, `StrandedIsSeen`: outside windows the
  register is what Main stored; a transaction without error reached the core
  whole; Main is left stopped only by a death inside a window, and then the
  watchdog sees it. Deaths while driving, and a watchdog that resumes Main inside
  a window it did not see open, are named exceptions.
* `NoTear`, `LockoutRecoverable`: a strict write never goes to a bank the core
  shows or was asked to show, however late PLXD is, unless a request that no strict
  baseline accounts for is on its way (`mixed`: a best effort frame, a first kick sent
  both ways, a token from before a remap or a reset of the core); a strict write of
  unknown outcome always leads to a re-probe.
* `ImplementsFifo`, `RingAgreed`: the ring refines `RecordFifo`; producer and
  reader agree on the session and no desync is raised without cause.
* `StreamIntact`: the units found are those of the stream wherever the reads
  fall and however long they are, and every slice goes behind the parameter sets it needs.
* `CastSound`: what plays has a shape which, where an acknowledgement is
  required, the core holds when the player is started (while it plays, a bank of 720
  lines may have been given the shape of the panel instead); what the resolver hands over is light enough or was
  refused, fits the row and the budget, and is paced at the source's rate or at its
  half (a rate above 30.01 Hz that is not a standard one is given up for 30 Hz); the configured
  token stays with its servers; the queue item asked for is found, unless one before
  it has the same id or key, or its digits occur in the other's key.
* `ControlsFollowed`: a key acts at most once, in order, and one that a poll finds
  is lost only to the seeding of the detector, to the counters of a new core that
  repeat the last ones, to as many presses between two polls as a counter
  counts, or to the OSD being in use; the settings in force are those of the last
  word read, and no word of an earlier core is taken.

The player's threads:

* `FramesKept`: in the pipeline a present hands over the frame it took, in order,
  and "ended" means every frame was presented or dropped as late; in the serial
  loop a picture presented in its turn is whole and carries only its own
  overlay, and a picture counts as cut short only at the end. The exceptions are
  named in the modules: two repaints over a prefetched bank; a repaint in the
  middle of a read; a skip flashed between the bounds and the pixels of a packed
  overlay; a resume between the two looks at `paused_`.
* `ScreenOwned`, `FrozenMeansPaused`: no thread object is overwritten while
  joinable, no decoder outlives its session, the painters land at most one late
  paint each; the decoder is stopped only while paused, or when a pause ran
  across the start or end of a session.
* `NoStrandedWait`: no sleeper is left unless the notification fell before its
  wait (`SleeperIsMissed`), the pump and the pictures stick only if the slack is too
  short (`StuckIsShortSlack`), mutexes and joins close no circle (`NoCircle`), and a
  session that cannot go on is in one of two known waits (`KnownWaits`).
* `EveryWaitIsKnown`: the conditions `NoCircle` and `KnownWaits` speak of are those
  under which the actions are enabled (`ReadyGoes`, `SessionGoes`).
* `NothingLeft`, `SessionAccounted`: after a session no pipe, pump or process is
  left but one whose pid was lost, to the remuxer's store over the demuxer's or to a
  `stop()` during set-up; "ended" is reported only for content that was played.

## 4. Runs

| run | configuration | distinct states | shows |
|---|---|---|---|
| `casts` | playMedia, stop, skipNext, mirror; local stop and resolution change; 3 commands, 1 local event, 2 threads, auto-next on | 1.9 M | `TypeOK`, `HandoffOwnsNewest`, `LayoutExclusive`, `ReportedTitle`, `StartsInOrder` |
| `settle` | playMedia, stop, poll, unsubscribe; local stop and pause; 4 commands, auto-next off | 250 k | `StopSticks`, `TimelineTitle`, `NewestSettles` |
| `scrub` | playMedia, seek, step, skipPrevious, pause, play; positions 0 and 2 of a title of length 2 with a server offset of 1; 3 commands | 1.2 M | `PlantHonoured` |
| `live` | playMedia, stop, seek, skipNext, input seek; 2 commands; `FairSpec` | 220 k | `RequestsAnswered`, `ThreadsReturn` |
| `timelines` | server: 2 callers, 2 tokens, queue of 2, 2 sessions; controllers: 1 id, tables of 1, 2 requests and 2 changes, 3 of both together; `TimelinesSpec` | 340 k | the properties of both timelines |
| `fabric` | 1 daemon thread, 1 tool, 2 tasks of Main, 1 death; 3 frames, remaps or resets of the core; ring of 4 cells, 4 records, 1 restart; 3 streams; 2 casts over every kind, row, fallback and 4 screens; 2 presses, 1 turn, 1 reset | 1.5 M | the properties of the fabric |
| `threads` | 2 frames, 1 pause in either present loop; 2 pictures of audio and video; 2 callers with 2 calls; every kind of session | 1.1 M | the properties of the player's threads |

Why the bounds are enough to be interesting. Two titles and two threads are the
fewest with which one request can overtake another; three commands allow a cast,
a second actor and a third command that meets both in flight, four allow
cast, stop, cast, stop. A queue of two can be full of stops, full of others, or
mixed; tables of one subscriber and one controller evict at the second. Two tasks
of Main are needed for one to run while the other stops; three frames for a bank
to be used again; a doorbell modulo three, a swap count and a token modulo two wrap.
The words an earlier daemon leaves in DDR come about in the run by a reset or a remap
behind a frame; that any words may be there from the start is in the theorems. A ring of four
cells is wrapped and filled by records of two and three. The streams hold every
shape of start code and a unit longer than the accumulator. Two pictures suffice
for a prefetch, for a half-read buffer and for the waits of `AvLock`, where the
freeze of section 5 needs five. Threads of `PlaySession` are interchangeable, so
the safety runs use symmetry; the liveness runs do not. Every counter is bounded
by a named constant (`MaxCommands`, `MaxSessions`, `MaxWrites`, ...); the theorems
of section 6 do not depend on these bounds.

`casts` and `settle` differ on purpose: `StopSticks` and `NewestSettles` do not
hold with queue steps (section 5), so `settle` states them for sessions without
any. `LayoutExclusive` and `ReportedTitle` do not hold with seeks on the input
thread, which restart the title they read some steps before, so `casts` has none. The unions turn deadlock checking off, because a process exits, a
session ends and bounds run out; the waits that matter are properties there
(`NoStrandedWait`, `EveryWaitIsKnown`, `EndsClean`). The runs of `PlaySession` keep it
on, with `Waiting` for the daemon that has nothing to do.

## 5. Where code and comments disagree

Five runs expect a violation. Each property is what a comment or a document says.

* `queue_step_after_stop` (`StopSticks`): a skipNext reads `lastPlay` and fetches
  the queue; a stop is answered meanwhile; the fetch returns, `stagePlay` sets
  `wantPlay_` again and the neighbour plays. `setStop` says that nothing late
  restarts the demux.
* `promotion` (`NoPromotion`): a seek thread that was detached before a cast
  takes its generation in `doPlay`, above the cast's. The cast is then refused at
  its next check. `companion.hpp` says an older thread can never promote itself.
* `closed_stop` (`ClosedStopIdles`): a failed start calls `setState("stopped")`,
  which with `wantPlay_` set is shown as buffering at fullScreenVideo, the very
  thing the comment on `closedStopPlay` wants to avoid.
* `layout` (`LayoutExclusive`): `player.stop()` comes before the input thread is
  parked, and `seekMs` does not take `playHandoffMu`; a skip between the two
  restarts the demux before `setDecodeSize`.
* `av_freeze` (`SessionFinishes`): a late first picture is dropped and not
  counted as shown, so the slack of 80 ms no longer covers a picture and the
  depth last sampled. The pump then holds for pictures, the next picture for
  audio, and neither wait has a timeout. The milestone document says the depth is
  compensated continuously. `StuckIsShortSlack` says when this can happen.

Exceptions that the invariants name, and a reader may want to know of:

* `PresentPipeline`: `readerEof` and its notification are not under `ringMu`, so
  the join of the present thread can hang (`SleeperIsMissed`); so can that of the
  push thread in `Companion::stop` (`StopWakes`).
* `SerialPresent`: a resume that falls between the read loop's look at `paused_`
  and the check after it makes a half-read picture a short read, and the title is
  reported "ended", which starts the next one; the comment at the report says
  "Only natural EOF with content may report "ended" and trigger auto-next". A
  pause in the middle of a read repaints a buffer of two pictures.
* `DemuxSession`: the decoder's open of a fifo whose remuxer died is ended by
  nothing, and every later `stop()` and `play()` waits for it; the path without
  RGB looks for its end only when it has an audio child and a demuxer.
* `MediaWorkers`: a `play` after `shutdown` has begun assigns joinable threads; a
  pause that crosses the start of a session can stop the new decoder.
* `LocalControls`: the first press after the DDR map was released, or one of a new
  core whose counters repeat the last ones, is taken for the seed and lost; so is
  a press with 255 others between it and the last one read, since both counters must
  differ and `cmdSeq` is a byte.

Observations from reading, without a run: `initPresent` sets
`MPX_ASPECT_ACK_OPTIONAL` for a 720p bank and nothing clears it, so the gate of
the acknowledgement stays open for the daemon's life; it runs at every start when the
framebuffer is not open, and then puts 16:9 over the shape the core has just
acknowledged; the hard cap of `streamPump` empties no accumulator: `compactAcc` returns
before it when there is nothing to drop, and what remains behind a drop is at most a
read and four bytes, so that a unit longer than the cap is kept and grows without bound
(`StreamStaysIntact` proves that nothing is lost); `osd_menu.hpp` says the
720p row's bitrate matches `plexTranscodeProfiles()` (20000 against 1500);
`validateWeakLadder` runs only at start-up, so configured rates mixed with
another row of the menu can be an illegal ladder; the frame rate of a video
stream listed behind an audio stream is ignored when it is given by `streamType`;
`threadMain`'s refusal of a bank under the 960 budget returns with `playing_`
still true; nothing stores a seek request, so the branches for one in the two
present loops, and the direct ingest of the serial loop, never run.

## 6. Proofs

Eight modules prove theorems, for all values of the constants that the named
assumptions allow: any titles, threads, callers, tokens, ring sizes, counter widths,
streams and server answers. The assumptions (`SessionAssumption`,
`RingAssumption`, `WorkersAssumption`, ...) say of which kind the constants are and
that a name for "nothing" is none of the values; TLC evaluates them in every run of
the module. Every safety property of the passing runs is stated by a theorem, but
for `EveryWaitIsKnown`, which uses ENABLED; `PROJECT.json` lists which by which.

Each proof has the same plan. An inductive invariant is a conjunction of named
parts, each of which says why the property holds; a lemma per action shows which
parts the step can disturb; the theorem joins `Init => Inv`, `Inv /\ [Next]_vars =>
Inv'` and `Inv => Property`. What follows is the idea of each invariant.

### The session: `PlaySession_proofs`

* `TypeCorrect`, `NewestOwnsHandoff`, `HandoffIsExclusive`, `OrderedStarts`. The
  inductive invariant is `IndInv == TypeOK /\ SlotInv`. `HandoffOwnsNewest` by itself
  is inductive only because `playGen` moves under `playHandoffMu`
  (`TakeGeneration`); ordering needs more, namely that generations are unique among
  the threads and the HTTP thread, never above `playGen`, and not used again once
  settled (`Generations`). `TypeOK` in turn needs that a thread which resolves or
  steps has a key (`Keyed`) and that only queue steps walk the queue
  (`StepKinds`), since `Durations`, `NextItem` and `PrevItem` are only defined for
  titles. A step changes the slots in one of six ways (nothing, detach, move,
  return, free, take a generation), with one lemma each.
* `ScrubIsHonoured`: while a plant is held, a cast is on or its loss is remembered,
  and the thumb is within `Catchup` of it (`PlantInv`), through every operator of
  `Companion`. Hypothesis: no controller unsubscribes.
* `ReportsItsTitle`, `LayoutIsExclusive`, `StopIsFinal`: not every daemon keeps
  these (section 5). The theorems name the culprit as a temporal hypothesis,
  `[]~InPlaceRestart` or `[]~QueueStepStages`, each of which says that no thread ever
  stands at one place of the code: between `seekMs`'s reading of the title and its
  `play`, or in a queue step's fetch. So the holes that the runs
  `layout` and `queue_step_after_stop` exhibit are the only ones. The invariants: the
  server's title is the player's unless a `doPlay` stands between the two
  (`SessionInv`), the player is
  still from its stop to its start (`StillInHandoff`), and the loss of a cast is
  remembered between the two halves of a stop (`StopInv`).
* `NoCastIsLost`, `TimelineNamesTheTitle`: the thread that carries the newest
  generation is awaited, so `doPlay` does not refuse it, and it settles that
  generation before it ends (`CarryInv`); a running title is named by the timeline
  or about to be stopped (`TitleInv`). Hypotheses: no mirror requests, and
  `[]~UnnumberedStart`: no thread starts a title without a generation of its own,
  which is the way of the promotion that the run `promotion` shows; for the timeline
  also `[]~InPlaceRestart`.

These hypotheses are not vacuous: the daemons of the run `settle` satisfy all the
temporal ones by their commands, those of `scrub` never unsubscribe, and a daemon
with every command satisfies them in each behaviour without the step they name.

### The timelines: `PmsTimeline_proofs`, `Timelines_proofs`

* `StopReportedOnce`, `EndedStaysSilent`: the "stopped" of an ended session is in
  exactly one place (a caller's hand, the queue, displaced, in flight, sent), and no
  other report of an ended session is built (`StopInv`). `OnlyStopsDisplaceStops`
  follows from what the queue gives up when full; `WorkerDrains`: the worker leaves
  with the queue empty.
* `DroppedOnItsOwn`: of the failures counted on a subscriber all but one are of
  its own registration, and all of them while the post of an earlier one is under
  way (`DropInv`). `CommandsGoForward`: the command ids of the table, the list, the
  push thread's copy of it and what was posted are in order (`CommandInv`), unless
  the table forgot a controller.
* `TimelinesEndClean`: a push thread that waits after the notification missed it
  (`WakeInv`). `TimelinesTypeCorrect` joins the types of both.

### The fabric: `SpiWindow_proofs`, `DdrPresent_proofs`, `BitstreamRing_proofs`, `Fabric_proofs`

* `SpiWindow`: three invariants, each under the exceptions of the one before.
  `LockInv`: who drives the register holds mutex and flock, and Main is stopped only
  for somebody (`StrandedMainIsSeen`). `BusInv`: unless a process died driving or the
  watchdog resumed Main inside a window, what a window saved is what Main stored
  (`RegisterHandedBack`). `WordsInv`: if moreover no ack came late, the strobe, the
  ack and the count of words agree at every place (`WordsReachTheCore`).
* `DdrPresent`: `StrictNeverTears` and `LockoutHasAnExit` from `DdrInv`, which says,
  until a request that the strict baseline does not count is on its way, how the writer's baseline, the doorbell, the swap count and PLXD, each late
  against the next, bound what the core can still show.
* `BitstreamRing`: `RingImplementsFifo` is the refinement of `RecordFifo`, step by
  step. `RingInv`: the cells from the reader's count to the published one are the
  words sent, because the producer judges the room by a READ that is never
  ahead. `RingAgrees` adds where in a session producer and reader can stand against
  each other (`SessionInv`).
* `ControlsAreFollowed`: the mailbox counters are ahead of the eye by the presses not
  yet read, modulo any width (`ControlsInv`).
* `CastIsSound`: rows, rates, tokens and shapes through the resolver's steps, that an
  aspect taken for acknowledged is the one published, and that behind it only the
  `initPresent` of a 720-line bank sends another (`CastInv`).
* `StreamStaysIntact`: `CutInv` says, of any bytes and reads, that what was cut is
  exactly the units that end before the accumulator, and that the accumulator
  begins with a unit or holds no start code but a split one; `RestShort`, that behind a
  drop only the last read is left, is why the cap never empties it; `SetsInv` that the
  decoder in use has the last parameter sets cut.
* `FabricTypeCorrect`, `FabricKeepsItsWord`: a behaviour of `FabricSpec` is one of
  each of its six parts, so the properties above hold in the run that checks them.

### The player's threads: `Threads_proofs`

* `FramesAreKept`, `SleepersAreMissed`, `LoopsTypeCorrect`: `PipeInv` and `SerialInv`
  say which frame of the stream each slot, bank, buffer half and counter stands
  for, at every place of the loops.
* `SessionLeavesNothing`: who holds each pipe end (`PipesHeld`) and who knows
  each child's pid (`Named`), that what the session's `killChildren` has emptied
  stays empty (`Emptied`, `FirstUse`), and the ways to lose a pid
  (`LossExplained`). `SessionAlwaysAccounted` is about how a session can end.
* `SessionWaitsAreKnown`: a waiter's child is not the one in its slot
  (`AwaitedApart`), a pid in a slot is of a child not yet reaped or being cleared
  (`Reapable`), and a pump is gated only where a picture or a stop is to come
  (`Gated`); so at each place some guard holds, but in the two waits named.
* `HoldsAreShortSlack`: if the pump and the pictures wait for each other for good,
  the slack is less than what the property says; linear arithmetic on the
  schedule (`AvInv`), for any periods and depths.
* `ScreenAlwaysOwned`, `FrozenOnlyPaused`: `WorkersInv` gives each call a mark that
  sums up what is left of it (whether it will still join, fork, signal, paint), and
  says which marks can stand together.
* `NeverAllBlocked`: while a call has not returned, somebody can go on. `WaitsInv`
  adds the lock order, that a worker is joined under its own mutex with its run flag
  down, and that the input worker's own call joins nobody it could be waiting for.
* `ThreadsTypeCorrect`, `NobodyStranded`, `ThreadsKeepTheirWord`: the same in the run
  of all five groups.

Failed proofs changed the model where it was wrong: the frame rate is that of the
first video stream (`CastResolve`), the last chunk of audio may be short and is
still waited for (`AvLock`), and a caller of the player must not have the name of
a worker (`WorkersAssumption`).

### Only model-checked

* Liveness under fairness: `RequestsAnswered`, `ThreadsReturn`, `QueueDrains`,
  `FlushReturns`, `LastVersionShown`.
* `EveryWaitIsKnown`: that the guards `NoCircle` and `KnownWaits` speak of (`Ready`,
  `CanGo`) are those of the actions, stated with ENABLED. The proofs are about the
  guards; the run `threads` checks that they are the actions' own.
* The runs that expect a violation, and everything without the hypotheses named above:
  `settle` and `casts` check the session's properties for their commands.

## 7. Fairness

`FairSpec` of `PlaySession` asks weak fairness of each detached thread, of the
HTTP thread between receiving and answering a request, and of the input thread
in `seekMs`: they are OS threads, resolves and posts have timeouts, and the
mutexes are released on every path. Weak fairness is enough for the mutexes
because in a bounded run they are eventually free for good. Nothing is
assumed of controllers, of keys pressed, or that a title ever ends.
`PmsTimeline` asks weak fairness of the worker (its sink has a four-second
timeout), of each caller after its first section, and of the flush once it has
begun; nothing makes anybody call. `TimelinePush` asks it of the push thread,
whose posts have a timeout; nothing makes a session change or a controller
subscribe. `AvLock` asks it of time (`Tick`), of the pump and of the present
loop: two OS threads that poll with a sleep, and a driver that plays. The unions
`fabric` and `threads` state safety only and have no fairness.

## 8. Not modelled, and why

* The arithmetic of the H.264 decoders (RTL, `h264_recon`, `h264_cavlc`),
  `fb_present`, the DMA driver `pl330_mem2mem`: data paths over frames and device
  registers, compared with reference streams by the repository's tests.
* The clock-crossing FIFOs, the bus arbiter and the ack follower of the core,
  which have their own benches.
* The pixel fetch of the frame store, glyphs and blending of the overlay, URL
  building, XML scanning, argument parsing, `log_redact`, GDM: text, pixels and
  sockets without state of their own; what they may answer is a constant or a
  free choice.
* Of the player: the warm-up prefill before the pipeline starts, the rate servo
  (at most one percent), the stick ingest of lab builds, subtitles, profiling.
* Cadence, frame layout and raster arithmetic: closed formulas that the unit
  tests enumerate.
* Vendored `sys/` of the core, build scripts, lab tools, the supervisor scripts.

## 9. Plan

Done: the modules of section 2, their runs, and a theorem for each of their safety
properties that this prover can state. Left:

1. An abstract specification of the session, one register of "current title" that
   casts overwrite in the order of their generations, implemented by `PlaySession`
   under the hypotheses of `NoCastIsLost`.
2. The components of section 8 that have state: the arbiter and the FIFOs of the
   core, the warm-up prefill, the rate servo.
3. Proofs of the liveness properties, should the prover learn ENABLED and fairness.

## 10. Running

    tlc -workers 2 -config PlaySessionCasts.cfg MCPlaySession
    tlc -workers 2 -config Timelines.cfg MCTimelines
    tlc -workers 2 -config Fabric.cfg MCFabric
    tlc -workers 2 -config Threads.cfg MCThreads
    tlc -workers 2 -config AvLockFreeze.cfg AvLock
    for m in *_proofs.tla; do tlapm "$m"; done

The other configurations, `PlaySession*.cfg`, are for `MCPlaySession`. The longest
proof, `Threads_proofs`, takes about ten minutes from nothing.

`PROJECT.json` lists every run with its properties, the source lines of every
definition, the hazards the properties are for, and for each property a mutated
definition that breaks it.
