------------------------ MODULE PlaySession_proofs ------------------------
(***************************************************************************)
(* Proofs about PlaySession, for any number of titles, threads, commands   *)
(* and local controls.  First each critical section of the companion keeps *)
(* the record well typed; then each action keeps TypeOK; then the handoff  *)
(* mutex and the generations.                                              *)
(***************************************************************************)
EXTENDS PlaySession, TLAPS

\* A request that is to be played names a title: no doPlay runs on an empty key.
KeyedPcs == HandoffPcs \cup {"plant", "enter", "resolve", "stepFetch", "stepPlant"}
Keyed ==
    /\ \A w \in Threads : pc[w] \in KeyedPcs => task[w].key \in Keys
    /\ http.pc = "plant" => http.key \in Keys

\* Only a queue step walks the queue, and it has no generation yet.
StepKinds ==
    \A w \in Threads : pc[w] \in {"stepRead", "stepFetch"} =>
        task[w].kind \in {"auto", "next", "prev"} /\ task[w].gen = 0

\* Generations are numbered once: none is used by two threads, none is above
\* playGen, none is used again after it has settled, and none is 0 once doPlay
\* has numbered its request.
Generations ==
    /\ settled <= playGen
    /\ \A w \in Threads : task[w].gen <= playGen
    /\ \A w \in Threads : task[w].gen # 0 => task[w].gen # settled
    /\ \A w \in Threads : pc[w] \in HandoffPcs \cup {"resolve"} => task[w].gen # 0
    /\ \A v, w \in Threads : v # w /\ task[v].gen # 0 => task[v].gen # task[w].gen
    /\ http.pc = "plant" =>
          /\ http.gen # 0 /\ http.gen # settled /\ http.gen <= playGen
          /\ \A w \in Threads : task[w].gen # http.gen

-----------------------------------------------------------------------------

(* A time clamped into a duration is a time, and no larger.                *)
LEMMA ClampType ==
    ASSUME NEW t \in Nat, NEW d \in Nat
    PROVE  Clamp(t, d) \in Nat /\ Clamp(t, d) <= t /\ (d > 0 => Clamp(t, d) <= d)
BY DEF Clamp

(* Companion::setState keeps the companion record well typed.              *)
LEMMA SetStateType ==
    ASSUME NEW c \in Companions, NEW st \in States, NEW t \in Nat, NEW d \in Nat
    PROVE  setState(c, st, t, d) \in Companions
<1> DEFINE tm  == IF d > 0 /\ t > d THEN d ELSE Clamp(t, c.durationMs)
           dur == IF d > 0 THEN d ELSE c.durationMs
<1>1. c.durationMs \in Nat
  BY DEF Companions
<1>2. tm \in Nat /\ dur \in Nat
  BY <1>1, ClampType
<1>3. Clamp(tm, dur) \in Nat
  BY <1>2, ClampType
<1> HIDE DEF tm, dur
<1>4. CASE IgnoredAfterStop(c, st)
  BY <1>4 DEF setState
<1>5. CASE ~IgnoredAfterStop(c, st)
  <2>1. [c EXCEPT !.state = st, !.durationMs = dur] \in Companions
    BY <1>2 DEF Companions, States
  <2>2. ASSUME Held(c, st)
        PROVE  [c EXCEPT !.state = st, !.durationMs = dur, !.timeMs = c.scrubTargetMs]
               \in Companions
    <3>1. c.scrubTargetMs \in Nat
      <4>1. c.scrubTargetMs \in Nat \cup {-1}
        BY DEF Companions
      <4>2. c.scrubTargetMs >= 0
        BY <2>2 DEF Held
      <4> QED
        BY <4>1, <4>2
    <3> QED
      BY <1>2, <3>1 DEF Companions, States
  <2>3. [c EXCEPT !.scrubTargetMs = IF Held(c, st) /\ ReleasesHold(c, tm) THEN -1 ELSE @,
                  !.state = st, !.durationMs = dur, !.timeMs = Clamp(tm, dur),
                  !.wantPlay = @ \/ st \in Live] \in Companions
    BY <1>2, <1>3 DEF Companions, States, Live
  <2> QED
    BY <1>5, <2>1, <2>2, <2>3 DEF setState, tm, dur
<1> QED
  BY <1>4, <1>5

(* Companion::bindMedia keeps the companion record well typed.             *)
LEMMA BindMediaType ==
    ASSUME NEW c \in Companions, NEW key \in AnyKey, NEW d \in Nat
    PROVE  bindMedia(c, key, d) \in Companions
<1> DEFINE held  == c.scrubTargetMs >= 0
           plant == IF held THEN Clamp(c.scrubTargetMs, d) ELSE -1
           at    == IF held THEN plant ELSE Clamp(c.timeMs, d)
<1>1. c.scrubTargetMs \in Nat \cup {-1} /\ c.timeMs \in Nat
  BY DEF Companions
<1>2. plant \in Nat \cup {-1} /\ at \in Nat
  BY <1>1 DEF Clamp
<1> HIDE DEF held, plant, at
<1>3. [c EXCEPT !.pendingKey = key, !.durationMs = d, !.scrubTargetMs = plant,
                !.timeMs = at, !.wantPlay = TRUE, !.prePlayHold = FALSE] \in Companions
  BY <1>2 DEF Companions, AnyKey
<1> QED
  BY <1>3 DEF bindMedia, held, plant, at

(* So do the other critical sections of Companion::mu_.                    *)
LEMMA SectionTypes ==
    ASSUME NEW c \in Companions, NEW key \in AnyKey, NEW t \in Nat, NEW d \in Nat
    PROVE  /\ seedPlaybackPosition(c, t, d) \in Companions
           /\ stagePlay(c, key, t) \in Companions
           /\ clearMedia(c) \in Companions
           /\ bindCast(c) \in Companions
           /\ plantSeek(c, t, d) \in Companions
           /\ pollTimeline(c) \in Companions
           /\ mirror(c, key) \in Companions
           /\ dropCast(c) \in Companions
<1>1. seedPlaybackPosition(c, t, d) \in Companions
  BY DEF seedPlaybackPosition, Clamp, Companions, States
<1>2. stagePlay(c, key, t) \in Companions /\ clearMedia(c) \in Companions
  BY DEF stagePlay, clearMedia, Companions, States, AnyKey
<1>3. bindCast(c) \in Companions /\ plantSeek(c, t, d) \in Companions
  BY DEF bindCast, plantSeek, Companions, States
<1>4. pollTimeline(c) \in Companions /\ dropCast(c) \in Companions
  BY DEF pollTimeline, dropCast, Companions
<1>5. mirror(c, key) \in Companions
  BY DEF mirror, bindCast, Companions, States, AnyKey
<1> QED
  BY <1>1, <1>2, <1>3, <1>4, <1>5

-----------------------------------------------------------------------------

(* Detaching a thread and returning from one keep the slots well typed.    *)
LEMMA SpawnType ==
    ASSUME TypeOK, NEW w \in Threads, NEW at \in Pcs, NEW t \in Tasks, Spawn(w, at, t)
    PROVE  pc' \in [Threads -> Pcs] /\ task' \in [Threads -> Tasks]
BY DEF TypeOK, Spawn

\* seekAsync numbers the seek and detaches its thread.
LEMMA SeekAsyncType ==
    ASSUME TypeOK, NEW w \in Threads, NEW ms \in Nat, seekAsync(w, ms)
    PROVE  pc' \in [Threads -> Pcs] /\ task' \in [Threads -> Tasks] /\ seekGen' \in Nat
<1>1. seekGen + 1 \in Nat
  BY DEF TypeOK
<1>2. [NoTask EXCEPT !.kind = "seek", !.off = ms, !.seekGen = seekGen + 1] \in Tasks
  BY <1>1 DEF NoTask, Tasks, Times, AnyKey, Kinds, QueueSteps
<1> QED
  BY <1>1, <1>2, SpawnType DEF seekAsync, Pcs

\* A thread that moves on stays at a known section.
LEMMA GotoType ==
    ASSUME TypeOK, NEW w \in Threads, NEW at \in Pcs, Goto(w, at)
    PROVE  pc' \in [Threads -> Pcs]
BY DEF TypeOK, Goto

\* A thread that returns leaves a free slot and gives its mutexes back.
LEMMA FinishType ==
    ASSUME TypeOK, NEW w \in Threads, Finish(w)
    PROVE  /\ pc' \in [Threads -> Pcs] /\ task' \in [Threads -> Tasks]
           /\ playHandoffMu' \in Threads \cup {None}
           /\ seekMu' \in Threads \cup {None}
           /\ autoNextInFlight' \in BOOLEAN
<1>1. NoTask \in Tasks
  BY DEF NoTask, Tasks, Times, AnyKey, Kinds, QueueSteps
<1>2. {"free", "stepReturn"} \subseteq Pcs
  BY DEF Pcs
<1> QED
  BY <1>1, <1>2 DEF TypeOK, Finish

-----------------------------------------------------------------------------
(* Every action keeps TypeOK: one lemma per thread of the daemon.          *)

(* The fields of well-typed records.                                       *)
LEMMA FieldTypes ==
    ASSUME TypeOK
    PROVE  /\ comp.timeMs \in Nat /\ comp.durationMs \in Nat
           /\ http.key \in AnyKey /\ http.ms \in Nat /\ http.dur \in Nat
           /\ http.present \in BOOLEAN /\ http.gen \in Nat /\ http.st \in {"playing", "paused"}
           /\ player.url \in AnyKey /\ player.pos \in Nat /\ player.dur \in Nat
           /\ input.url \in AnyKey /\ input.ms \in Nat /\ input.dur \in Nat
           /\ lastPlay.key \in AnyKey /\ lastPlay.off \in Nat
BY DEF TypeOK, Companions, HttpStates, Players, InputStates, PlayBinds, Times

\* The fields of a detached thread's record.
LEMMA TaskFields ==
    ASSUME TypeOK, NEW w \in Threads
    PROVE  /\ task[w] \in Tasks
           /\ task[w].kind \in Kinds /\ task[w].key \in AnyKey /\ task[w].off \in Nat
           /\ task[w].gen \in Nat /\ task[w].dur \in Nat /\ task[w].start \in Nat
BY DEF TypeOK, Tasks, Times

\* Every request handler of Companion::httpLoop keeps TypeOK.
LEMMA HttpType == TypeOK /\ HttpThread => TypeOK'
<1> SUFFICES ASSUME TypeOK, HttpThread PROVE TypeOK'
  OBVIOUS
<1> USE SessionAssumption, NoKeyAssumption, FieldTypes DEF locks, session, history
<1>0. IdleHttp \in HttpStates
  BY DEF IdleHttp, HttpStates, HttpPcs, AnyKey, Times
<1>1. ASSUME NEW key \in Keys, NEW off \in Nat, NEW present \in BOOLEAN,
             PlayMediaQueued(key, off, present)
      PROVE  TypeOK'
  <2>1. comp' \in Companions
    BY <1>1, SectionTypes DEF TypeOK, PlayMediaQueued, AnyKey
  <2>2. task' \in [Threads -> Tasks]
    <3>1. ASSUME NEW w \in Threads
          PROVE  [task[w] EXCEPT !.overtaken = TRUE] \in Tasks
      BY TaskFields DEF Tasks
    <3> QED
      BY <1>1, <3>1, TaskFields DEF PlayMediaQueued, Overtaken
  <2>3. http' \in HttpStates
    <3>1. playGen + 1 \in Nat
      BY DEF TypeOK
    <3> QED
      BY <1>1, <3>1 DEF PlayMediaQueued, IdleHttp, HttpStates, HttpPcs, AnyKey, Times
  <2>4. playGen' \in Nat
    BY <1>1 DEF TypeOK, PlayMediaQueued, TakeGeneration
  <2>5. commands' \in 0..MaxCommands
    BY <1>1 DEF TypeOK, PlayMediaQueued, Receive
  <2> QED
    BY <1>1, <2>1, <2>2, <2>3, <2>4, <2>5 DEF TypeOK, PlayMediaQueued
<1>2. ASSUME NEW key \in Keys, Mirror(key) PROVE TypeOK'
  BY <1>2, SectionTypes DEF TypeOK, Mirror, Receive, AnyKey
<1>3. ASSUME NEW w \in Threads, PlayMediaPlant(w) PROVE TypeOK'
  <2>1. comp' \in Companions
    BY <1>3, SectionTypes DEF TypeOK, PlayMediaPlant
  <2>2. pc' \in [Threads -> Pcs] /\ task' \in [Threads -> Tasks]
    <3>1. [NoTask EXCEPT !.kind = "play", !.key = http.key, !.off = http.ms,
                         !.present = http.present, !.gen = http.gen] \in Tasks
      BY DEF NoTask, Tasks, Times, Kinds, QueueSteps
    <3> QED
      BY <1>3, <3>1, SpawnType DEF PlayMediaPlant, Pcs
  <2> QED
    BY <1>0, <1>3, <2>1, <2>2 DEF TypeOK, PlayMediaPlant
<1>4. ASSUME NEW st \in {"playing", "paused"}, Control(st) PROVE TypeOK'
  <2>1. comp' \in Companions
    BY <1>4, SectionTypes DEF TypeOK, Control, AnyKey
  <2>2. http' \in HttpStates
    BY <1>4 DEF Control, IdleHttp, HttpStates, HttpPcs, AnyKey, Times
  <2> QED
    BY <1>4, <2>1, <2>2 DEF TypeOK, Control, Receive
<1>5. CASE ControlState
  <2>1. http' \in HttpStates
    BY <1>5 DEF TypeOK, ControlState, HttpStates, HttpPcs
  <2> QED
    BY <1>5, <2>1, SetStateType DEF TypeOK, ControlState, States
<1>6. CASE ControlPlayer
  <2>1. player' \in Players
    BY <1>6 DEF TypeOK, ControlPlayer, Players
  <2> QED
    BY <1>0, <1>6, <2>1, SetStateType DEF TypeOK, ControlPlayer, States
<1>7. CASE StopClear
  <2>1. comp' \in Companions
    BY <1>7, SectionTypes DEF TypeOK, StopClear, AnyKey
  <2>2. http' \in HttpStates
    BY <1>7 DEF StopClear, IdleHttp, HttpStates, HttpPcs, AnyKey, Times
  <2> QED
    BY <1>7, <2>1, <2>2 DEF TypeOK, StopClear, Receive
<1>8. CASE StopPlayer
  <2>1. http' \in HttpStates
    BY <1>8 DEF TypeOK, StopPlayer, HttpStates, HttpPcs
  <2>2. StoppedPlayer \in Players
    BY DEF StoppedPlayer, Players, AnyKey, Times
  <2>3. comp' \in Companions
    BY <1>8, SetStateType DEF TypeOK, StopPlayer, playerStop, States
  <2>4. playGen' \in Nat
    BY <1>8 DEF TypeOK, StopPlayer, TakeGeneration
  <2>5. player' \in Players /\ pms' \in AnyKey
    BY <1>8, <2>2 DEF StopPlayer, playerStop, AnyKey
  <2> QED
    BY <1>8, <2>1, <2>3, <2>4, <2>5 DEF TypeOK, StopPlayer
<1>9. CASE StopForget
  <2>1. NoPlay \in PlayBinds
    BY DEF NoPlay, PlayBinds, AnyKey, Times
  <2> QED
    BY <1>0, <1>9, <2>1 DEF TypeOK, StopForget
<1>10. ASSUME NEW off \in Nat, Seek(off) PROVE TypeOK'
  <2>1. comp' \in Companions
    BY <1>10, SectionTypes DEF TypeOK, Seek, AnyKey
  <2>2. Clamp(off, comp.durationMs) \in Nat
    BY ClampType
  <2>3. http' \in HttpStates
    BY <1>10, <2>2 DEF Seek, IdleHttp, HttpStates, HttpPcs, AnyKey, Times
  <2> QED
    BY <1>10, <2>1, <2>3 DEF TypeOK, Seek, Receive
<1>11. ASSUME NEW w \in Threads, SeekPlant(w) PROVE TypeOK'
  <2>1. comp' \in Companions
    BY <1>11, SectionTypes DEF TypeOK, SeekPlant, AnyKey
  <2>2. pc' \in [Threads -> Pcs] /\ task' \in [Threads -> Tasks] /\ seekGen' \in Nat
    BY <1>11, SeekAsyncType DEF SeekPlant
  <2> QED
    BY <1>0, <1>11, <2>1, <2>2 DEF TypeOK, SeekPlant
<1>12. ASSUME NEW w \in Threads, NEW delta \in {-1, 1}, Step(w, delta) PROVE TypeOK'
  <2> DEFINE sum == comp.timeMs + delta
             pos == IF sum < 0 THEN 0 ELSE sum
             ms  == Clamp(pos, comp.durationMs)
  <2>1. pos \in Nat
    OBVIOUS
  <2>2. ms \in Nat
    <3> HIDE DEF pos
    <3> QED BY <2>1, ClampType
  <2>3. bindCast(comp) \in Companions
    BY SectionTypes DEF TypeOK, AnyKey
  <2>4. comp' = plantSeek(bindCast(comp), ms, comp.durationMs) /\ seekAsync(w, ms)
    BY <1>12 DEF Step
  <2> HIDE DEF ms
  <2>5. comp' \in Companions
    BY <2>2, <2>3, <2>4, SectionTypes DEF AnyKey
  <2>6. pc' \in [Threads -> Pcs] /\ task' \in [Threads -> Tasks] /\ seekGen' \in Nat
    BY <2>2, <2>4, SeekAsyncType
  <2> QED
    BY <1>12, <2>5, <2>6 DEF TypeOK, Step, Receive
<1>13. ASSUME NEW w \in Threads, SkipNext(w) PROVE TypeOK'
  <2>1. [NoTask EXCEPT !.kind = "next"] \in Tasks
    BY DEF NoTask, Tasks, Times, AnyKey, Kinds, QueueSteps
  <2>2. pc' \in [Threads -> Pcs] /\ task' \in [Threads -> Tasks]
    BY <1>13, <2>1, SpawnType DEF SkipNext, Pcs
  <2> QED
    BY <1>13, <2>2, SectionTypes DEF TypeOK, SkipNext, Receive, AnyKey
<1>14. CASE SkipPrevious
  <2>1. comp' \in Companions
    BY <1>14, SectionTypes DEF TypeOK, SkipPrevious, AnyKey
  <2>2. http' \in HttpStates
    BY <1>14 DEF SkipPrevious, IdleHttp, HttpStates, HttpPcs, AnyKey, Times
  <2> QED
    BY <1>14, <2>1, <2>2 DEF TypeOK, SkipPrevious, Receive
<1>15. CASE SkipPreviousCall
  <2> DEFINE Typed == /\ pc' \in [Threads -> Pcs] /\ task' \in [Threads -> Tasks]
                      /\ seekGen' \in Nat /\ autoNextInFlight' \in BOOLEAN
  <2>1. ASSUME NEW w \in Threads, seekAsync(w, 0), UNCHANGED autoNextInFlight
        PROVE  Typed
    BY <2>1, SeekAsyncType DEF TypeOK
  <2>2. ASSUME NEW w \in Threads, autoNextInFlight' = TRUE, UNCHANGED seekGen,
               Spawn(w, "stepRead", [NoTask EXCEPT !.kind = "prev", !.start = comp.timeMs])
        PROVE  Typed
    <3>1. [NoTask EXCEPT !.kind = "prev", !.start = comp.timeMs] \in Tasks
      BY DEF NoTask, Tasks, Times, AnyKey, Kinds, QueueSteps
    <3> QED
      BY <2>2, <3>1, SpawnType DEF TypeOK, Pcs
  <2>3. Typed
    BY <1>15, <2>1, <2>2 DEF TypeOK, SkipPreviousCall
  <2>4. http' \in HttpStates
    BY <1>15 DEF TypeOK, SkipPreviousCall, HttpStates, HttpPcs
  <2> QED
    BY <1>15, <2>3, <2>4 DEF TypeOK, SkipPreviousCall
<1>16. CASE SkipPreviousPlant
  <2>1. comp' \in Companions
    BY <1>16, SectionTypes DEF TypeOK, SkipPreviousPlant, AnyKey
  <2> QED
    BY <1>0, <1>16, <2>1 DEF TypeOK, SkipPreviousPlant
<1>17. CASE Poll
  BY <1>17, SectionTypes DEF TypeOK, Poll, Receive, AnyKey
<1>18. CASE Unsubscribe
  BY <1>18, SectionTypes DEF TypeOK, Unsubscribe, Receive, AnyKey
<1>19. CASE Acknowledged
  BY <1>19, SectionTypes DEF TypeOK, Acknowledged, Receive, AnyKey
<1> QED
  BY <1>1, <1>2, <1>3, <1>4, <1>5, <1>6, <1>7, <1>8, <1>9, <1>10, <1>11, <1>12, <1>13, <1>14,
     <1>15, <1>16, <1>17, <1>18, <1>19
     DEF HttpThread

(* MediaPlayer::play and stop, with the callback that stop runs.           *)
LEMMA PlayerTypes ==
    ASSUME TypeOK
    PROVE  /\ playerStop => player' \in Players /\ comp' \in Companions /\ pms' \in AnyKey
           /\ \A url \in AnyKey, pos \in Nat, dur \in Nat :
                 playerPlay(url, pos, dur) => player' \in Players
<1>1. StoppedPlayer \in Players
  BY DEF StoppedPlayer, Players, AnyKey, Times
<1>2. ASSUME playerStop
      PROVE  player' \in Players /\ comp' \in Companions /\ pms' \in AnyKey
  BY <1>1, <1>2, FieldTypes, SetStateType DEF TypeOK, playerStop, States, AnyKey
<1>3. ASSUME NEW url \in AnyKey, NEW pos \in Nat, NEW dur \in Nat, playerPlay(url, pos, dur)
      PROVE  player' \in Players
  BY <1>3 DEF playerPlay, Players, Times
<1> QED
  BY <1>2, <1>3

\* closedStopPlay's writes are well typed.
LEMMA ClosedStopType ==
    ASSUME TypeOK, NEW w \in Threads, NEW t \in Nat, closedStopPlay(w, t)
    PROVE  /\ comp' \in Companions /\ pms' \in AnyKey /\ lastPlay' \in PlayBinds
           /\ settled' \in Nat
           /\ pc' \in [Threads -> Pcs] /\ task' \in [Threads -> Tasks]
           /\ playHandoffMu' \in Threads \cup {None} /\ seekMu' \in Threads \cup {None}
           /\ autoNextInFlight' \in BOOLEAN
<1>1. comp' \in Companions
  BY TaskFields, SetStateType DEF TypeOK, closedStopPlay, States
<1>2. NoPlay \in PlayBinds
  BY DEF NoPlay, PlayBinds, AnyKey, Times
<1>3. pms' \in AnyKey /\ lastPlay' \in PlayBinds /\ settled' \in Nat
  BY <1>2, TaskFields DEF closedStopPlay, AnyKey
<1> QED
  BY <1>1, <1>3, FinishType DEF closedStopPlay

\* Every section of doPlay keeps TypeOK.
LEMMA DoPlayType ==
    ASSUME TypeOK, Keyed, NEW w \in Threads, DoPlay(w)
    PROVE  TypeOK'
<1> USE SessionAssumption, NoKeyAssumption, FieldTypes, TaskFields DEF locks, session, history
<1>0. HandoffPcs \cup {"resolve"} \subseteq Pcs
  BY DEF Pcs
<1>1. CASE DoPlayEnter(w)
  <2>1. playGen' \in Nat
    BY <1>1 DEF TypeOK, DoPlayEnter, TakeGeneration
  <2>2. task' \in [Threads -> Tasks]
    <3>1. playGen + 1 \in Nat
      BY DEF TypeOK
    <3>2. [task[w] EXCEPT !.gen = playGen + 1] \in Tasks
      BY <3>1 DEF Tasks
    <3> QED
      BY <1>1, <3>2 DEF TypeOK, DoPlayEnter
  <2>3. pc' \in [Threads -> Pcs]
    BY <1>0, <1>1, GotoType DEF DoPlayEnter
  <2> QED
    BY <1>1, <2>1, <2>2, <2>3 DEF TypeOK, DoPlayEnter
<1>2. CASE DoPlayAccept(w)
  <2>1. CASE Current(w) /\ acceptsPlayRequest(comp, task[w].key)
    <3>1. pc' \in [Threads -> Pcs]
      BY <1>0, <1>2, <2>1, GotoType DEF DoPlayAccept, HandoffPcs
    <3>2. task' \in [Threads -> Tasks]
      <4>1. PICK d \in Durations[task[w].key] : task' = [task EXCEPT ![w].dur = d]
        BY <1>2, <2>1 DEF DoPlayAccept
      <4>2. d \in Nat => [task[w] EXCEPT !.dur = d] \in Tasks
        BY DEF Tasks, Times
      <4>3. d \in Nat
        <5>1. task[w].key \in Keys
          BY <1>2 DEF Keyed, KeyedPcs, DoPlayAccept
        <5> QED
          BY <4>1, <5>1
      <4> QED
        BY <4>1, <4>2, <4>3 DEF TypeOK
    <3> QED
      BY <1>2, <2>1, <3>1, <3>2 DEF TypeOK, DoPlayAccept
  <2>2. CASE ~(Current(w) /\ acceptsPlayRequest(comp, task[w].key))
    <3>1. Finish(w)
      BY <1>2, <2>2 DEF DoPlayAccept
    <3> QED
      BY <1>2, <3>1, FinishType DEF TypeOK, DoPlayAccept
  <2> QED
    BY <2>1, <2>2
<1>3. CASE DoPlayStop(w)
  <2>1. pc' \in [Threads -> Pcs]
    BY <1>0, <1>3, GotoType DEF DoPlayStop, HandoffPcs
  <2> QED
    BY <1>3, <2>1, PlayerTypes DEF TypeOK, DoPlayStop
<1>4. CASE DoPlaySuspend(w)
  <2>1. pc' \in [Threads -> Pcs]
    BY <1>0, <1>4, GotoType DEF DoPlaySuspend, HandoffPcs, SuspendedPcs
  <2> QED
    BY <1>4, <2>1 DEF TypeOK, DoPlaySuspend
<1>5. CASE DoPlayLayout(w)
  <2>1. CASE closedStopPlay(w, task[w].off)
    BY <1>5, <2>1, ClosedStopType DEF TypeOK, DoPlayLayout
  <2>2. CASE /\ Goto(w, "bind")
             /\ UNCHANGED <<comp, pms, playHandoffMu, seekMu, session, task, settled>>
    <3>1. pc' \in [Threads -> Pcs]
      BY <1>0, <2>2, GotoType DEF HandoffPcs, SuspendedPcs
    <3> QED
      BY <1>5, <2>2, <3>1 DEF TypeOK, DoPlayLayout
  <2> QED
    BY <1>5, <2>1, <2>2 DEF DoPlayLayout
<1>6. CASE DoPlayBind(w)
  <2>1. CASE Finish(w) /\ UNCHANGED comp
    BY <1>6, <2>1, FinishType DEF TypeOK, DoPlayBind
  <2>2. CASE ~(Finish(w) /\ UNCHANGED comp)
    <3>1. /\ comp' = bindMedia(comp, task[w].key, task[w].dur)
          /\ Goto(w, "startAt")
          /\ UNCHANGED <<playHandoffMu, seekMu, autoNextInFlight, task>>
      BY <1>6, <2>2 DEF DoPlayBind
    <3>2. pc' \in [Threads -> Pcs]
      BY <1>0, <3>1, GotoType DEF HandoffPcs, SuspendedPcs
    <3>3. comp' \in Companions
      BY <3>1, BindMediaType DEF TypeOK
    <3> QED
      BY <1>6, <3>1, <3>2, <3>3 DEF TypeOK, DoPlayBind
  <2> QED
    BY <2>1, <2>2
<1>7. CASE DoPlayStartAt(w)
  <2>1. CASE Finish(w)
    BY <1>7, <2>1, FinishType DEF TypeOK, DoPlayStartAt
  <2>2. CASE ~Finish(w)
    <3>1. pc' \in [Threads -> Pcs]
      BY <1>0, <1>7, <2>2, GotoType DEF DoPlayStartAt, HandoffPcs, SuspendedPcs
    <3>2. startAt(w) \in Nat
      <4>1. task[w].key \in Keys
        BY <1>7 DEF Keyed, KeyedPcs, HandoffPcs, SuspendedPcs, DoPlayStartAt
      <4>2. ViewOffset[task[w].key] \in Nat
        BY <4>1
      <4> QED
        BY <4>2 DEF startAt, Clamp
    <3>3. task' = [task EXCEPT ![w].start = startAt(w)]
      BY <1>7, <2>2 DEF DoPlayStartAt
    <3>4. startAt(w) \in Nat => [task[w] EXCEPT !.start = startAt(w)] \in Tasks
      BY DEF Tasks, Times
    <3>5. task' \in [Threads -> Tasks]
      BY <3>2, <3>3, <3>4 DEF TypeOK
    <3> QED
      BY <1>7, <2>2, <3>1, <3>5 DEF TypeOK, DoPlayStartAt
  <2> QED
    BY <2>1, <2>2
<1>8. CASE DoPlaySeed(w)
  <2>1. pc' \in [Threads -> Pcs]
    BY <1>0, <1>8, GotoType DEF DoPlaySeed, HandoffPcs, SuspendedPcs
  <2>2. comp' \in Companions
    BY <1>8, SectionTypes DEF TypeOK, DoPlaySeed
  <2> QED
    BY <1>8, <2>1, <2>2 DEF TypeOK, DoPlaySeed
<1>9. CASE DoPlayBuffering(w)
  <2>1. pc' \in [Threads -> Pcs]
    BY <1>0, <1>9, GotoType DEF DoPlayBuffering, HandoffPcs, SuspendedPcs
  <2>2. comp' \in Companions
    BY <1>9, SetStateType DEF TypeOK, DoPlayBuffering, States
  <2> QED
    BY <1>9, <2>1, <2>2 DEF TypeOK, DoPlayBuffering
<1>10. CASE DoPlayCommit(w)
  <2>1. CASE Finish(w) /\ UNCHANGED lastPlay
    BY <1>10, <2>1, FinishType DEF TypeOK, DoPlayCommit
  <2>2. CASE ~(Finish(w) /\ UNCHANGED lastPlay)
    <3>1. pc' \in [Threads -> Pcs]
      BY <1>0, <1>10, <2>2, GotoType DEF DoPlayCommit, HandoffPcs, SuspendedPcs
    <3>2. lastPlay' \in PlayBinds
      BY <1>10, <2>2 DEF DoPlayCommit, PlayBinds, Times
    <3> QED
      BY <1>10, <2>2, <3>1, <3>2 DEF TypeOK, DoPlayCommit
  <2> QED
    BY <2>1, <2>2
<1>11. CASE DoPlayBegin(w)
  <2>1. pc' \in [Threads -> Pcs]
    BY <1>0, <1>11, GotoType DEF DoPlayBegin, HandoffPcs, SuspendedPcs
  <2>2. pms' \in AnyKey
    BY <1>11 DEF DoPlayBegin
  <2> QED
    BY <1>11, <2>1, <2>2 DEF TypeOK, DoPlayBegin
<1>12. CASE DoPlayPlay(w)
  <2>1. CASE closedStopPlay(w, task[w].start) /\ UNCHANGED player
    BY <1>12, <2>1, ClosedStopType DEF TypeOK, DoPlayPlay
  <2>2. CASE /\ playerPlay(task[w].key, task[w].start, task[w].dur)
             /\ settled' = task[w].gen
             /\ Finish(w)
             /\ UNCHANGED <<comp, pms, lastPlay>>
    <3>1. player' \in Players
      BY <2>2, PlayerTypes
    <3> QED
      BY <1>12, <2>2, <3>1, FinishType DEF TypeOK, DoPlayPlay
  <2> QED
    BY <1>12, <2>1, <2>2 DEF DoPlayPlay
<1> QED
  BY <1>1, <1>2, <1>3, <1>4, <1>5, <1>6, <1>7, <1>8, <1>9, <1>10, <1>11, <1>12
     DEF DoPlay

\* A queue step that does not advance leaves well-typed state.
LEMMA NoQueueStepType ==
    ASSUME TypeOK, NEW w \in Threads, NoQueueStep(w),
           task[w].kind \in {"auto", "next", "prev"}
    PROVE  /\ comp' \in Companions /\ seekGen' \in Nat
           /\ pc' \in [Threads -> Pcs] /\ task' \in [Threads -> Tasks]
           /\ playHandoffMu' \in Threads \cup {None} /\ seekMu' \in Threads \cup {None}
           /\ autoNextInFlight' \in BOOLEAN
<1> USE FieldTypes, TaskFields
<1>1. CASE task[w].kind = "auto"
  <2>1. Goto(w, "stepReturn")
        /\ UNCHANGED <<comp, seekGen, task, playHandoffMu, seekMu, autoNextInFlight>>
    BY <1>1 DEF NoQueueStep
  <2>2. pc' \in [Threads -> Pcs]
    BY <2>1, GotoType DEF Pcs
  <2> QED
    BY <2>1, <2>2 DEF TypeOK
<1>2. CASE task[w].kind = "next"
  <2>1. Finish(w) /\ UNCHANGED <<comp, seekGen>>
    BY <1>2 DEF NoQueueStep
  <2> QED
    BY <2>1, FinishType DEF TypeOK
<1>3. CASE task[w].kind = "prev"
  <2>1. CASE Finish(w) /\ UNCHANGED <<comp, seekGen>>
    BY <2>1, FinishType DEF TypeOK
  <2>2. CASE ~(Finish(w) /\ UNCHANGED <<comp, seekGen>>)
    <3>1. /\ seekGen' = seekGen + 1
          /\ task' = [task EXCEPT ![w] = [NoTask EXCEPT !.kind = "seek",
                                                        !.seekGen = seekGen + 1]]
          /\ Goto(w, "seekWait")
          /\ autoNextInFlight' = FALSE
          /\ UNCHANGED <<comp, playHandoffMu, seekMu>>
      BY <1>3, <2>2 DEF NoQueueStep
    <3>2. seekGen' \in Nat
      BY <3>1 DEF TypeOK
    <3>3. [NoTask EXCEPT !.kind = "seek", !.seekGen = seekGen'] \in Tasks
      BY <3>2 DEF NoTask, Tasks, Times, AnyKey, Kinds, QueueSteps
    <3>4. task' \in [Threads -> Tasks]
      BY <3>1, <3>3 DEF TypeOK
    <3>5. pc' \in [Threads -> Pcs]
      BY <3>1, GotoType DEF Pcs
    <3> QED
      BY <3>1, <3>2, <3>4, <3>5 DEF TypeOK
  <2> QED
    BY <2>1, <2>2
<1> QED
  BY <1>1, <1>2, <1>3

\* Every step of a detached thread keeps TypeOK.
LEMMA DetachedType ==
    ASSUME TypeOK, Keyed, StepKinds, NEW w \in Threads, Detached(w)
    PROVE  TypeOK'
<1> USE SessionAssumption, NoKeyAssumption, FieldTypes, TaskFields DEF locks, session, history
<1>0. {"free", "enter", "seekMs", "seekPlay", "stepFetch", "stepPlant", "autoStop"} \subseteq Pcs
  BY DEF Pcs
<1>1. CASE PlayPlant(w)
  <2>1. pc' \in [Threads -> Pcs]
    BY <1>0, <1>1, GotoType DEF PlayPlant
  <2>2. lastPlay' \in PlayBinds
    BY <1>1 DEF PlayPlant, PlayBinds, Times
  <2> QED
    BY <1>1, <2>1, <2>2 DEF TypeOK, PlayPlant
<1>2. CASE DoPlay(w)
  BY <1>2, DoPlayType
<1>3. CASE SeekStart(w)
  <2>1. CASE Finish(w)
    BY <1>3, <2>1, FinishType DEF TypeOK, SeekStart
  <2>2. CASE ~Finish(w)
    <3>1. /\ seekMu' = w
          /\ task' = [task EXCEPT ![w].key = lastPlay.key]
          /\ Goto(w, IF lastPlay.key \in LibraryKeys THEN "enter" ELSE "seekMs")
          /\ UNCHANGED <<playHandoffMu, autoNextInFlight>>
      BY <1>3, <2>2 DEF SeekStart
    <3>2. [task[w] EXCEPT !.key = lastPlay.key] \in Tasks
      BY DEF Tasks
    <3>3. task' \in [Threads -> Tasks]
      BY <3>1, <3>2 DEF TypeOK
    <3>4. pc' \in [Threads -> Pcs]
      BY <1>0, <3>1, GotoType
    <3> QED
      BY <1>3, <3>1, <3>3, <3>4 DEF TypeOK, SeekStart
  <2> QED
    BY <2>1, <2>2
<1>4. CASE SeekMsRead(w)
  <2>1. CASE Finish(w)
    BY <1>4, <2>1, FinishType DEF TypeOK, SeekMsRead
  <2>2. CASE ~Finish(w)
    <3>1. Clamp(task[w].off, player.dur) \in Nat
      BY ClampType
    <3>2. /\ task' = [task EXCEPT ![w].key = player.url, ![w].dur = player.dur,
                                  ![w].start = Clamp(task[w].off, player.dur)]
          /\ Goto(w, "seekPlay")
          /\ UNCHANGED <<playHandoffMu, seekMu, autoNextInFlight>>
      BY <1>4, <2>2 DEF SeekMsRead
    <3>3. [task[w] EXCEPT !.key = player.url, !.dur = player.dur,
                          !.start = Clamp(task[w].off, player.dur)] \in Tasks
      BY <3>1 DEF Tasks, Times
    <3>4. task' \in [Threads -> Tasks]
      BY <3>2, <3>3 DEF TypeOK
    <3>5. pc' \in [Threads -> Pcs]
      BY <1>0, <3>2, GotoType
    <3> QED
      BY <1>4, <3>2, <3>4, <3>5 DEF TypeOK, SeekMsRead
  <2> QED
    BY <2>1, <2>2
<1>5. CASE SeekMsPlay(w)
  <2>1. player' \in Players /\ comp' \in Companions
    BY <1>5, PlayerTypes, SetStateType DEF TypeOK, SeekMsPlay, States
  <2>2. Finish(w)
    BY <1>5 DEF SeekMsPlay
  <2> QED
    BY <1>5, <2>1, <2>2, FinishType DEF TypeOK, SeekMsPlay
<1>6. CASE StepRead(w)
  <2>1. CASE NoQueueStep(w)
    <3>1. task[w].kind \in {"auto", "next", "prev"}
      BY <1>6 DEF StepKinds, StepRead
    <3> QED
      BY <1>6, <2>1, <3>1, NoQueueStepType DEF TypeOK, StepRead
  <2>2. CASE ~NoQueueStep(w)
    <3>1. /\ task' = [task EXCEPT ![w].key = lastPlay.key]
          /\ Goto(w, "stepFetch")
          /\ UNCHANGED <<comp, seekGen, playHandoffMu, seekMu, autoNextInFlight>>
      BY <1>6, <2>2 DEF StepRead
    <3>2. [task[w] EXCEPT !.key = lastPlay.key] \in Tasks
      BY DEF Tasks
    <3>3. task' \in [Threads -> Tasks]
      BY <3>1, <3>2 DEF TypeOK
    <3>4. pc' \in [Threads -> Pcs]
      BY <1>0, <3>1, GotoType
    <3> QED
      BY <1>6, <3>1, <3>3, <3>4 DEF TypeOK, StepRead
  <2> QED
    BY <2>1, <2>2
<1>7. CASE StepFetched(w)
  <2>1. CASE NoQueueStep(w)
    <3>1. task[w].kind \in {"auto", "next", "prev"}
      BY <1>7 DEF StepKinds, StepFetched
    <3> QED
      BY <1>7, <2>1, <3>1, NoQueueStepType DEF TypeOK, StepFetched
  <2>2. CASE ~NoQueueStep(w)
    <3>1. /\ comp' = stagePlay(comp, Neighbour(w), 0)
          /\ task' = [task EXCEPT ![w].key = Neighbour(w), ![w].off = 0]
          /\ Goto(w, "stepPlant")
          /\ UNCHANGED <<seekGen, playHandoffMu, seekMu, autoNextInFlight>>
      BY <1>7, <2>2 DEF StepFetched
    <3>2. Neighbour(w) \in AnyKey
      <4>1. task[w].key \in Keys
        BY <1>7 DEF Keyed, KeyedPcs, StepFetched
      <4> QED
        BY <4>1 DEF Neighbour, AnyKey
    <3>3. [task[w] EXCEPT !.key = Neighbour(w), !.off = 0] \in Tasks
      BY <3>2 DEF Tasks, Times
    <3>4. task' \in [Threads -> Tasks]
      BY <3>1, <3>3 DEF TypeOK
    <3>5. pc' \in [Threads -> Pcs]
      BY <1>0, <3>1, GotoType
    <3>6. comp' \in Companions
      BY <3>1, <3>2, SectionTypes DEF TypeOK
    <3> QED
      BY <1>7, <3>1, <3>4, <3>5, <3>6 DEF TypeOK, StepFetched
  <2> QED
    BY <2>1, <2>2
<1>8. CASE StepPlant(w)
  <2>1. pc' \in [Threads -> Pcs]
    BY <1>0, <1>8, GotoType DEF StepPlant
  <2>2. lastPlay' \in PlayBinds
    BY <1>8 DEF StepPlant, PlayBinds, Times
  <2> QED
    BY <1>8, <2>1, <2>2 DEF TypeOK, StepPlant
<1>9. NoTask \in Tasks
  BY DEF NoTask, Tasks, Times, AnyKey, Kinds, QueueSteps
<1>10. CASE StepReturn(w)
  <2>1. task' \in [Threads -> Tasks]
    BY <1>9, <1>10 DEF TypeOK, StepReturn
  <2>2. pc' \in [Threads -> Pcs]
    BY <1>0, <1>10, GotoType DEF StepReturn
  <2> QED
    BY <1>10, <2>1, <2>2 DEF TypeOK, StepReturn
<1>11. CASE AutoStop(w)
  <2>1. task' \in [Threads -> Tasks]
    BY <1>9, <1>11 DEF TypeOK, AutoStop
  <2>2. pc' \in [Threads -> Pcs]
    BY <1>0, <1>11, GotoType DEF AutoStop
  <2>3. comp' \in Companions
    BY <1>11, SetStateType DEF TypeOK, AutoStop, States
  <2> QED
    BY <1>11, <2>1, <2>2, <2>3 DEF TypeOK, AutoStop
<1> QED
  BY <1>1, <1>2, <1>3, <1>4, <1>5, <1>6, <1>7, <1>8, <1>10, <1>11 DEF Detached

\* The media thread's reports keep TypeOK.
LEMMA MediaType == TypeOK /\ MediaThread => TypeOK'
<1> SUFFICES ASSUME TypeOK, MediaThread PROVE TypeOK'
  OBVIOUS
<1> USE SessionAssumption, NoKeyAssumption, FieldTypes DEF locks, session, history
<1>1. CASE MediaBegins
  <2> DEFINE st == IF player.phase = "new" THEN "buffering" ELSE "playing"
  <2>1. player' \in Players
    BY <1>1 DEF TypeOK, MediaBegins, Players
  <2>2. st \in States
    BY DEF States
  <2>3. comp' = setState(comp, st, player.pos, player.dur)
    BY <1>1 DEF MediaBegins
  <2>4. comp' \in Companions
    BY <2>2, <2>3, SetStateType DEF TypeOK
  <2> QED
    BY <1>1, <2>1, <2>4 DEF TypeOK, MediaBegins
<1>2. CASE MediaProgress
  <2>1. player.pos + 1 \in Nat
    OBVIOUS
  <2>2. player' \in Players
    BY <1>2, <2>1 DEF TypeOK, MediaProgress, Players, Times
  <2>3. comp' \in Companions
    BY <1>2, <2>1, SetStateType DEF TypeOK, MediaProgress, States
  <2> QED
    BY <1>2, <2>2, <2>3 DEF TypeOK, MediaProgress
<1>3. CASE MediaEnded
  <2>1. player' \in Players
    BY <1>3 DEF TypeOK, MediaEnded, Players
  <2>2. comp' \in Companions
    <3>1. EndedState \in States
      BY DEF EndedState, States
    <3> QED
      BY <1>3, <3>1, SetStateType DEF TypeOK, MediaEnded
  <2>3. /\ pc' \in [Threads -> Pcs] /\ task' \in [Threads -> Tasks]
        /\ autoNextInFlight' \in BOOLEAN
    <3>1. [NoTask EXCEPT !.kind = "auto", !.start = player.pos, !.dur = player.dur] \in Tasks
      BY DEF NoTask, Tasks, Times, AnyKey, Kinds, QueueSteps
    <3> QED
      BY <1>3, <3>1, SpawnType DEF TypeOK, MediaEnded, Pcs
  <2> QED
    BY <1>3, <2>1, <2>2, <2>3 DEF TypeOK, MediaEnded, AnyKey
<1>4. CASE MediaAborted
  <2>1. player' \in Players
    BY <1>4 DEF TypeOK, MediaAborted, Players
  <2>2. PICK at \in {0, player.pos} : comp' = setState(comp, "stopped", at, player.dur)
    BY <1>4 DEF MediaAborted
  <2>3. comp' \in Companions
    BY <2>2, SetStateType DEF TypeOK, States
  <2> QED
    BY <1>4, <2>1, <2>3 DEF TypeOK, MediaAborted, AnyKey
<1>5. CASE MediaUnstarted
  <2>1. player' \in Players
    BY <1>5 DEF TypeOK, MediaUnstarted, Players
  <2> QED
    BY <1>5, <2>1 DEF TypeOK, MediaUnstarted
<1> QED
  BY <1>1, <1>2, <1>3, <1>4, <1>5 DEF MediaThread

\* The input and OSD threads keep TypeOK.
LEMMA LocalType == TypeOK /\ LocalControls => TypeOK'
<1> SUFFICES ASSUME TypeOK, LocalControls PROVE TypeOK'
  OBVIOUS
<1> USE SessionAssumption, NoKeyAssumption, FieldTypes DEF locks, session, history
<1>1. CASE InputStop
  BY <1>1, PlayerTypes DEF TypeOK, InputStop, LocalEvent
<1>2. CASE InputSeekPlay
  <2>1. player' \in Players /\ comp' \in Companions
    BY <1>2, PlayerTypes, SetStateType DEF TypeOK, InputSeekPlay, States
  <2>2. IdleInput \in InputStates
    BY DEF IdleInput, InputStates, AnyKey, Times
  <2> QED
    BY <1>2, <2>1, <2>2 DEF TypeOK, InputSeekPlay
<1>3. ASSUME NEW ms \in Nat, InputSeekRead(ms) PROVE TypeOK'
  <2>1. Clamp(ms, player.dur) \in Nat
    BY ClampType
  <2>2. input' \in InputStates
    BY <1>3, <2>1 DEF InputSeekRead, InputStates, Times
  <2> QED
    BY <1>3, <2>2 DEF TypeOK, InputSeekRead, LocalEvent
<1>4. ASSUME NEW w \in Threads, ContentResolutionChanged(w) PROVE TypeOK'
  <2> DEFINE off == IF player.pos > 0 THEN player.pos ELSE lastPlay.off
  <2>1. [NoTask EXCEPT !.kind = "osd", !.key = lastPlay.key, !.off = off] \in Tasks
    BY DEF NoTask, Tasks, Times, Kinds, QueueSteps
  <2>2. pc' \in [Threads -> Pcs] /\ task' \in [Threads -> Tasks]
    BY <1>4, <2>1, SpawnType DEF ContentResolutionChanged, Pcs
  <2> QED
    BY <1>4, <2>2 DEF TypeOK, ContentResolutionChanged, LocalEvent
<1>5. CASE InputPlayPause
  <2>1. comp' \in Companions
    BY <1>5, SetStateType DEF TypeOK, InputPlayPause, States
  <2>2. player' \in Players
    BY <1>5 DEF TypeOK, InputPlayPause, Players
  <2> QED
    BY <1>5, <2>1, <2>2 DEF TypeOK, InputPlayPause, LocalEvent
<1> QED
  BY <1>1, <1>2, <1>3, <1>4, <1>5 DEF LocalControls

-----------------------------------------------------------------------------
(* The inductive invariant of the slots: Keyed and StepKinds, which TypeOK  *)
(* needs, HandoffOwnsNewest and Generations.  A step of the daemon changes  *)
(* the slots in one of six ways, and there is one lemma for each.          *)

SlotInv == Keyed /\ StepKinds /\ HandoffOwnsNewest /\ Generations

\* The HTTP thread does not start to hold a queued cast.
HttpKeeps == http' = http \/ http'.pc # "plant"

\* A step that leaves the slots, the generations and the handoff alone.
LEMMA FrameStep ==
    ASSUME SlotInv, HttpKeeps, UNCHANGED <<pc, task, playGen, playHandoffMu, settled>>
    PROVE  SlotInv'
<1>1. Keyed' /\ StepKinds'
  BY DEF SlotInv, Keyed, StepKinds, HttpKeeps
<1>2. HandoffOwnsNewest'
  BY DEF SlotInv, HandoffOwnsNewest
<1>3. Generations'
  BY DEF SlotInv, Generations, HttpKeeps
<1> QED
  BY <1>1, <1>2, <1>3 DEF SlotInv

\* A thread is detached that has no generation yet.
LEMMA SpawnStep ==
    ASSUME TypeOK, SlotInv, HttpKeeps, UNCHANGED <<playGen, playHandoffMu, settled>>,
           NEW w \in Threads, NEW at, NEW t, Spawn(w, at, t),
           t.gen = 0, at \notin HandoffPcs \cup {"resolve"},
           at \in KeyedPcs => t.key \in Keys,
           at \in {"stepRead", "stepFetch"} =>
              t.kind \in {"auto", "next", "prev"} /\ t.gen = 0
    PROVE  SlotInv'
<1>0. /\ \A v \in Threads : pc'[v] = IF v = w THEN at ELSE pc[v]
      /\ \A v \in Threads : task'[v] = IF v = w THEN t ELSE task[v]
  BY DEF Spawn, TypeOK
<1>1. Keyed' /\ StepKinds'
  BY <1>0 DEF SlotInv, Keyed, StepKinds, HttpKeeps
<1>2. HandoffOwnsNewest'
  BY <1>0 DEF SlotInv, HandoffOwnsNewest
<1>3. Generations'
  BY <1>0 DEF SlotInv, Generations, HttpKeeps, TypeOK
<1> QED
  BY <1>1, <1>2, <1>3 DEF SlotInv

\* A thread moves on within its request, and keeps its generation.
LEMMA MoveStep ==
    ASSUME TypeOK, SlotInv, HttpKeeps, UNCHANGED <<playGen, playHandoffMu, settled>>,
           NEW w \in Threads, NEW at, NEW t, Goto(w, at), task' = [task EXCEPT ![w] = t],
           t.gen = task[w].gen, at # "resolve",
           at \in HandoffPcs => pc[w] \in HandoffPcs,
           at \in KeyedPcs => t.key \in Keys,
           at \in {"stepRead", "stepFetch"} =>
              t.kind \in {"auto", "next", "prev"} /\ t.gen = 0
    PROVE  SlotInv'
<1>0. /\ \A v \in Threads : pc'[v] = IF v = w THEN at ELSE pc[v]
      /\ \A v \in Threads : task'[v] = IF v = w THEN t ELSE task[v]
  BY DEF Goto, TypeOK
<1>1. Keyed' /\ StepKinds'
  BY <1>0 DEF SlotInv, Keyed, StepKinds, HttpKeeps
<1>2. HandoffOwnsNewest'
  BY <1>0 DEF SlotInv, HandoffOwnsNewest
<1>3. Generations'
  BY <1>0 DEF SlotInv, Generations, HttpKeeps, TypeOK
<1> QED
  BY <1>1, <1>2, <1>3 DEF SlotInv

\* A thread returns, with or without having settled its generation.
LEMMA FinishStep ==
    ASSUME TypeOK, SlotInv, HttpKeeps, UNCHANGED playGen, NEW w \in Threads, Finish(w),
           settled' = settled \/ (pc[w] \in HandoffPcs /\ settled' = task[w].gen)
    PROVE  SlotInv'
<1>0. /\ \A v \in Threads : IF v = w THEN pc'[v] \in {"free", "stepReturn"}
                                      ELSE pc'[v] = pc[v]
      /\ \A v \in Threads : task'[v] = IF v = w THEN NoTask ELSE task[v]
      /\ NoTask.gen = 0
      /\ {"free", "stepReturn"} \cap (KeyedPcs \cup {"resolve"} \cup HandoffPcs) = {}
  BY DEF Finish, TypeOK, NoTask, KeyedPcs, HandoffPcs, SuspendedPcs
<1>1. Keyed' /\ StepKinds'
  BY <1>0 DEF SlotInv, Keyed, StepKinds, HttpKeeps
<1>2. HandoffOwnsNewest'
  BY <1>0 DEF SlotInv, HandoffOwnsNewest, Finish
<1>3. Generations'
  BY <1>0, TaskFields DEF SlotInv, Generations, HttpKeeps, TypeOK
<1> QED
  BY <1>1, <1>2, <1>3 DEF SlotInv

\* A thread that is outside the handoff frees its slot.
LEMMA FreeStep ==
    ASSUME TypeOK, SlotInv, HttpKeeps, UNCHANGED <<playGen, playHandoffMu, settled>>,
           NEW w \in Threads, Goto(w, "free"), task' = [task EXCEPT ![w] = NoTask]
    PROVE  SlotInv'
<1>0. /\ \A v \in Threads : pc'[v] = IF v = w THEN "free" ELSE pc[v]
      /\ \A v \in Threads : task'[v] = IF v = w THEN NoTask ELSE task[v]
      /\ NoTask.gen = 0
      /\ "free" \notin KeyedPcs \cup {"resolve"} \cup HandoffPcs
  BY DEF Goto, TypeOK, NoTask, KeyedPcs, HandoffPcs, SuspendedPcs
<1>1. Keyed' /\ StepKinds'
  BY <1>0 DEF SlotInv, Keyed, StepKinds, HttpKeeps
<1>2. HandoffOwnsNewest'
  BY <1>0 DEF SlotInv, HandoffOwnsNewest
<1>3. Generations'
  BY <1>0 DEF SlotInv, Generations, HttpKeeps, TypeOK
<1> QED
  BY <1>1, <1>2, <1>3 DEF SlotInv

\* playGen moves: no thread is inside the handoff.
LEMMA NoHandoff ==
    ASSUME SlotInv, playHandoffMu = None
    PROVE  \A w \in Threads : pc[w] \notin HandoffPcs
BY SessionAssumption DEF SlotInv, HandoffOwnsNewest

\* The handlers: playMedia and stop move playGen, the others at most detach.
LEMMA HttpSlots ==
    ASSUME TypeOK, SlotInv, HttpThread
    PROVE  SlotInv'
<1> USE SessionAssumption DEF locks, session, history
<1>0. IdleHttp.pc # "plant"
  BY DEF IdleHttp
<1>1. ASSUME NEW key \in Keys, NEW off \in Nat, NEW present \in BOOLEAN,
             PlayMediaQueued(key, off, present)
      PROVE  SlotInv'
  <2>1. /\ http'.pc = "plant" /\ http'.key = key /\ http'.gen = playGen + 1
        /\ playHandoffMu = None /\ playGen' = playGen + 1
        /\ UNCHANGED <<pc, playHandoffMu, settled>>
    BY <1>1 DEF PlayMediaQueued, TakeGeneration, IdleHttp
  <2>2. ASSUME NEW w \in Threads
        PROVE  task'[w].gen = task[w].gen /\ task'[w].key = task[w].key
               /\ task'[w].kind = task[w].kind
    BY <1>1, TaskFields DEF PlayMediaQueued, Overtaken, Tasks
  <2>3. Keyed' /\ StepKinds'
    BY <2>1, <2>2 DEF SlotInv, Keyed, StepKinds
  <2>4. HandoffOwnsNewest'
    BY <2>1, NoHandoff DEF HandoffOwnsNewest
  <2>5. Generations'
    BY <2>1, <2>2, TaskFields DEF SlotInv, Generations, TypeOK
  <2> QED
    BY <2>3, <2>4, <2>5 DEF SlotInv
<1>2. ASSUME NEW key \in Keys, Mirror(key) PROVE SlotInv'
  BY <1>2, FrameStep DEF Mirror, HttpKeeps
<1>3. ASSUME NEW w \in Threads, PlayMediaPlant(w) PROVE SlotInv'
  <2> DEFINE t == [NoTask EXCEPT !.kind = "play", !.key = http.key, !.off = http.ms,
                                 !.present = http.present, !.gen = http.gen]
  <2>1. t.gen = http.gen /\ t.key = http.key
    BY DEF NoTask
  <2>2. /\ \A v \in Threads : pc'[v] = IF v = w THEN "plant" ELSE pc[v]
        /\ \A v \in Threads : task'[v] = IF v = w THEN t ELSE task[v]
        /\ UNCHANGED <<playGen, playHandoffMu, settled>>
    BY <1>3 DEF PlayMediaPlant, Spawn, TypeOK
  <2>3. http.pc = "plant" /\ http'.pc # "plant"
    BY <1>0, <1>3 DEF PlayMediaPlant
  <2> HIDE DEF t
  <2>4. Keyed' /\ StepKinds'
    BY <2>1, <2>2, <2>3 DEF SlotInv, Keyed, StepKinds
  <2>5. HandoffOwnsNewest'
    BY <2>1, <2>2 DEF SlotInv, HandoffOwnsNewest, HandoffPcs, SuspendedPcs
  <2>6. Generations'
    BY <2>1, <2>2, <2>3, TaskFields DEF SlotInv, Generations, HandoffPcs, SuspendedPcs
  <2> QED
    BY <2>4, <2>5, <2>6 DEF SlotInv
<1>4. ASSUME NEW st \in {"playing", "paused"}, Control(st) PROVE SlotInv'
  <2>1. http'.pc # "plant"
    BY <1>4 DEF Control, IdleHttp
  <2> QED
    BY <1>4, <2>1, FrameStep DEF Control, HttpKeeps
<1>5. CASE ControlState
  <2>1. http'.pc # "plant"
    BY <1>5 DEF ControlState, TypeOK, HttpStates
  <2> QED
    BY <1>5, <2>1, FrameStep DEF ControlState, HttpKeeps
<1>6. CASE ControlPlayer
  BY <1>0, <1>6, FrameStep DEF ControlPlayer, HttpKeeps
<1>7. CASE StopClear
  <2>1. http'.pc # "plant"
    BY <1>7 DEF StopClear, IdleHttp
  <2> QED
    BY <1>7, <2>1, FrameStep DEF StopClear, HttpKeeps
<1>8. CASE StopPlayer
  <2>1. /\ http'.pc # "plant"
        /\ playHandoffMu = None /\ playGen' = playGen + 1
        /\ UNCHANGED <<pc, task, playHandoffMu, settled>>
    BY <1>8 DEF StopPlayer, TakeGeneration, TypeOK, HttpStates
  <2>2. Keyed' /\ StepKinds'
    BY <2>1 DEF SlotInv, Keyed, StepKinds
  <2>3. HandoffOwnsNewest'
    BY <2>1, NoHandoff DEF HandoffOwnsNewest
  <2>4. Generations'
    BY <2>1, TaskFields DEF SlotInv, Generations, TypeOK
  <2> QED
    BY <2>2, <2>3, <2>4 DEF SlotInv
<1>9. CASE StopForget
  BY <1>0, <1>9, FrameStep DEF StopForget, HttpKeeps
<1>10. ASSUME NEW off \in Nat, Seek(off) PROVE SlotInv'
  <2>1. http'.pc # "plant"
    BY <1>10 DEF Seek, IdleHttp
  <2> QED
    BY <1>10, <2>1, FrameStep DEF Seek, HttpKeeps
<1>11. ASSUME NEW w \in Threads, NEW ms, seekAsync(w, ms), HttpKeeps,
              UNCHANGED <<playGen, playHandoffMu, settled>>
       PROVE  SlotInv'
  <2> DEFINE t == [NoTask EXCEPT !.kind = "seek", !.off = ms, !.seekGen = seekGen + 1]
  <2>1. t.gen = 0 /\ "seekWait" \notin HandoffPcs \cup {"resolve"}
        /\ "seekWait" \notin KeyedPcs
    BY DEF NoTask, HandoffPcs, SuspendedPcs, KeyedPcs
  <2>2. Spawn(w, "seekWait", t)
    BY <1>11 DEF seekAsync
  <2> HIDE DEF t
  <2> QED
    BY <1>11, <2>1, <2>2, SpawnStep
<1>12. ASSUME NEW w \in Threads, SeekPlant(w) PROVE SlotInv'
  BY <1>0, <1>11, <1>12 DEF SeekPlant, HttpKeeps
<1>13. ASSUME NEW w \in Threads, NEW delta \in {-1, 1}, Step(w, delta) PROVE SlotInv'
  BY <1>11, <1>13 DEF Step, HttpKeeps
<1>14. ASSUME NEW w \in Threads, NEW t, Spawn(w, "stepRead", t), t.gen = 0,
              t.kind \in {"auto", "next", "prev"}, HttpKeeps,
              UNCHANGED <<playGen, playHandoffMu, settled>>
       PROVE  SlotInv'
  <2>1. "stepRead" \notin HandoffPcs \cup {"resolve"} /\ "stepRead" \notin KeyedPcs
    BY DEF HandoffPcs, SuspendedPcs, KeyedPcs
  <2> QED
    BY <1>14, <2>1, SpawnStep
<1>15. ASSUME NEW w \in Threads, SkipNext(w) PROVE SlotInv'
  <2>1. [NoTask EXCEPT !.kind = "next"].gen = 0 /\ [NoTask EXCEPT !.kind = "next"].kind = "next"
    BY DEF NoTask
  <2> QED
    BY <1>14, <1>15, <2>1 DEF SkipNext, HttpKeeps
<1>16. CASE SkipPrevious
  <2>1. http'.pc # "plant"
    BY <1>16 DEF SkipPrevious, IdleHttp
  <2> QED
    BY <1>16, <2>1, FrameStep DEF SkipPrevious, HttpKeeps
<1>17. CASE SkipPreviousCall
  <2>1. http'.pc # "plant" /\ UNCHANGED <<playGen, playHandoffMu, settled>>
    BY <1>17 DEF SkipPreviousCall, TypeOK, HttpStates
  <2>2. ASSUME NEW w \in Threads, seekAsync(w, 0) PROVE SlotInv'
    BY <1>11, <2>1, <2>2 DEF HttpKeeps
  <2>3. ASSUME NEW w \in Threads,
               Spawn(w, "stepRead", [NoTask EXCEPT !.kind = "prev", !.start = comp.timeMs])
        PROVE  SlotInv'
    <3> DEFINE t == [NoTask EXCEPT !.kind = "prev", !.start = comp.timeMs]
    <3>1. t.gen = 0 /\ t.kind = "prev"
      BY DEF NoTask
    <3>2. Spawn(w, "stepRead", t)
      BY <2>3
    <3> HIDE DEF t
    <3> QED
      BY <1>14, <2>1, <3>1, <3>2 DEF HttpKeeps
  <2>4. CASE UNCHANGED <<pc, task>>
    BY <2>1, <2>4, FrameStep DEF HttpKeeps
  <2> QED
    BY <1>17, <2>2, <2>3, <2>4 DEF SkipPreviousCall
<1>18. CASE SkipPreviousPlant
  BY <1>0, <1>18, FrameStep DEF SkipPreviousPlant, HttpKeeps
<1>19. CASE Poll
  BY <1>19, FrameStep DEF Poll, HttpKeeps
<1>20. CASE Unsubscribe
  BY <1>20, FrameStep DEF Unsubscribe, HttpKeeps
<1>21. CASE Acknowledged
  BY <1>21, FrameStep DEF Acknowledged, HttpKeeps
<1> QED
  BY <1>1, <1>2, <1>3, <1>4, <1>5, <1>6, <1>7, <1>8, <1>9, <1>10, <1>12, <1>13, <1>15, <1>16,
     <1>17, <1>18, <1>19, <1>20, <1>21
     DEF HttpThread

\* doPlay: only DoPlayAccept takes playHandoffMu, and only at the newest generation.
LEMMA DoPlaySlots ==
    ASSUME TypeOK, SlotInv, NEW w \in Threads, DoPlay(w)
    PROVE  SlotInv'
<1> USE SessionAssumption DEF locks, session, history
<1>0. HttpKeeps /\ seekGen' = seekGen
  BY DEF DoPlay, DoPlayEnter, DoPlayAccept, DoPlayStop, DoPlaySuspend, DoPlayLayout, DoPlayBind,
         DoPlayStartAt, DoPlaySeed, DoPlayBuffering, DoPlayCommit, DoPlayBegin, DoPlayPlay, HttpKeeps
\* A step from one section of the handoff to the next.
<1>1. ASSUME NEW at \in HandoffPcs, NEW t, pc[w] \in HandoffPcs, Goto(w, at),
             task' = [task EXCEPT ![w] = t], t.gen = task[w].gen, t.key = task[w].key,
             UNCHANGED <<playGen, playHandoffMu, settled>>
      PROVE  SlotInv'
  <2>1. at # "resolve" /\ at \notin {"stepRead", "stepFetch"} /\ pc[w] \in KeyedPcs
    BY <1>1 DEF HandoffPcs, SuspendedPcs, KeyedPcs
  <2>2. t.key \in Keys
    BY <1>1, <2>1 DEF SlotInv, Keyed
  <2> QED
    BY <1>0, <1>1, <2>1, <2>2, MoveStep
<1>2. ASSUME NEW at \in HandoffPcs, pc[w] \in HandoffPcs, Goto(w, at), UNCHANGED task,
             UNCHANGED <<playGen, playHandoffMu, settled>>
      PROVE  SlotInv'
  <2>1. task' = [task EXCEPT ![w] = task[w]]
    BY <1>2 DEF TypeOK
  <2> QED
    BY <1>1, <1>2, <2>1
\* A return in the middle of the handoff.
<1>3. ASSUME Finish(w), UNCHANGED <<playGen, settled>>
      PROVE  SlotInv'
  BY <1>0, <1>3, FinishStep
\* The end of the handoff: the generation has settled.
<1>4. ASSUME Finish(w), pc[w] \in HandoffPcs, settled' = task[w].gen, UNCHANGED playGen
      PROVE  SlotInv'
  BY <1>0, <1>4, FinishStep
<1>5. CASE DoPlayEnter(w)
  <2> DEFINE g == IF task[w].gen = 0 THEN playGen + 1 ELSE task[w].gen
  <2>1. \A v \in Threads : pc'[v] = IF v = w THEN "resolve" ELSE pc[v]
    BY <1>5 DEF DoPlayEnter, Goto, TypeOK
  <2>2. \A v \in Threads : /\ task'[v].gen = IF v = w THEN g ELSE task[v].gen
                           /\ task'[v].key = task[v].key
                           /\ task'[v].kind = task[v].kind
    BY <1>5, TaskFields DEF DoPlayEnter, Tasks, TypeOK
  <2>3. /\ task[w].gen = 0 => playHandoffMu = None /\ playGen' = playGen + 1
        /\ task[w].gen # 0 => playGen' = playGen
        /\ UNCHANGED <<playHandoffMu, settled>> /\ http' = http /\ pc[w] = "enter"
    BY <1>5 DEF DoPlayEnter, TakeGeneration
  <2>4. Keyed' /\ StepKinds'
    BY <2>1, <2>2, <2>3 DEF SlotInv, Keyed, StepKinds, KeyedPcs
  <2>5. HandoffOwnsNewest'
    <3>1. CASE task[w].gen = 0
      BY <2>1, <2>2, <2>3, <3>1, NoHandoff DEF HandoffOwnsNewest, HandoffPcs, SuspendedPcs
    <3>2. CASE task[w].gen # 0
      BY <2>1, <2>2, <2>3, <3>2
         DEF SlotInv, HandoffOwnsNewest, HandoffPcs, SuspendedPcs
    <3> QED
      BY <3>1, <3>2
  <2>6. Generations'
    BY <2>1, <2>2, <2>3, TaskFields, FieldTypes DEF SlotInv, Generations, TypeOK
  <2> QED
    BY <2>4, <2>5, <2>6 DEF SlotInv
<1>6. CASE DoPlayAccept(w)
  <2>1. CASE Finish(w)
    BY <1>3, <1>6, <2>1 DEF DoPlayAccept
  <2>2. CASE ~Finish(w)
    <3>1. /\ task[w].gen = playGen /\ playHandoffMu = None /\ playHandoffMu' = w
          /\ pc[w] = "resolve" /\ UNCHANGED <<playGen, settled>> /\ http' = http
          /\ \A v \in Threads : pc'[v] = IF v = w THEN "stop" ELSE pc[v]
      BY <1>6, <2>2 DEF DoPlayAccept, Current, Goto, TypeOK
    <3>2. PICK d \in Durations[task[w].key] : task' = [task EXCEPT ![w].dur = d]
      BY <1>6, <2>2 DEF DoPlayAccept
    <3>3. \A v \in Threads : /\ task'[v].gen = task[v].gen
                             /\ task'[v].key = task[v].key
                             /\ task'[v].kind = task[v].kind
      BY <3>2, TaskFields DEF Tasks, TypeOK
    <3>4. Keyed' /\ StepKinds'
      BY <3>1, <3>3 DEF SlotInv, Keyed, StepKinds, KeyedPcs
    <3>5. HandoffOwnsNewest'
      BY <3>1, <3>3, NoHandoff DEF HandoffOwnsNewest
    <3>6. Generations'
      BY <3>1, <3>3 DEF SlotInv, Generations
    <3> QED
      BY <3>4, <3>5, <3>6 DEF SlotInv
  <2> QED
    BY <2>1, <2>2
<1>7. CASE DoPlayStop(w)
  BY <1>2, <1>7 DEF DoPlayStop, HandoffPcs
<1>8. CASE DoPlaySuspend(w)
  BY <1>2, <1>8 DEF DoPlaySuspend, HandoffPcs, SuspendedPcs
<1>9. CASE DoPlayLayout(w)
  <2>1. CASE closedStopPlay(w, task[w].off)
    BY <1>4, <1>9, <2>1 DEF DoPlayLayout, closedStopPlay, HandoffPcs, SuspendedPcs
  <2>2. CASE ~closedStopPlay(w, task[w].off)
    BY <1>2, <1>9, <2>2 DEF DoPlayLayout, HandoffPcs, SuspendedPcs
  <2> QED
    BY <2>1, <2>2
<1>10. CASE DoPlayBind(w)
  <2>1. CASE Finish(w)
    BY <1>3, <1>10, <2>1 DEF DoPlayBind
  <2>2. CASE ~Finish(w)
    BY <1>2, <1>10, <2>2 DEF DoPlayBind, HandoffPcs, SuspendedPcs
  <2> QED
    BY <2>1, <2>2
<1>11. CASE DoPlayStartAt(w)
  <2>1. CASE Finish(w)
    BY <1>3, <1>11, <2>1 DEF DoPlayStartAt
  <2>2. CASE ~Finish(w)
    <3> DEFINE t == [task[w] EXCEPT !.start = startAt(w)]
    <3>1. task' = [task EXCEPT ![w] = t] /\ Goto(w, "seed") /\ pc[w] = "startAt"
          /\ UNCHANGED <<playGen, playHandoffMu, settled>>
      BY <1>11, <2>2 DEF DoPlayStartAt
    <3>2. t.gen = task[w].gen /\ t.key = task[w].key
      BY TaskFields DEF Tasks
    <3> HIDE DEF t
    <3> QED
      BY <1>1, <3>1, <3>2 DEF HandoffPcs, SuspendedPcs
  <2> QED
    BY <2>1, <2>2
<1>12. CASE DoPlaySeed(w)
  BY <1>2, <1>12 DEF DoPlaySeed, HandoffPcs, SuspendedPcs
<1>13. CASE DoPlayBuffering(w)
  BY <1>2, <1>13 DEF DoPlayBuffering, HandoffPcs, SuspendedPcs
<1>14. CASE DoPlayCommit(w)
  <2>1. CASE Finish(w)
    BY <1>3, <1>14, <2>1 DEF DoPlayCommit
  <2>2. CASE ~Finish(w)
    BY <1>2, <1>14, <2>2 DEF DoPlayCommit, HandoffPcs, SuspendedPcs
  <2> QED
    BY <2>1, <2>2
<1>15. CASE DoPlayBegin(w)
  BY <1>2, <1>15 DEF DoPlayBegin, HandoffPcs, SuspendedPcs
<1>16. CASE DoPlayPlay(w)
  BY <1>4, <1>16 DEF DoPlayPlay, closedStopPlay, HandoffPcs, SuspendedPcs
<1> QED
  BY <1>5, <1>6, <1>7, <1>8, <1>9, <1>10, <1>11, <1>12, <1>13, <1>14, <1>15,
     <1>16 DEF DoPlay

\* The other sections of the detached threads never enter the handoff.
LEMMA DetachedSlots ==
    ASSUME TypeOK, SlotInv, NEW w \in Threads, Detached(w)
    PROVE  SlotInv'
<1> USE SessionAssumption, TaskFields, FieldTypes DEF locks, session, history
<1>1. CASE DoPlay(w)
  BY <1>1, DoPlaySlots
<1>2. CASE ~DoPlay(w)
  <2>0. HttpKeeps /\ UNCHANGED <<playGen, settled>>
    BY <1>2 DEF Detached, PlayPlant, SeekStart, SeekMsRead, SeekMsPlay, StepRead, StepFetched,
                StepPlant, StepReturn, AutoStop, HttpKeeps
  \* A move outside the handoff.
  <2>1. ASSUME NEW at, NEW t, Goto(w, at), task' = [task EXCEPT ![w] = t],
               at \notin HandoffPcs \cup {"resolve"}, t.gen = task[w].gen,
               at \in KeyedPcs => t.key \in Keys,
               at \in {"stepRead", "stepFetch"} =>
                  t.kind \in {"auto", "next", "prev"} /\ t.gen = 0,
               UNCHANGED playHandoffMu
        PROVE  SlotInv'
    BY <2>0, <2>1, MoveStep
  <2>2. ASSUME Finish(w) PROVE SlotInv'
    BY <2>0, <2>2, FinishStep
  <2>3. /\ {"seekWait", "enter", "seekMs", "seekPlay", "stepFetch", "stepPlant", "stepReturn",
            "autoStop"} \cap (HandoffPcs \cup {"resolve"}) = {}
        /\ {"seekWait", "seekMs", "seekPlay", "stepReturn", "autoStop"} \cap KeyedPcs = {}
        /\ {"plant", "stepPlant", "stepFetch"} \subseteq KeyedPcs
    BY DEF HandoffPcs, SuspendedPcs, KeyedPcs
  <2>4. CASE PlayPlant(w)
    <3>1. task' = [task EXCEPT ![w] = task[w]] /\ Goto(w, "enter") /\ UNCHANGED playHandoffMu
      BY <2>4 DEF PlayPlant, TypeOK
    <3>2. task[w].key \in Keys
      BY <2>3, <2>4 DEF SlotInv, Keyed, PlayPlant
    <3> QED
      BY <2>1, <2>3, <3>1, <3>2
  <2>5. CASE StepPlant(w)
    <3>1. task' = [task EXCEPT ![w] = task[w]] /\ Goto(w, "enter") /\ UNCHANGED playHandoffMu
      BY <2>5 DEF StepPlant, TypeOK
    <3>2. task[w].key \in Keys
      BY <2>3, <2>5 DEF SlotInv, Keyed, StepPlant
    <3> QED
      BY <2>1, <2>3, <3>1, <3>2
  <2>6. CASE SeekStart(w)
    <3>1. CASE Finish(w)
      BY <2>2, <3>1
    <3>2. CASE ~Finish(w)
      <4> DEFINE t  == [task[w] EXCEPT !.key = lastPlay.key]
                 at == IF lastPlay.key \in LibraryKeys THEN "enter" ELSE "seekMs"
      <4>1. task' = [task EXCEPT ![w] = t] /\ Goto(w, at) /\ UNCHANGED playHandoffMu
        BY <2>6, <3>2 DEF SeekStart
      <4>2. t.gen = task[w].gen /\ t.key = lastPlay.key
        BY DEF Tasks
      <4>3. /\ at \in {"enter", "seekMs"}
            /\ at \in KeyedPcs => t.key \in Keys
        BY <2>3, <4>2
      <4> HIDE DEF t, at
      <4> QED
        BY <2>1, <2>3, <4>1, <4>2, <4>3
    <3> QED
      BY <3>1, <3>2
  <2>7. CASE SeekMsRead(w)
    <3>1. CASE Finish(w)
      BY <2>2, <3>1
    <3>2. CASE ~Finish(w)
      <4> DEFINE t == [task[w] EXCEPT !.key = player.url, !.dur = player.dur,
                                      !.start = Clamp(task[w].off, player.dur)]
      <4>1. task' = [task EXCEPT ![w] = t] /\ Goto(w, "seekPlay") /\ UNCHANGED playHandoffMu
        BY <2>7, <3>2 DEF SeekMsRead, TypeOK
      <4>2. t.gen = task[w].gen
        BY DEF Tasks
      <4> HIDE DEF t
      <4> QED
        BY <2>1, <2>3, <4>1, <4>2
    <3> QED
      BY <3>1, <3>2
  <2>8. CASE SeekMsPlay(w)
    BY <2>2, <2>8 DEF SeekMsPlay
  <2>9. ASSUME NoQueueStep(w), pc[w] \in {"stepRead", "stepFetch"}, task[w].gen = 0
        PROVE  SlotInv'
    <3>1. CASE Finish(w)
      BY <2>2, <3>1
    <3>3. CASE task[w].kind = "auto"
      <4>1. Goto(w, "stepReturn") /\ task' = [task EXCEPT ![w] = task[w]]
            /\ UNCHANGED playHandoffMu
        BY <2>9, <3>3 DEF NoQueueStep, TypeOK
      <4> QED
        BY <2>1, <2>3, <4>1
    <3>2. CASE ~Finish(w) /\ task[w].kind # "auto"
      <4> DEFINE t == [NoTask EXCEPT !.kind = "seek", !.seekGen = seekGen + 1]
      <4>1. task[w].kind = "prev"
        BY <2>9, <3>2 DEF NoQueueStep, SlotInv, StepKinds
      <4>2. task' = [task EXCEPT ![w] = t] /\ Goto(w, "seekWait") /\ UNCHANGED playHandoffMu
        BY <2>9, <3>2, <4>1 DEF NoQueueStep
      <4>3. t.gen = 0
        BY DEF NoTask
      <4> HIDE DEF t
      <4> QED
        BY <2>1, <2>3, <2>9, <4>2, <4>3
    <3> QED
      BY <3>1, <3>2, <3>3
  <2>10. CASE StepRead(w)
    <3>1. CASE NoQueueStep(w)
      BY <2>9, <2>10, <3>1 DEF StepRead, SlotInv, StepKinds
    <3>2. CASE ~NoQueueStep(w)
      <4> DEFINE t == [task[w] EXCEPT !.key = lastPlay.key]
      <4>1. task' = [task EXCEPT ![w] = t] /\ Goto(w, "stepFetch") /\ UNCHANGED playHandoffMu
            /\ lastPlay.key # NoKey
        BY <2>10, <3>2 DEF StepRead
      <4>2. t.gen = task[w].gen /\ t.key \in Keys /\ t.kind \in {"auto", "next", "prev"}
            /\ t.gen = 0
        BY <2>10, <4>1 DEF Tasks, AnyKey, StepRead, SlotInv, StepKinds
      <4> HIDE DEF t
      <4> QED
        BY <2>1, <2>3, <4>1, <4>2
    <3> QED
      BY <3>1, <3>2
  <2>11. CASE StepFetched(w)
    <3>1. CASE NoQueueStep(w)
      BY <2>9, <2>11, <3>1 DEF StepFetched, SlotInv, StepKinds
    <3>2. CASE ~NoQueueStep(w)
      <4> DEFINE t == [task[w] EXCEPT !.key = Neighbour(w), !.off = 0]
      <4>1. task' = [task EXCEPT ![w] = t] /\ Goto(w, "stepPlant") /\ UNCHANGED playHandoffMu
            /\ Neighbour(w) # NoKey
        BY <2>11, <3>2 DEF StepFetched, TypeOK
      <4>2. task[w].key \in Keys
        BY <2>3, <2>11 DEF StepFetched, SlotInv, Keyed
      <4>3. t.gen = task[w].gen /\ t.key \in Keys
        BY <4>1, <4>2 DEF Tasks, Neighbour
      <4> HIDE DEF t
      <4> QED
        BY <2>1, <2>3, <4>1, <4>3
    <3> QED
      BY <3>1, <3>2
  \* The thread of a queue step is over.
  <2>12. ASSUME Goto(w, "free"), task' = [task EXCEPT ![w] = NoTask], UNCHANGED playHandoffMu,
                pc[w] \in {"stepReturn", "autoStop"}
         PROVE  SlotInv'
    BY <2>0, <2>3, <2>12, FreeStep
  <2>13. CASE StepReturn(w)
    <3>1. CASE task[w].kind = "auto"
      <4>1. Goto(w, "autoStop") /\ task' = [task EXCEPT ![w] = task[w]]
            /\ UNCHANGED playHandoffMu
        BY <2>13, <3>1 DEF StepReturn, TypeOK
      <4> QED
        BY <2>1, <2>3, <4>1
    <3>2. CASE task[w].kind # "auto"
      BY <2>12, <2>13, <3>2 DEF StepReturn
    <3> QED
      BY <3>1, <3>2
  <2>14. CASE AutoStop(w)
    BY <2>12, <2>14 DEF AutoStop
  <2> QED
    BY <1>2, <2>4, <2>5, <2>6, <2>7, <2>8, <2>10, <2>11, <2>13, <2>14 DEF Detached
<1> QED
  BY <1>1, <1>2

\* The media, input and OSD threads at most detach a thread.
LEMMA OtherSlots ==
    ASSUME TypeOK, SlotInv, MediaThread \/ LocalControls \/ Waiting \/ UNCHANGED vars
    PROVE  SlotInv'
<1> USE SessionAssumption DEF locks, session, history
<1>0. HttpKeeps /\ UNCHANGED <<playGen, playHandoffMu, settled>>
  BY DEF MediaThread, MediaBegins, MediaProgress, MediaEnded, MediaAborted, MediaUnstarted,
         LocalControls, InputStop, InputPlayPause, InputSeekPlay, InputSeekRead,
         ContentResolutionChanged, Waiting, vars, HttpKeeps
<1>1. CASE UNCHANGED <<pc, task>>
  BY <1>0, <1>1, FrameStep
<1>2. CASE MediaEnded
  <2>1. CASE autoNextInFlight
    BY <1>1, <1>2, <2>1 DEF MediaEnded
  <2>2. CASE ~autoNextInFlight
    <3> DEFINE t == [NoTask EXCEPT !.kind = "auto", !.start = player.pos, !.dur = player.dur]
    <3>1. PICK w \in Threads : Spawn(w, "stepRead", t)
      BY <1>2, <2>2 DEF MediaEnded
    <3>2. t.gen = 0 /\ t.kind = "auto" /\ "stepRead" \notin HandoffPcs \cup {"resolve"}
          /\ "stepRead" \notin KeyedPcs
      BY DEF NoTask, HandoffPcs, SuspendedPcs, KeyedPcs
    <3> HIDE DEF t
    <3> QED
      BY <1>0, <3>1, <3>2, SpawnStep
  <2> QED
    BY <2>1, <2>2
<1>3. ASSUME NEW w \in Threads, ContentResolutionChanged(w) PROVE SlotInv'
  <2> DEFINE t == [NoTask EXCEPT !.kind = "osd", !.key = lastPlay.key,
                       !.off = IF player.pos > 0 THEN player.pos ELSE lastPlay.off]
  <2>1. Spawn(w, "enter", t) /\ lastPlay.key # NoKey
    BY <1>3 DEF ContentResolutionChanged
  <2>2. t.gen = 0 /\ t.key = lastPlay.key /\ "enter" \notin HandoffPcs \cup {"resolve"}
    BY DEF NoTask, HandoffPcs, SuspendedPcs
  <2>3. t.key \in Keys
    BY <2>1, <2>2, FieldTypes DEF AnyKey
  <2> HIDE DEF t
  <2> QED
    BY <1>0, <2>1, <2>2, <2>3, SpawnStep
<1> QED
  BY <1>1, <1>2, <1>3
     DEF MediaThread, MediaBegins, MediaProgress, MediaAborted, MediaUnstarted,
         LocalControls, InputStop, InputPlayPause, InputSeekPlay, InputSeekRead, Waiting, vars

-----------------------------------------------------------------------------
(* The theorems.                                                           *)

IndInv == TypeOK /\ SlotInv

\* The daemon starts with free slots and no generation in use.
LEMMA Initially == Init => IndInv
<1> SUFFICES ASSUME Init PROVE IndInv
  OBVIOUS
<1> USE SessionAssumption DEF Init
<1>1. InitCompanion \in Companions
  BY DEF InitCompanion, Companions, States
<1>2. /\ NoPlay \in PlayBinds /\ StoppedPlayer \in Players /\ IdleHttp \in HttpStates
      /\ IdleInput \in InputStates /\ NoTask \in Tasks /\ "free" \in Pcs
  BY DEF NoPlay, PlayBinds, StoppedPlayer, Players, IdleHttp, HttpStates, HttpPcs, IdleInput,
         InputStates, NoTask, Tasks, Kinds, QueueSteps, Pcs, AnyKey, Times
<1>3. TypeOK
  <2>1. 0 \in 0..MaxCommands /\ 0 \in 0..MaxInputs
    OBVIOUS
  <2>2. pc \in [Threads -> Pcs] /\ task \in [Threads -> Tasks]
    BY <1>2
  <2> QED
    BY <1>1, <1>2, <2>1, <2>2 DEF TypeOK, AnyKey
<1>4. NoTask.gen = 0 /\ IdleHttp.pc # "plant"
  BY DEF NoTask, IdleHttp
<1>5. "free" \notin KeyedPcs \cup HandoffPcs \cup {"resolve"}
  BY DEF KeyedPcs, HandoffPcs, SuspendedPcs
<1>6. SlotInv
  BY <1>4, <1>5 DEF SlotInv, Keyed, StepKinds, HandoffOwnsNewest, Generations
<1> QED
  BY <1>3, <1>6 DEF IndInv

\* The invariant is inductive: one case per thread of the daemon.
LEMMA Inductive == IndInv /\ [Next]_vars => IndInv'
<1> SUFFICES ASSUME TypeOK, SlotInv, [Next]_vars PROVE TypeOK' /\ SlotInv'
  BY DEF IndInv
<1>1. CASE HttpThread
  BY <1>1, HttpType, HttpSlots
<1>2. ASSUME NEW w \in Threads, Detached(w) PROVE TypeOK' /\ SlotInv'
  BY <1>2, DetachedType, DetachedSlots DEF SlotInv
<1>3. CASE MediaThread
  BY <1>3, MediaType, OtherSlots
<1>4. CASE LocalControls
  BY <1>4, LocalType, OtherSlots
<1>5. CASE UNCHANGED vars
  <2>1. TypeOK'
    BY <1>5 DEF TypeOK, vars, locks, session, history
  <2> QED
    BY <1>5, <2>1, OtherSlots
<1> QED
  BY <1>1, <1>2, <1>3, <1>4, <1>5 DEF Next, Waiting

\* The invariant holds in every reachable state.
LEMMA Invariance == Spec => []IndInv
BY Initially, Inductive, PTL DEF Spec

\* Every thread of the daemon keeps the session well typed, whatever the
\* titles, the number of threads and the commands: no late progress report, no
\* clamp and no scrubber plant puts a value in the companion record that
\* timelineXml could not render.
THEOREM TypeCorrect == Spec => []TypeOK
<1>1. IndInv => TypeOK
  BY DEF IndInv
<1> QED
  BY <1>1, Invariance, PTL

\* doPlay, from acceptance to return, holds playHandoffMu and the newest
\* generation, for any number of casts, seeks, steps and stops in flight.
THEOREM NewestOwnsHandoff == Spec => []HandoffOwnsNewest
<1>1. IndInv => HandoffOwnsNewest
  BY DEF IndInv, SlotInv
<1> QED
  BY <1>1, Invariance, PTL

\* Only one doPlay at a time is inside the handoff, where it stops the player,
\* remaps the DDR layout, binds and starts the demux.
OneHandoff ==
    \A v, w \in Threads : pc[v] \in HandoffPcs /\ pc[w] \in HandoffPcs => v = w

THEOREM HandoffIsExclusive == Spec => []OneHandoff
<1>1. IndInv => OneHandoff
  BY DEF IndInv, SlotInv, HandoffOwnsNewest, OneHandoff
<1> QED
  BY <1>1, Invariance, PTL

\* Demuxes start, or fail closed, in the order in which their requests took a
\* generation, however long each of the network resolves takes.
THEOREM OrderedStarts == Spec => StartsInOrder
<1>1. ASSUME IndInv, [Next]_vars
      PROVE  [settled' # settled => settled' > settled]_vars
  <2> SUFFICES ASSUME settled' # settled PROVE settled' > settled
    OBVIOUS
  <2>1. PICK w \in Threads : pc[w] \in HandoffPcs /\ settled' = task[w].gen
    BY <1>1
       DEF Next, HttpThread, PlayMediaQueued, Mirror, PlayMediaPlant, SeekPlant, SkipNext, Step,
           Control, ControlState, ControlPlayer, StopClear, StopPlayer, StopForget, Seek,
           SkipPrevious, SkipPreviousCall, SkipPreviousPlant, Poll, Unsubscribe, Acknowledged, Detached,
           DoPlay, DoPlayEnter, DoPlayAccept, DoPlayStop, DoPlaySuspend, DoPlayLayout, DoPlayBind,
           DoPlayStartAt, DoPlaySeed, DoPlayBuffering, DoPlayCommit, DoPlayBegin, DoPlayPlay, closedStopPlay,
           HandoffPcs, SuspendedPcs, PlayPlant, SeekStart, SeekMsRead, SeekMsPlay, StepRead,
           StepFetched, StepPlant, StepReturn, AutoStop, MediaThread, MediaBegins, MediaProgress, MediaEnded,
           MediaAborted, MediaUnstarted, LocalControls, InputStop, InputPlayPause, InputSeekPlay,
           InputSeekRead, ContentResolutionChanged, Waiting, vars, history
  <2>2. task[w].gen # 0 /\ task[w].gen # settled /\ task[w].gen = playGen /\ settled <= playGen
    BY <1>1, <2>1 DEF IndInv, SlotInv, Generations, HandoffOwnsNewest
  <2> QED
    BY <1>1, <2>1, <2>2 DEF IndInv, TypeOK
<1> QED
  BY <1>1, Invariance, PTL DEF Spec, StartsInOrder

-----------------------------------------------------------------------------
(* What a step does to the slots and to the companion record, whichever     *)
(* thread takes it.                                                         *)

(* Only its own steps move a thread that has been detached.                 *)
LEMMA Moved ==
    ASSUME IndInv, [Next]_vars, NEW w \in Threads, pc'[w] # pc[w]
    PROVE  Detached(w) \/ (pc[w] = "free" /\ pc'[w] \in {"plant", "seekWait", "stepRead", "enter"})
<1> USE DEF locks, session, history
<1>0. TypeOK /\ StepKinds
  BY DEF IndInv, SlotInv
<1>1. ASSUME NEW v \in Threads, Detached(v) PROVE v = w
  <2>1. ASSUME NEW at, Goto(v, at) PROVE v = w
    BY <1>0, <2>1 DEF Goto, TypeOK
  <2>2. Finish(v) => v = w
    BY <1>0 DEF Finish, TypeOK
  <2>3. pc[v] \in {"stepRead", "stepFetch"} /\ NoQueueStep(v) => v = w
    <3> SUFFICES ASSUME pc[v] \in {"stepRead", "stepFetch"}, NoQueueStep(v) PROVE v = w
      OBVIOUS
    <3>1. task[v].kind \in {"auto", "next", "prev"}
      BY <1>0 DEF StepKinds
    <3>2. Finish(v) \/ \E at : Goto(v, at)
      BY <3>1 DEF NoQueueStep
    <3> QED
      BY <2>1, <2>2, <3>2
  <2> QED
    BY <1>1, <2>1, <2>2, <2>3
       DEF Detached, DoPlay, PlayPlant, DoPlayEnter, DoPlayAccept, DoPlayStop, DoPlaySuspend,
           DoPlayLayout, DoPlayBind, DoPlayStartAt, DoPlaySeed, DoPlayBuffering, DoPlayCommit,
           DoPlayBegin, DoPlayPlay, closedStopPlay, SeekStart, SeekMsRead, SeekMsPlay, StepRead, StepFetched,
           StepPlant, StepReturn, AutoStop
<1>2. ASSUME NEW v \in Threads, NEW at \in {"plant", "seekWait", "stepRead", "enter"}, NEW t,
             Spawn(v, at, t)
      PROVE  pc[w] = "free" /\ pc'[w] \in {"plant", "seekWait", "stepRead", "enter"}
  BY <1>0, <1>2 DEF Spawn, TypeOK
<1>3. ASSUME NEW v \in Threads, NEW ms, seekAsync(v, ms)
      PROVE  pc[w] = "free" /\ pc'[w] \in {"plant", "seekWait", "stepRead", "enter"}
  BY <1>2, <1>3 DEF seekAsync
<1>4. CASE HttpThread
  BY <1>2, <1>3, <1>4
     DEF HttpThread, PlayMediaQueued, Mirror, PlayMediaPlant, SeekPlant, SkipNext, Step, Control,
         ControlState, ControlPlayer, StopClear, StopPlayer, StopForget, Seek, SkipPrevious,
         SkipPreviousCall, SkipPreviousPlant, Poll, Unsubscribe, Acknowledged
<1>5. CASE MediaThread \/ LocalControls \/ Waiting \/ UNCHANGED vars
  BY <1>2, <1>5
     DEF MediaThread, MediaBegins, MediaProgress, MediaEnded, MediaAborted, MediaUnstarted,
         LocalControls, InputStop, InputPlayPause, InputSeekPlay, InputSeekRead,
         ContentResolutionChanged, Waiting, vars
<1> QED
  BY <1>1, <1>4, <1>5 DEF Next

\* The sections of Companion::mu_ that any thread runs at any time.
ReportSection == \E st \in States, t \in Nat, d \in Nat : comp' = setState(comp, st, t, d)
PlantSection ==
    \E t \in Nat, d \in Nat : \/ comp' = plantSeek(comp, t, d)
                              \/ comp' = plantSeek(bindCast(comp), t, d)
StageSection == \E key \in Keys, t \in Nat : comp' = stagePlay(comp, key, t)
RequestSection ==
    \/ comp' = bindCast(comp) \/ comp' = pollTimeline(comp)
    \/ \E key \in Keys : "mirror" \in Commands /\ comp' = mirror(comp, key)
    \/ "unsubscribe" \in Commands /\ comp' = dropCast(comp)
SeedSection(w) == pc[w] = "seed" /\ comp' = seedPlaybackPosition(comp, task[w].start, task[w].dur)
BindSection(w) ==
    /\ pc[w] = "bind" /\ acceptsPlayRequest(comp, task[w].key)
    /\ comp' = bindMedia(comp, task[w].key, task[w].dur)

(* The sections of the HTTP handlers.                                       *)
LEMMA HttpSection ==
    ASSUME IndInv, HttpThread
    PROVE  \/ comp' = comp \/ ReportSection \/ PlantSection \/ RequestSection
           \/ StageSection /\ \E w \in Threads : PlayMediaPlant(w)
           \/ StopClear /\ comp' = clearMedia(bindCast(comp))
<1> USE FieldTypes
<1>0. TypeOK /\ Keyed
  BY DEF IndInv, SlotInv
<1>1. CASE ControlState \/ ControlPlayer \/ StopPlayer
  <2>1. \/ comp' = setState(comp, http.st, http.ms, http.dur)
        \/ comp' = setState(comp, http.st, player.pos, player.dur)
        \/ comp' = setState(comp, "stopped", player.pos, player.dur)
    BY <1>1 DEF ControlState, ControlPlayer, StopPlayer, playerStop
  <2>2. http.st \in States /\ "stopped" \in States
    BY <1>0 DEF States
  <2> QED
    BY <1>0, <2>1, <2>2 DEF ReportSection
<1>2. ASSUME NEW w \in Threads, SeekPlant(w) PROVE PlantSection
  BY <1>0, <1>2 DEF SeekPlant, PlantSection
<1>3. ASSUME NEW w \in Threads, NEW delta \in {-1, 1}, Step(w, delta) PROVE PlantSection
  <2> DEFINE sum == comp.timeMs + delta
             ms  == Clamp(IF sum < 0 THEN 0 ELSE sum, comp.durationMs)
  <2>1. (IF sum < 0 THEN 0 ELSE sum) \in Nat
    BY <1>0
  <2>2. ms \in Nat
    BY <1>0, <2>1, ClampType
  <2>3. comp' = plantSeek(bindCast(comp), ms, comp.durationMs)
    BY <1>3 DEF Step
  <2> HIDE DEF ms
  <2> QED
    BY <1>0, <2>2, <2>3 DEF PlantSection
<1>4. CASE SkipPreviousPlant
  BY <1>0, <1>4 DEF SkipPreviousPlant, PlantSection
<1>5. ASSUME NEW w \in Threads, PlayMediaPlant(w) PROVE StageSection
  BY <1>0, <1>5 DEF PlayMediaPlant, StageSection, Keyed
<1>6. ASSUME NEW key \in Keys, Mirror(key) PROVE RequestSection
  BY <1>6 DEF Mirror, Receive, RequestSection
<1>7. ASSUME NEW key, NEW off, NEW present, PlayMediaQueued(key, off, present) PROVE RequestSection
  BY <1>7 DEF PlayMediaQueued, RequestSection
<1>8. ASSUME NEW st, Control(st) PROVE RequestSection
  BY <1>8 DEF Control, RequestSection
<1>9. ASSUME NEW off, Seek(off) PROVE RequestSection
  BY <1>9 DEF Seek, RequestSection
<1>10. ASSUME NEW w \in Threads, SkipNext(w) PROVE RequestSection
  BY <1>10 DEF SkipNext, RequestSection
<1>11. CASE SkipPrevious \/ Poll \/ Unsubscribe \/ Acknowledged
  BY <1>11 DEF SkipPrevious, Poll, Unsubscribe, Acknowledged, Receive, RequestSection
<1>12. CASE StopClear
  BY <1>12 DEF StopClear
<1>13. CASE StopForget \/ SkipPreviousCall
  BY <1>13 DEF StopForget, SkipPreviousCall
<1> QED
  BY <1>1, <1>2, <1>3, <1>4, <1>5, <1>6, <1>7, <1>8, <1>9, <1>10, <1>11, <1>12, <1>13 DEF HttpThread

(* The sections of the detached threads.                                    *)
LEMMA DetachedSection ==
    ASSUME IndInv, NEW w \in Threads, Detached(w)
    PROVE  \/ comp' = comp \/ ReportSection \/ SeedSection(w) \/ BindSection(w)
           \/ pc[w] = "stepFetch" /\ StageSection
<1> USE FieldTypes, TaskFields
<1>0. TypeOK /\ StepKinds /\ Keyed /\ "buffering" \in States /\ "stopped" \in States
  BY DEF IndInv, SlotInv, States
<1>1. CASE DoPlayStop(w)
  BY <1>0, <1>1 DEF DoPlayStop, playerStop, ReportSection
<1>2. CASE DoPlayLayout(w)
  BY <1>0, <1>2 DEF DoPlayLayout, closedStopPlay, ReportSection
<1>3. CASE DoPlayPlay(w)
  BY <1>0, <1>3 DEF DoPlayPlay, closedStopPlay, ReportSection
<1>4. CASE DoPlayBuffering(w) \/ SeekMsPlay(w) \/ AutoStop(w)
  BY <1>0, <1>4 DEF DoPlayBuffering, SeekMsPlay, AutoStop, ReportSection
<1>5. CASE DoPlayBind(w)
  BY <1>5 DEF DoPlayBind, BindSection
<1>6. CASE DoPlaySeed(w)
  BY <1>6 DEF DoPlaySeed, SeedSection
<1>7. pc[w] \in {"stepRead", "stepFetch"} /\ NoQueueStep(w) => comp' = comp
  <2> SUFFICES ASSUME pc[w] \in {"stepRead", "stepFetch"}, NoQueueStep(w) PROVE comp' = comp
    OBVIOUS
  <2>1. task[w].kind \in {"auto", "next", "prev"}
    BY <1>0 DEF StepKinds
  <2> QED
    BY <2>1 DEF NoQueueStep
<1>8. CASE StepRead(w)
  BY <1>7, <1>8 DEF StepRead
<1>9. CASE StepFetched(w)
  <2>1. CASE NoQueueStep(w)
    BY <1>7, <1>9, <2>1 DEF StepFetched
  <2>2. CASE Neighbour(w) # NoKey /\ comp' = stagePlay(comp, Neighbour(w), 0)
    <3>1. task[w].key \in Keys
      BY <1>0, <1>9 DEF Keyed, KeyedPcs, StepFetched
    <3>2. Neighbour(w) \in Keys
      BY <2>2, <3>1, SessionAssumption DEF Neighbour
    <3> QED
      BY <1>9, <2>2, <3>2 DEF StageSection, StepFetched
  <2> QED
    BY <1>9, <2>1, <2>2 DEF StepFetched
<1>10. CASE PlayPlant(w) \/ DoPlayEnter(w) \/ DoPlayAccept(w) \/ DoPlaySuspend(w)
            \/ DoPlayStartAt(w) \/ DoPlayCommit(w) \/ DoPlayBegin(w) \/ SeekStart(w) \/ SeekMsRead(w)
            \/ StepPlant(w) \/ StepReturn(w)
  BY <1>10 DEF PlayPlant, DoPlayEnter, DoPlayAccept, DoPlaySuspend, DoPlayStartAt, DoPlayCommit, DoPlayBegin,
               SeekStart, SeekMsRead, StepPlant, StepReturn
<1> QED
  BY <1>1, <1>2, <1>3, <1>4, <1>5, <1>6, <1>8, <1>9, <1>10 DEF Detached, DoPlay

(* The media and input threads only report.                                 *)
LEMMA OtherSection ==
    ASSUME IndInv, MediaThread \/ LocalControls \/ Waiting \/ UNCHANGED vars
    PROVE  comp' = comp \/ ReportSection
<1> USE FieldTypes
<1>0. TypeOK /\ States = {"stopped", "buffering", "playing", "paused"} /\ 0 \in Nat
  BY DEF IndInv, States
<1>1. player.pos + 1 \in Nat
  BY <1>0
<1>2. ASSUME MediaThread PROVE comp' = comp \/ ReportSection
  <2>1. \/ comp' = comp
        \/ \E st \in {"stopped", "buffering", "playing", "ended"}, t \in {0, player.pos, player.pos + 1} :
             comp' = setState(comp, st, t, player.dur) /\ st # "ended"
    BY <1>2 DEF MediaThread, MediaBegins, MediaProgress, MediaEnded, MediaAborted, MediaUnstarted,
                EndedState
  <2> QED
    BY <1>0, <1>1, <2>1 DEF ReportSection
<1>3. ASSUME LocalControls PROVE comp' = comp \/ ReportSection
  BY <1>0, <1>3 DEF LocalControls, InputStop, playerStop, InputPlayPause, InputSeekPlay,
                    InputSeekRead, ContentResolutionChanged, ReportSection
<1> QED
  BY <1>2, <1>3 DEF Waiting, vars

-----------------------------------------------------------------------------
(* A planted scrubber is honoured.                                          *)

\* The record keeps a plant on the screen, and a record that holds one without a
\* cast ignores progress.
HonoursPlant(c) ==
    /\ c.wantPlay /\ c.scrubTargetMs >= 0
         => /\ c.timeMs + Catchup >= c.scrubTargetMs
            /\ c.state = "buffering" => c.timeMs = c.scrubTargetMs
    /\ ~c.wantPlay /\ c.scrubTargetMs >= 0 => c.prePlayHold

\* A cast is on, or its loss is remembered.
Armed(c) == c.wantPlay \/ c.prePlayHold

PlantInv == HonoursPlant(comp) /\ \A w \in Threads : pc[w] = "seed" => Armed(comp)

(* A report leaves the thumb within kScrubCatchupMs of the plant, or lets it go. *)
LEMMA ReportHonours ==
    ASSUME NEW c \in Companions, HonoursPlant(c), NEW st \in States, NEW t \in Nat, NEW d \in Nat
    PROVE  HonoursPlant(setState(c, st, t, d)) /\ (Armed(c) => Armed(setState(c, st, t, d)))
<1> DEFINE tm  == IF d > 0 /\ t > d THEN d ELSE Clamp(t, c.durationMs)
           dur == IF d > 0 THEN d ELSE c.durationMs
<1>1. /\ c.durationMs \in Nat /\ c.timeMs \in Nat /\ c.scrubTargetMs \in Nat \cup {-1}
      /\ c.wantPlay \in BOOLEAN /\ c.prePlayHold \in BOOLEAN /\ c.state \in States
      /\ Catchup \in Nat
  BY ThresholdAssumption DEF Companions
<1>2. tm \in Nat /\ dur \in Nat /\ Clamp(tm, dur) = tm
  BY <1>1 DEF Clamp
<1>3. setState(c, st, t, d) =
        IF IgnoredAfterStop(c, st) THEN c
        ELSE IF st = "stopped" /\ c.wantPlay
          THEN [c EXCEPT !.state = st, !.durationMs = dur]
        ELSE IF Held(c, st) /\ st = "buffering"
          THEN [c EXCEPT !.state = st, !.durationMs = dur, !.timeMs = c.scrubTargetMs]
        ELSE IF Held(c, st) /\ FarBehind(c, tm)
          THEN [c EXCEPT !.state = st, !.durationMs = dur]
        ELSE [c EXCEPT !.scrubTargetMs = IF Held(c, st) /\ ReleasesHold(c, tm) THEN -1 ELSE @,
                       !.state = st, !.durationMs = dur, !.timeMs = tm,
                       !.wantPlay = @ \/ st \in Live]
  BY <1>2 DEF setState
<1> HIDE DEF tm, dur
<1> DEFINE c2 == setState(c, st, t, d)
<1>4. CASE IgnoredAfterStop(c, st)
  BY <1>3, <1>4
<1>5. CASE ~IgnoredAfterStop(c, st) /\ st = "stopped" /\ c.wantPlay
  <2>1. c2 = [c EXCEPT !.state = st, !.durationMs = dur]
    BY <1>3, <1>5
  <2>2. /\ c2.wantPlay = c.wantPlay /\ c2.scrubTargetMs = c.scrubTargetMs /\ c2.timeMs = c.timeMs
        /\ c2.state = st /\ c2.prePlayHold = c.prePlayHold
    BY <2>1 DEF Companions
  <2> HIDE DEF c2
  <2>3. HonoursPlant(c2) /\ Armed(c2)
    BY <1>1, <1>5, <2>2 DEF HonoursPlant, Armed
  <2> QED
    BY <2>3 DEF c2
<1>6. CASE ~IgnoredAfterStop(c, st) /\ ~(st = "stopped" /\ c.wantPlay) /\ Held(c, st) /\ st = "buffering"
  <2>1. c2 = [c EXCEPT !.state = st, !.durationMs = dur, !.timeMs = c.scrubTargetMs]
    BY <1>3, <1>6
  <2>2. /\ c2.wantPlay = c.wantPlay /\ c2.scrubTargetMs = c.scrubTargetMs
        /\ c2.timeMs = c.scrubTargetMs /\ c2.prePlayHold = c.prePlayHold
    BY <2>1 DEF Companions
  <2> HIDE DEF c2
  <2>3. HonoursPlant(c2) /\ Armed(c2)
    BY <1>1, <1>6, <2>2 DEF HonoursPlant, Armed, Held
  <2> QED
    BY <2>3 DEF c2
<1>7. CASE /\ ~IgnoredAfterStop(c, st) /\ ~(st = "stopped" /\ c.wantPlay)
           /\ ~(Held(c, st) /\ st = "buffering") /\ Held(c, st) /\ FarBehind(c, tm)
  <2>1. c2 = [c EXCEPT !.state = st, !.durationMs = dur]
    BY <1>3, <1>7
  <2>2. /\ c2.wantPlay = c.wantPlay /\ c2.scrubTargetMs = c.scrubTargetMs /\ c2.timeMs = c.timeMs
        /\ c2.state = st /\ c2.prePlayHold = c.prePlayHold
    BY <2>1 DEF Companions
  <2> HIDE DEF c2
  <2>3. HonoursPlant(c2) /\ Armed(c2)
    BY <1>1, <1>7, <2>2 DEF HonoursPlant, Armed, Held
  <2> QED
    BY <2>3 DEF c2
<1>8. CASE /\ ~IgnoredAfterStop(c, st) /\ ~(st = "stopped" /\ c.wantPlay)
           /\ ~(Held(c, st) /\ st = "buffering") /\ ~(Held(c, st) /\ FarBehind(c, tm))
  <2> DEFINE scrub == IF Held(c, st) /\ ReleasesHold(c, tm) THEN -1 ELSE c.scrubTargetMs
             want == c.wantPlay \/ st \in Live
  <2>1. c2 = [c EXCEPT !.scrubTargetMs = scrub, !.state = st, !.durationMs = dur, !.timeMs = tm,
                       !.wantPlay = want]
    BY <1>3, <1>8
  <2> HIDE DEF scrub, want
  <2>2. /\ c2.wantPlay = want /\ c2.scrubTargetMs = scrub /\ c2.timeMs = tm /\ c2.state = st
        /\ c2.prePlayHold = c.prePlayHold
    BY <2>1 DEF Companions
  <2>3. scrub >= 0 => scrub = c.scrubTargetMs
    BY <1>1 DEF scrub
  <2>4. CASE c.wantPlay
    <3>1. scrub >= 0 => st # "buffering" /\ tm + Catchup >= scrub
      BY <1>1, <1>2, <1>8, <2>3, <2>4 DEF Held, FarBehind, Live, States
    <3> HIDE DEF c2
    <3>2. HonoursPlant(c2) /\ Armed(c2)
      BY <1>1, <2>2, <2>4, <3>1 DEF HonoursPlant, Armed, want
    <3> QED
      BY <3>2 DEF c2
  <2>5. CASE ~c.wantPlay
    <3>1. st \in Live => ~(scrub >= 0)
      BY <1>1, <1>8, <2>3, <2>5 DEF HonoursPlant, IgnoredAfterStop
    <3> HIDE DEF c2
    <3>2. HonoursPlant(c2) /\ (Armed(c) => Armed(c2))
      BY <1>1, <2>2, <2>3, <2>5, <3>1 DEF HonoursPlant, Armed, want
    <3> QED
      BY <3>2 DEF c2
  <2> QED
    BY <1>1, <2>4, <2>5
<1> QED
  BY <1>4, <1>5, <1>6, <1>7, <1>8

(* So do the sections that plant, seed, bind, stage and clear.              *)
LEMMA SectionsHonour ==
    ASSUME NEW c \in Companions, HonoursPlant(c), NEW key \in AnyKey, NEW t \in Nat, NEW d \in Nat
    PROVE  /\ HonoursPlant(bindCast(c)) /\ (Armed(c) => Armed(bindCast(c)))
           /\ HonoursPlant(plantSeek(c, t, d)) /\ Armed(plantSeek(c, t, d))
           /\ HonoursPlant(stagePlay(c, key, t)) /\ Armed(stagePlay(c, key, t))
           /\ HonoursPlant(pollTimeline(c)) /\ (Armed(c) => Armed(pollTimeline(c)))
           /\ HonoursPlant(mirror(c, key)) /\ (Armed(c) => Armed(mirror(c, key)))
           /\ HonoursPlant(bindMedia(c, key, d)) /\ Armed(bindMedia(c, key, d))
           /\ HonoursPlant(clearMedia(bindCast(c))) /\ Armed(clearMedia(bindCast(c)))
           /\ Armed(c) => /\ HonoursPlant(seedPlaybackPosition(c, t, d))
                          /\ Armed(seedPlaybackPosition(c, t, d))
<1>1. /\ c.durationMs \in Nat /\ c.timeMs \in Nat /\ c.scrubTargetMs \in Nat \cup {-1}
      /\ c.wantPlay \in BOOLEAN /\ c.prePlayHold \in BOOLEAN /\ c.state \in States
      /\ Catchup \in Nat
  BY ThresholdAssumption DEF Companions
<1>2. HonoursPlant(bindCast(c)) /\ (Armed(c) => Armed(bindCast(c)))
  BY DEF Companions, bindCast, HonoursPlant, Armed
<1>3. HonoursPlant(plantSeek(c, t, d)) /\ Armed(plantSeek(c, t, d))
  <2> DEFINE dur == IF d > 0 THEN d ELSE c.durationMs
             c2 == [c EXCEPT !.scrubTargetMs = t, !.timeMs = t, !.state = "buffering",
                             !.durationMs = dur, !.wantPlay = TRUE]
  <2>1. c2.scrubTargetMs = t /\ c2.timeMs = t /\ c2.wantPlay
    BY DEF Companions
  <2>2. plantSeek(c, t, d) = c2
    BY DEF plantSeek
  <2> HIDE DEF c2
  <2> QED
    BY <1>1, <2>1, <2>2 DEF HonoursPlant, Armed
<1>4. HonoursPlant(stagePlay(c, key, t)) /\ Armed(stagePlay(c, key, t))
  <2>1. stagePlay(c, key, t).scrubTargetMs = t /\ stagePlay(c, key, t).timeMs = t
        /\ stagePlay(c, key, t).wantPlay
    BY DEF Companions, stagePlay
  <2> QED
    BY <1>1, <2>1 DEF HonoursPlant, Armed
<1>5. HonoursPlant(pollTimeline(c)) /\ (Armed(c) => Armed(pollTimeline(c)))
  BY <1>1 DEF Companions, pollTimeline, HonoursPlant, Armed
<1>6. HonoursPlant(mirror(c, key)) /\ (Armed(c) => Armed(mirror(c, key)))
  BY <1>1, <1>2 DEF Companions, mirror, HonoursPlant, Armed
<1>7. HonoursPlant(bindMedia(c, key, d)) /\ Armed(bindMedia(c, key, d))
  <2> DEFINE held  == c.scrubTargetMs >= 0
             plant == IF held THEN Clamp(c.scrubTargetMs, d) ELSE -1
             at    == IF held THEN plant ELSE Clamp(c.timeMs, d)
             c2 == [c EXCEPT !.pendingKey = key, !.durationMs = d, !.scrubTargetMs = plant,
                             !.timeMs = at, !.wantPlay = TRUE, !.prePlayHold = FALSE]
  <2>1. bindMedia(c, key, d) = c2
    BY DEF bindMedia
  <2>2. plant >= 0 => at = plant /\ plant \in Nat
    BY <1>1 DEF Clamp
  <2> HIDE DEF plant, at
  <2>3. c2.scrubTargetMs = plant /\ c2.timeMs = at /\ c2.wantPlay
    BY DEF Companions
  <2> HIDE DEF c2
  <2> QED
    BY <1>1, <2>1, <2>2, <2>3 DEF HonoursPlant, Armed
<1>8. HonoursPlant(clearMedia(bindCast(c))) /\ Armed(clearMedia(bindCast(c)))
  <2>1. clearMedia(bindCast(c)).scrubTargetMs = -1 /\ clearMedia(bindCast(c)).prePlayHold
    BY DEF Companions, clearMedia, bindCast
  <2> QED
    BY <2>1 DEF HonoursPlant, Armed
<1>9. ASSUME Armed(c)
      PROVE  HonoursPlant(seedPlaybackPosition(c, t, d)) /\ Armed(seedPlaybackPosition(c, t, d))
  <2> DEFINE dur == IF d > 0 THEN d ELSE c.durationMs
             at  == Clamp(t, dur)
             st  == IF c.wantPlay /\ c.state = "stopped" THEN "buffering" ELSE c.state
             c2 == [c EXCEPT !.durationMs = dur, !.timeMs = at, !.scrubTargetMs = at, !.state = st]
  <2>1. seedPlaybackPosition(c, t, d) = c2
    BY DEF seedPlaybackPosition
  <2>2. at \in Nat
    BY <1>1, ClampType
  <2> HIDE DEF dur, at, st
  <2>3. /\ c2.timeMs = at /\ c2.scrubTargetMs = at /\ c2.wantPlay = c.wantPlay
        /\ c2.prePlayHold = c.prePlayHold
    BY DEF Companions
  <2> HIDE DEF c2
  <2> QED
    BY <1>1, <1>9, <2>1, <2>2, <2>3 DEF HonoursPlant, Armed
<1> QED
  BY <1>2, <1>3, <1>4, <1>5, <1>6, <1>7, <1>8, <1>9

(* A thread comes to its seed only with a cast on.                          *)
LEMMA SeedEntered ==
    ASSUME IndInv, [Next]_vars, NEW w \in Threads, pc'[w] = "seed", pc[w] # "seed"
    PROVE  comp.wantPlay /\ comp' = comp
<1>1. Detached(w) /\ TypeOK /\ StepKinds
  BY Moved DEF IndInv, SlotInv
<1>2. ASSUME NEW at, at # "seed" PROVE ~Goto(w, at)
  BY <1>1, <1>2 DEF Goto, TypeOK
<1>3. ~Finish(w)
  BY <1>1 DEF Finish, TypeOK
<1>4. ~(pc[w] \in {"stepRead", "stepFetch"} /\ NoQueueStep(w))
  BY <1>1, <1>2, <1>3 DEF NoQueueStep, StepKinds
<1> QED
  BY <1>1, <1>2, <1>3, <1>4
     DEF Detached, DoPlay, PlayPlant, DoPlayEnter, DoPlayAccept, DoPlayStop, DoPlaySuspend,
         DoPlayLayout, DoPlayBind, DoPlayStartAt, DoPlaySeed, DoPlayBuffering, DoPlayCommit,
         DoPlayBegin, DoPlayPlay, closedStopPlay, SeekStart, SeekMsRead, SeekMsPlay, StepRead, StepFetched,
         StepPlant, StepReturn, AutoStop

(* Every step keeps the plant, but for the unsubscribe of the last subscriber. *)
LEMMA PlantStep ==
    ASSUME "unsubscribe" \notin Commands, IndInv, PlantInv, [Next]_vars
    PROVE  PlantInv'
<1> USE FieldTypes, TaskFields
<1>0. TypeOK /\ comp \in Companions /\ HonoursPlant(comp)
  BY DEF IndInv, TypeOK, PlantInv
<1>1. bindCast(comp) \in Companions /\ HonoursPlant(bindCast(comp))
  <2>1. NoKey \in AnyKey
    BY DEF AnyKey
  <2> QED
    BY <1>0, <2>1, SectionTypes, SectionsHonour
<1>2. ASSUME ReportSection PROVE HonoursPlant(comp') /\ (Armed(comp) => Armed(comp'))
  BY <1>0, <1>2, ReportHonours DEF ReportSection
<1>3. ASSUME PlantSection PROVE HonoursPlant(comp') /\ Armed(comp')
  <2>1. NoKey \in AnyKey
    BY DEF AnyKey
  <2> QED
    BY <1>0, <1>1, <1>3, <2>1, SectionsHonour DEF PlantSection
<1>4. ASSUME StageSection PROVE HonoursPlant(comp') /\ Armed(comp')
  BY <1>0, <1>4, SectionsHonour DEF StageSection, AnyKey
<1>5. ASSUME RequestSection PROVE HonoursPlant(comp') /\ (Armed(comp) => Armed(comp'))
  <2>1. NoKey \in AnyKey /\ Keys \subseteq AnyKey /\ 0 \in Nat
    BY DEF AnyKey
  <2> QED
    BY <1>0, <1>5, <2>1, SectionsHonour DEF RequestSection
<1>6. ASSUME NEW w \in Threads, SeedSection(w) PROVE HonoursPlant(comp') /\ Armed(comp')
  <2>1. NoKey \in AnyKey
    BY DEF AnyKey
  <2>2. Armed(comp) /\ comp' = seedPlaybackPosition(comp, task[w].start, task[w].dur)
    BY <1>6 DEF SeedSection, PlantInv
  <2> QED
    BY <1>0, <2>1, <2>2, SectionsHonour
<1>7. ASSUME NEW w \in Threads, BindSection(w) PROVE HonoursPlant(comp') /\ Armed(comp')
  BY <1>0, <1>7, SectionsHonour DEF BindSection
<1>8. ASSUME comp' = clearMedia(bindCast(comp)) PROVE HonoursPlant(comp') /\ Armed(comp')
  <2>1. NoKey \in AnyKey /\ 0 \in Nat
    BY DEF AnyKey
  <2> QED
    BY <1>0, <1>8, <2>1, SectionsHonour
<1>9. HonoursPlant(comp') /\ (Armed(comp) => Armed(comp'))
  <2>1. CASE HttpThread
    BY <1>0, <1>2, <1>3, <1>4, <1>5, <1>8, <2>1, HttpSection
  <2>2. ASSUME NEW w \in Threads, Detached(w) PROVE HonoursPlant(comp') /\ (Armed(comp) => Armed(comp'))
    BY <1>0, <1>2, <1>4, <1>6, <1>7, <2>2, DetachedSection
  <2>3. CASE MediaThread \/ LocalControls \/ Waiting \/ UNCHANGED vars
    BY <1>0, <1>2, <2>3, OtherSection
  <2> QED
    BY <2>1, <2>2, <2>3 DEF Next
<1>10. ASSUME NEW w \in Threads, pc'[w] = "seed" PROVE Armed(comp')
  <2>1. CASE pc[w] = "seed"
    BY <1>9, <2>1 DEF PlantInv
  <2>2. CASE pc[w] # "seed"
    BY <1>9, <1>10, <2>2, SeedEntered DEF Armed
  <2> QED
    BY <2>1, <2>2
<1>11. HonoursPlant(comp)' /\ \A w \in Threads : pc'[w] = "seed" => Armed(comp)'
  BY <1>9, <1>10 DEF HonoursPlant, Armed
<1> QED
  BY <1>11 DEF PlantInv

\* A scrub, a step, a skip to the start or a cast's own offset that was planted stays
\* on the screen until playback comes near it (Companion::setState, "so the Web thumb
\* does not rewind"): whatever the media thread, a demux that is being torn down, a
\* seek, a queue step, a mirror or a stop reports or does in the meantime, as long as
\* the last subscriber does not unsubscribe.
THEOREM ScrubIsHonoured ==
    ASSUME "unsubscribe" \notin Commands
    PROVE  Spec => []PlantHonoured
<1>1. Init => PlantInv
  BY DEF Init, InitCompanion, PlantInv, HonoursPlant
<1>2. IndInv /\ PlantInv /\ [Next]_vars => PlantInv'
  BY PlantStep
<1>3. PlantInv => PlantHonoured
  BY DEF PlantInv, HonoursPlant, PlantHonoured, ThumbNearPlant, BufferingShowsPlant
<1> QED
  BY <1>1, <1>2, <1>3, Invariance, PTL DEF Spec

-----------------------------------------------------------------------------
(* Who starts the player, and who is inside the handoff then.               *)

\* A step that starts nothing: the player at most stops, and the PMS session at most
\* ends, unless doPlay begins that of its title.
PlayerRests ==
    /\ player'.run => player.run /\ player'.url = player.url
    /\ \/ pms' # NoKey => pms' = pms /\ player'.url = player.url
       \/ \E w \in Threads : DoPlayBegin(w)

\* doPlay starts the demux of its title, and returns.
DoPlayStarts(w) ==
    /\ pc[w] = "play" /\ pc'[w] \notin HandoffPcs
    /\ player'.run /\ player'.url = task[w].key /\ pms' = pms
    /\ UNCHANGED <<comp, http, input, playGen>> /\ settled' = task[w].gen

(* The player is started by doPlay, by a seek of a detached thread in place, or by *)
(* one of the input thread.                                                        *)
LEMMA PlayerSteps ==
    ASSUME IndInv, [Next]_vars
    PROVE  \/ PlayerRests
           \/ \E w \in Threads : DoPlayStarts(w)
           \/ \E w \in Threads : pc[w] = "seekPlay"
           \/ InputSeekPlay
<1> USE DEF PlayerRests, StoppedPlayer
<1>0. TypeOK
  BY DEF IndInv
<1>1. CASE HttpThread
  <2>1. StopPlayer \/ ControlPlayer \/ UNCHANGED <<player, pms>>
    BY <1>1
       DEF HttpThread, PlayMediaQueued, Mirror, PlayMediaPlant, SeekPlant, SkipNext, Step, Control,
           ControlState, StopClear, StopForget, Seek, SkipPrevious, SkipPreviousCall,
           SkipPreviousPlant, Poll, Unsubscribe, Acknowledged
  <2>2. CASE StopPlayer
    BY <2>2 DEF StopPlayer, playerStop
  <2>3. CASE ControlPlayer
    BY <1>0, <2>3 DEF ControlPlayer, TypeOK, Players
  <2> QED
    BY <2>1, <2>2, <2>3
<1>2. ASSUME NEW w \in Threads, DoPlayPlay(w) PROVE PlayerRests \/ DoPlayStarts(w)
  <2>1. CASE closedStopPlay(w, task[w].start) /\ UNCHANGED player
    BY <2>1 DEF closedStopPlay
  <2>2. CASE ~(closedStopPlay(w, task[w].start) /\ UNCHANGED player)
    <3>1. /\ pc[w] = "play" /\ playerPlay(task[w].key, task[w].start, task[w].dur)
          /\ settled' = task[w].gen /\ Finish(w)
          /\ UNCHANGED <<comp, pms, http, input, playGen>>
      BY <1>2, <2>2 DEF DoPlayPlay
    <3>2. pc'[w] \in {"free", "stepReturn"}
      BY <1>0, <3>1 DEF Finish, TypeOK
    <3> QED
      BY <3>1, <3>2 DEF DoPlayStarts, playerPlay, HandoffPcs, SuspendedPcs
  <2> QED
    BY <2>1, <2>2
<1>3. ASSUME NEW w \in Threads, Detached(w), ~DoPlayPlay(w), ~SeekMsPlay(w) PROVE PlayerRests
  <2>1. CASE DoPlayStop(w)
    BY <2>1 DEF DoPlayStop, playerStop
  <2>2. CASE DoPlayLayout(w)
    BY <2>2 DEF DoPlayLayout, closedStopPlay
  <2>3. CASE PlayPlant(w) \/ DoPlayEnter(w) \/ DoPlayAccept(w) \/ DoPlaySuspend(w) \/ DoPlayBind(w)
             \/ DoPlayStartAt(w) \/ DoPlaySeed(w) \/ DoPlayBuffering(w) \/ DoPlayCommit(w)
    BY <2>3 DEF PlayPlant, DoPlayEnter, DoPlayAccept, DoPlaySuspend, DoPlayBind, DoPlayStartAt,
                DoPlaySeed, DoPlayBuffering, DoPlayCommit
  <2>4. CASE SeekStart(w) \/ SeekMsRead(w) \/ StepRead(w) \/ StepFetched(w) \/ StepPlant(w)
             \/ StepReturn(w) \/ AutoStop(w)
    BY <2>4 DEF SeekStart, SeekMsRead, StepRead, StepFetched, StepPlant, StepReturn, AutoStop
  <2>5. CASE DoPlayBegin(w)
    BY <2>5 DEF DoPlayBegin
  <2> QED
    BY <1>3, <2>1, <2>2, <2>3, <2>4, <2>5 DEF Detached, DoPlay
<1>4. ASSUME NEW w \in Threads, Detached(w)
      PROVE  PlayerRests \/ DoPlayStarts(w) \/ pc[w] = "seekPlay"
  BY <1>2, <1>3, <1>4 DEF SeekMsPlay
<1>5. CASE MediaThread
  BY <1>0, <1>5 DEF MediaThread, MediaBegins, MediaProgress, MediaEnded, MediaAborted,
                    MediaUnstarted, TypeOK, Players
<1>6. CASE LocalControls
  BY <1>0, <1>6 DEF LocalControls, InputStop, playerStop, InputPlayPause, InputSeekRead,
                    ContentResolutionChanged, TypeOK, Players
<1>7. CASE Waiting \/ UNCHANGED vars
  BY <1>7 DEF Waiting, vars
<1> QED
  BY <1>1, <1>4, <1>5, <1>6, <1>7 DEF Next

(* The doors of the handoff: an accepted request, the end of the old title, and the *)
(* joined input thread.                                                             *)
LEMMA HandoffDoors ==
    ASSUME IndInv, [Next]_vars, NEW w \in Threads, pc'[w] # pc[w], pc'[w] \in HandoffPcs
    PROVE  \/ pc'[w] = "stop" /\ pc[w] = "resolve" /\ Current(w) /\ playHandoffMu = None
              /\ acceptsPlayRequest(comp, task[w].key) /\ UNCHANGED <<comp, http, player, playGen>>
              /\ task'[w].gen = task[w].gen /\ task'[w].key = task[w].key
           \/ pc'[w] = "suspend" /\ pc[w] = "stop" /\ player' = StoppedPlayer
           \/ pc'[w] = "layout" /\ pc[w] = "suspend" /\ input.pc = "idle" /\ UNCHANGED <<player, input>>
           \/ pc[w] \in SuspendedPcs /\ pc'[w] \in SuspendedPcs /\ UNCHANGED <<player, input>>
<1>1. Detached(w) /\ TypeOK /\ StepKinds
  BY Moved DEF IndInv, SlotInv, HandoffPcs, SuspendedPcs
<1>2. ASSUME NEW at, Goto(w, at) PROVE pc'[w] = at
  BY <1>1, <1>2 DEF Goto, TypeOK
<1>3. Finish(w) => pc'[w] \in {"free", "stepReturn"}
  BY <1>1 DEF Finish, TypeOK
<1>4. pc[w] \in {"stepRead", "stepFetch"} /\ NoQueueStep(w)
        => pc'[w] \in {"free", "stepReturn", "seekWait"}
  <2> SUFFICES ASSUME pc[w] \in {"stepRead", "stepFetch"}, NoQueueStep(w)
               PROVE  pc'[w] \in {"free", "stepReturn", "seekWait"}
    OBVIOUS
  <2>1. task[w].kind \in {"auto", "next", "prev"}
    BY <1>1 DEF StepKinds
  <2>2. Finish(w) \/ Goto(w, "stepReturn") \/ Goto(w, "seekWait")
    BY <2>1 DEF NoQueueStep
  <2> QED
    BY <1>2, <1>3, <2>2
<1>5. pc'[w] \notin {"free", "stepReturn", "seekWait", "seekMs", "seekPlay", "enter", "resolve",
                     "stepFetch", "stepPlant", "autoStop", "plant", "stepRead"}
  BY DEF HandoffPcs, SuspendedPcs
<1>6. DoPlay(w)
  BY <1>1, <1>2, <1>3, <1>4, <1>5
     DEF Detached, PlayPlant, SeekStart, SeekMsRead, SeekMsPlay, StepRead, StepFetched, StepPlant,
         StepReturn, AutoStop
<1>7. CASE DoPlayAccept(w)
  <2>1. /\ pc[w] = "resolve" /\ Current(w) /\ playHandoffMu = None
        /\ acceptsPlayRequest(comp, task[w].key)
        /\ Goto(w, "stop") /\ UNCHANGED <<comp, http, player, playGen>>
        /\ \E d : task' = [task EXCEPT ![w].dur = d]
    BY <1>3, <1>5, <1>7 DEF DoPlayAccept
  <2>2. task'[w].gen = task[w].gen /\ task'[w].key = task[w].key
    BY <1>1, <2>1, TaskFields DEF TypeOK, Tasks
  <2> QED
    BY <1>2, <2>1, <2>2
<1>8. CASE DoPlayStop(w) \/ DoPlaySuspend(w)
  BY <1>2, <1>8 DEF DoPlayStop, DoPlaySuspend, playerStop
<1>9. CASE DoPlayLayout(w) \/ DoPlayBind(w) \/ DoPlayStartAt(w) \/ DoPlaySeed(w)
            \/ DoPlayBuffering(w) \/ DoPlayCommit(w) \/ DoPlayBegin(w)
  BY <1>2, <1>3, <1>5, <1>9
     DEF DoPlayLayout, DoPlayBind, DoPlayStartAt, DoPlaySeed, DoPlayBuffering, DoPlayCommit, DoPlayBegin,
         closedStopPlay, SuspendedPcs
<1>10. CASE DoPlayEnter(w) \/ DoPlayPlay(w)
  BY <1>2, <1>3, <1>5, <1>10 DEF DoPlayEnter, DoPlayPlay, closedStopPlay
<1> QED
  BY <1>6, <1>7, <1>8, <1>9, <1>10 DEF DoPlay

-----------------------------------------------------------------------------
(* The DDR layout and the PMS session.  MediaPlayer::seekMs restarts the     *)
(* player from outside the handoff: from a detached thread for a title that  *)
(* does not seek by resolving again, and from the input thread.  What it can *)
(* break is proved to hold without it.                                       *)

\* A detached thread is about to restart the player in place.
InPlaceSeek == \E w \in Threads : pc[w] = "seekPlay"

\* So is any thread.
InPlaceRestart == InPlaceSeek \/ input.pc = "seekPlay"

\* From the end of the old title to the start of the new one the player is still.
StillInHandoff == \A w \in Threads : pc[w] \in SuspendedPcs \cup {"suspend"} => ~player.run

(* Only the doPlay inside the handoff could start the player, and it leaves. *)
LEMMA StillStep ==
    ASSUME IndInv, StillInHandoff, ~InPlaceRestart, [Next]_vars
    PROVE  StillInHandoff'
<1> SUFFICES ASSUME NEW w \in Threads, pc'[w] \in SuspendedPcs \cup {"suspend"}
             PROVE  ~player'.run
  BY DEF StillInHandoff
<1>1. HandoffOwnsNewest /\ pc'[w] \in HandoffPcs
  BY DEF IndInv, SlotInv, HandoffPcs
<1>2. ~player.run \/ player' = StoppedPlayer
  <2>1. CASE pc[w] \in SuspendedPcs \cup {"suspend"}
    BY <2>1 DEF StillInHandoff
  <2>2. CASE pc[w] \notin SuspendedPcs \cup {"suspend"}
    <3>1. pc'[w] # pc[w] /\ pc'[w] # "stop"
      BY <2>2 DEF SuspendedPcs
    <3> QED
      BY <1>1, <2>2, <3>1, HandoffDoors
  <2> QED
    BY <2>1, <2>2
<1>3. CASE player' = StoppedPlayer
  BY <1>3 DEF StoppedPlayer
<1>4. CASE PlayerRests
  BY <1>2, <1>3, <1>4 DEF PlayerRests
<1>5. ASSUME NEW v \in Threads, DoPlayStarts(v) PROVE FALSE
  <2>1. v # w /\ pc[v] \in HandoffPcs
    BY <1>1, <1>5 DEF DoPlayStarts, HandoffPcs, SuspendedPcs
  <2>2. pc[w] \notin HandoffPcs
    BY <1>1, <2>1 DEF HandoffOwnsNewest
  <2>3. playHandoffMu # None
    BY <1>1, <2>1, SessionAssumption DEF HandoffOwnsNewest
  <2>4. pc'[w] # pc[w]
    BY <1>1, <2>2
  <2> QED
    BY <1>1, <2>2, <2>3, <2>4, HandoffDoors DEF HandoffPcs
<1> QED
  BY <1>4, <1>5, PlayerSteps DEF InPlaceRestart, InPlaceSeek, InputSeekPlay

\* setDecodeSize and setSourceAspect remap the shared DDR while no demux presents into
\* it (doPlay, "must never race an active presenter or a newer request"), for any
\* number of casts, stops and queue steps: no media thread of an older title is left,
\* and no newer one is started.  Only a seek that restarts the player in place, which
\* main.cpp runs outside playHandoffMu, can break it, and the run PlaySessionLayout
\* shows that it does.
THEOREM LayoutIsExclusive == Spec /\ []~InPlaceRestart => []LayoutExclusive
<1>1. Init => StillInHandoff
  BY DEF Init, StillInHandoff, StoppedPlayer
<1>2. IndInv /\ StillInHandoff /\ ~InPlaceRestart /\ [Next]_vars => StillInHandoff'
  BY StillStep
<1>3. StillInHandoff => LayoutExclusive
  BY DEF StillInHandoff, LayoutExclusive, SuspendedPcs
<1> QED
  BY <1>1, <1>2, <1>3, Invariance, PTL DEF Spec

\* What the sections of a title about to start rely on: no player runs.
SessionInv == StillInHandoff /\ ReportedTitle

(* While a title is about to start only its own doPlay ends or renames the session:   *)
(* stop and every other doPlay wait for playHandoffMu, the old title has ended, and   *)
(* the local controls are parked.                                                     *)
LEMMA SessionHeld ==
    ASSUME IndInv, SessionInv, [Next]_vars, NEW w \in Threads, pc[w] = "play", pc'[w] = "play"
    PROVE  pms' = pms /\ task'[w].key = task[w].key
<1> USE DEF locks, session, history
<1>0. /\ TypeOK /\ StepKinds /\ playHandoffMu = w /\ w # None /\ workersSuspended /\ ~player.run
      /\ \A v \in Threads : pc[v] \in HandoffPcs => v = w
  BY SessionAssumption DEF IndInv, SlotInv, SessionInv, StillInHandoff, HandoffOwnsNewest,
     workersSuspended, HandoffPcs, SuspendedPcs
<1>1. ASSUME NEW v \in Threads, NEW at, NEW t, Spawn(v, at, t) PROVE task'[w] = task[w]
  BY <1>0, <1>1 DEF Spawn, TypeOK
<1>2. ASSUME NEW v \in Threads, NEW ms, seekAsync(v, ms) PROVE task'[w] = task[w]
  BY <1>1, <1>2 DEF seekAsync
<1>3. CASE HttpThread
  <2>1. ~StopPlayer
    BY <1>0 DEF StopPlayer, TakeGeneration
  <2>2. ASSUME NEW key, NEW off, NEW present, PlayMediaQueued(key, off, present) PROVE FALSE
    BY <1>0, <2>2 DEF PlayMediaQueued, TakeGeneration
  <2> QED
    BY <1>1, <1>2, <1>3, <2>1, <2>2
       DEF HttpThread, Mirror, PlayMediaPlant, SeekPlant, SkipNext, Step, Control, ControlState,
           ControlPlayer, StopClear, StopForget, Seek, SkipPrevious, SkipPreviousCall,
           SkipPreviousPlant, Poll, Unsubscribe, Acknowledged
<1>4. ASSUME NEW v \in Threads, Detached(v) PROVE pms' = pms /\ task'[w].key = task[w].key
  <2>1. v # w
    <3> SUFFICES ASSUME v = w PROVE FALSE
      OBVIOUS
    <3>1. DoPlayPlay(w)
      BY <1>0, <1>4
         DEF Detached, DoPlay, PlayPlant, DoPlayEnter, DoPlayAccept, DoPlayStop, DoPlaySuspend,
             DoPlayLayout, DoPlayBind, DoPlayStartAt, DoPlaySeed, DoPlayBuffering, DoPlayCommit,
             DoPlayBegin, SeekStart, SeekMsRead, SeekMsPlay, StepRead, StepFetched, StepPlant,
             StepReturn, AutoStop
    <3>2. Finish(w)
      BY <3>1 DEF DoPlayPlay, closedStopPlay
    <3> QED
      BY <1>0, <3>2 DEF Finish, TypeOK
  <2>2. pc[v] \notin HandoffPcs
    BY <1>0, <2>1
  <2>3. task \in [Threads -> Tasks]
    BY <1>0 DEF TypeOK
  <2>4. Finish(v) => task'[w] = task[w]
    BY <2>1, <2>3 DEF Finish
  <2>5. pc[v] \in {"stepRead", "stepFetch"} /\ NoQueueStep(v) => task'[w] = task[w]
    <3> SUFFICES ASSUME pc[v] \in {"stepRead", "stepFetch"}, NoQueueStep(v)
                 PROVE  task'[w] = task[w]
      OBVIOUS
    <3>1. task[v].kind \in {"auto", "next", "prev"}
      BY <1>0 DEF StepKinds
    <3>2. \/ task' = task \/ Finish(v)
          \/ task' = [task EXCEPT ![v] = [NoTask EXCEPT !.kind = "seek", !.seekGen = seekGen + 1]]
      BY <3>1 DEF NoQueueStep
    <3> QED
      BY <2>1, <2>3, <2>4, <3>2
  <2>6. ~DoPlayAccept(v)
    BY <1>0 DEF DoPlayAccept
  <2>7. CASE DoPlay(v)
    <3>1. DoPlayEnter(v)
      BY <2>2, <2>6, <2>7
         DEF DoPlay, DoPlayStop, DoPlaySuspend, DoPlayLayout, DoPlayBind, DoPlayStartAt, DoPlaySeed,
             DoPlayBuffering, DoPlayCommit, DoPlayBegin, DoPlayPlay, HandoffPcs, SuspendedPcs
    <3> QED
      BY <2>1, <2>3, <3>1 DEF DoPlayEnter
  <2>8. CASE SeekStart(v) \/ SeekMsRead(v)
    BY <2>1, <2>3, <2>4, <2>8 DEF SeekStart, SeekMsRead
  <2>9. CASE SeekMsPlay(v) \/ PlayPlant(v) \/ StepReturn(v) \/ AutoStop(v)
    BY <2>1, <2>3, <2>4, <2>9 DEF SeekMsPlay, PlayPlant, StepReturn, AutoStop
  <2>10. CASE StepRead(v) \/ StepFetched(v) \/ StepPlant(v)
    BY <2>1, <2>3, <2>5, <2>10 DEF StepRead, StepFetched, StepPlant
  <2> QED
    BY <1>4, <2>7, <2>8, <2>9, <2>10 DEF Detached
<1>5. CASE MediaThread
  BY <1>0, <1>5 DEF MediaThread, MediaBegins, MediaProgress, MediaEnded, MediaAborted,
                    MediaUnstarted
<1>6. CASE LocalControls
  BY <1>0, <1>1, <1>6 DEF LocalControls, InputStop, InputPlayPause, InputSeekPlay, InputSeekRead,
                          ContentResolutionChanged, LocalEvent
<1>7. CASE Waiting \/ UNCHANGED vars
  BY <1>7 DEF Waiting, vars
<1> QED
  BY <1>3, <1>4, <1>5, <1>6, <1>7 DEF Next

(* Only DoPlayPlay leaves the state of a title about to start: the player has it, or  *)
(* the session has ended.                                                             *)
LEMMA StartMoves ==
    ASSUME IndInv, [Next]_vars, NEW w \in Threads, pc[w] = "play", pc'[w] # "play"
    PROVE  DoPlayStarts(w) \/ pms' = NoKey
<1>1. DoPlayPlay(w)
  BY Moved
     DEF Detached, DoPlay, PlayPlant, DoPlayEnter, DoPlayAccept, DoPlayStop, DoPlaySuspend,
         DoPlayLayout, DoPlayBind, DoPlayStartAt, DoPlaySeed, DoPlayBuffering, DoPlayCommit,
         DoPlayBegin, SeekStart, SeekMsRead, SeekMsPlay, StepRead, StepFetched, StepPlant,
         StepReturn, AutoStop
<1>2. CASE closedStopPlay(w, task[w].start) /\ UNCHANGED player
  BY <1>2 DEF closedStopPlay
<1>3. CASE ~(closedStopPlay(w, task[w].start) /\ UNCHANGED player)
  <2>1. /\ playerPlay(task[w].key, task[w].start, task[w].dur) /\ settled' = task[w].gen
        /\ Finish(w) /\ UNCHANGED <<comp, pms, http, input, playGen>>
    BY <1>1, <1>3 DEF DoPlayPlay
  <2>2. pc'[w] \in {"free", "stepReturn"}
    BY <2>1 DEF Finish, IndInv, TypeOK
  <2> QED
    BY <2>1, <2>2 DEF DoPlayStarts, playerPlay, HandoffPcs, SuspendedPcs
<1> QED
  BY <1>2, <1>3

(* A title enters that state with its session just begun.                             *)
LEMMA BeginEnters ==
    ASSUME IndInv, [Next]_vars, NEW w \in Threads, pc[w] # "play", pc'[w] = "play"
    PROVE  DoPlayBegin(w)
<1>0. TypeOK /\ StepKinds /\ Detached(w)
  BY Moved DEF IndInv, SlotInv
<1>1. Finish(w) => pc'[w] # "play"
  BY <1>0 DEF Finish, TypeOK
<1>2. ASSUME NEW at, Goto(w, at) PROVE at = "play"
  BY <1>0, <1>2 DEF Goto, TypeOK
<1>3. pc[w] \in {"stepRead", "stepFetch"} => ~NoQueueStep(w)
  <2> SUFFICES ASSUME pc[w] \in {"stepRead", "stepFetch"}, NoQueueStep(w) PROVE FALSE
    OBVIOUS
  <2>1. task[w].kind \in {"auto", "next", "prev"}
    BY <1>0 DEF StepKinds
  <2> QED
    BY <1>1, <1>2, <2>1 DEF NoQueueStep
<1> QED
  BY <1>0, <1>1, <1>2, <1>3
     DEF Detached, DoPlay, PlayPlant, DoPlayEnter, DoPlayAccept, DoPlayStop, DoPlaySuspend,
         DoPlayLayout, DoPlayBind, DoPlayStartAt, DoPlaySeed, DoPlayBuffering, DoPlayCommit,
         DoPlayPlay, closedStopPlay, SeekStart, SeekMsRead, SeekMsPlay, StepRead, StepFetched,
         StepPlant, StepReturn, AutoStop

(* Each start finds the session of its own title, and each session a title.           *)
LEMMA SessionStep ==
    ASSUME IndInv, SessionInv, ~InPlaceRestart, [Next]_vars
    PROVE  SessionInv'
<1>1. StillInHandoff'
  BY StillStep DEF SessionInv
<1>2. ASSUME NEW w \in Threads, pc'[w] = "play" PROVE pms' = task'[w].key /\ ~player'.run
  <2>1. ~player'.run
    BY <1>1, <1>2 DEF StillInHandoff, SuspendedPcs
  <2>2. CASE pc[w] = "play"
    <3>1. pms = task[w].key
      BY <2>2 DEF SessionInv, ReportedTitle
    <3> QED
      BY <1>2, <2>1, <2>2, <3>1, SessionHeld
  <2>3. CASE pc[w] # "play"
    BY <1>2, <2>1, <2>3, BeginEnters DEF DoPlayBegin
  <2> QED
    BY <2>2, <2>3
<1>3. ASSUME pms' \notin {NoKey, player'.url} PROVE \E w \in Threads : pc'[w] = "play"
  <2>1. CASE \E w \in Threads : DoPlayBegin(w)
    BY <2>1 DEF DoPlayBegin, Goto, IndInv, TypeOK
  <2>2. ASSUME NEW w \in Threads, DoPlayStarts(w) PROVE FALSE
    BY <1>3, <2>2 DEF DoPlayStarts, SessionInv, ReportedTitle
  <2>3. CASE PlayerRests /\ ~\E w \in Threads : DoPlayBegin(w)
    <3>1. pms \notin {NoKey, player.url} /\ pms' # NoKey
      BY <1>3, <2>3 DEF PlayerRests
    <3>2. PICK w \in Threads : pc[w] = "play"
      BY <3>1 DEF SessionInv, ReportedTitle
    <3> QED
      BY <2>2, <3>1, <3>2, StartMoves
  <2> QED
    BY <2>1, <2>2, <2>3, PlayerSteps DEF InPlaceRestart, InPlaceSeek, InputSeekPlay
<1> QED
  BY <1>1, <1>2, <1>3 DEF SessionInv, ReportedTitle

\* The session of the PMS timeline names the title in the player, or the one that doPlay
\* has begun it for and is about to start; that start finds it open and no older demux
\* that would report into it; and it ends with its title, or with the start that fails
\* (beginSession before player.play in doPlay, endSession with every end of the player
\* and in closedStopPlay).  It holds whatever casts, stops, queue steps and local stops
\* cross.  Only a seek that restarts the player in place, outside playHandoffMu and
\* without a session of its own, can undo it.
THEOREM ReportsItsTitle == Spec /\ []~InPlaceRestart => []ReportedTitle
<1>1. Init => SessionInv
  BY DEF Init, SessionInv, StillInHandoff, ReportedTitle, StoppedPlayer
<1>2. IndInv /\ SessionInv /\ ~InPlaceRestart /\ [Next]_vars => SessionInv'
  BY SessionStep
<1>3. SessionInv => ReportedTitle
  BY DEF SessionInv
<1> QED
  BY <1>1, <1>2, <1>3, Invariance, PTL DEF Spec

-----------------------------------------------------------------------------
(* After a stop.                                                            *)

(* What the HTTP thread does in a step: it answers a request at once, goes into *)
(* one or comes out of it.                                                      *)
LEMMA HttpSteps ==
    ASSUME TypeOK, [Next]_vars
    PROVE  \/ ~HttpThread /\ UNCHANGED <<http, stopped>>
           \/ HttpThread /\ http' = http /\ http.pc = "idle" /\ UNCHANGED stopped
           \/ StopClear /\ http.pc = "idle" /\ http'.pc = "stopPlayer" /\ UNCHANGED stopped
           \/ /\ http.pc = "idle" /\ http'.pc \in {"idle", "ctlState", "seekPlant", "prevCall"}
              /\ (http'.pc # "idle" => comp.wantPlay) /\ comp' = bindCast(comp) /\ UNCHANGED stopped
           \/ http.pc = "idle" /\ http'.pc = "plant" /\ stopped' = FALSE
           \/ /\ HttpThread
              /\ http.pc \in {"plant", "ctlState", "ctlPlayer", "seekPlant", "prevCall", "prevPlant"}
              /\ http'.pc \in {"idle", "ctlPlayer", "prevPlant"} /\ UNCHANGED stopped
           \/ StopPlayer /\ http.pc = "stopPlayer" /\ http'.pc = "stopForget" /\ UNCHANGED stopped
           \/ StopForget /\ http.pc = "stopForget" /\ http'.pc = "idle" /\ comp' = comp
<1> USE DEF IdleHttp, history
<1>1. CASE HttpThread
  <2>1. ASSUME NEW key, NEW off, NEW present, PlayMediaQueued(key, off, present)
        PROVE  http.pc = "idle" /\ http'.pc = "plant" /\ stopped' = FALSE
    BY <2>1 DEF PlayMediaQueued, Receive
  <2>2. ASSUME NEW w \in Threads, PlayMediaPlant(w) \/ SeekPlant(w)
        PROVE  /\ http.pc \in {"plant", "seekPlant"} /\ http'.pc = "idle" /\ UNCHANGED stopped
    BY <2>2 DEF PlayMediaPlant, SeekPlant
  <2>3. ASSUME NEW st, Control(st)
        PROVE  /\ http.pc = "idle" /\ http'.pc \in {"idle", "ctlState"}
               /\ (http'.pc # "idle" => comp.wantPlay) /\ comp' = bindCast(comp) /\ UNCHANGED stopped
    BY <2>3 DEF Control, Receive
  <2>4. CASE ControlState \/ ControlPlayer \/ SkipPreviousCall \/ SkipPreviousPlant
    BY <1>1, <2>4 DEF ControlState, ControlPlayer, SkipPreviousCall, SkipPreviousPlant, TypeOK,
                      HttpStates
  <2>5. CASE StopClear
    BY <2>5 DEF StopClear, Receive
  <2>6. CASE StopPlayer \/ StopForget
    BY <2>6 DEF StopPlayer, StopForget, TypeOK, HttpStates
  <2>7. ASSUME NEW off, Seek(off)
        PROVE  /\ http.pc = "idle" /\ http'.pc \in {"idle", "seekPlant"}
               /\ (http'.pc # "idle" => comp.wantPlay) /\ comp' = bindCast(comp) /\ UNCHANGED stopped
    BY <2>7 DEF Seek, Receive
  <2>8. CASE SkipPrevious
    BY <2>8 DEF SkipPrevious, Receive
  <2>9. ASSUME NEW w \in Threads, NEW delta \in {-1, 1}, SkipNext(w) \/ Step(w, delta)
        PROVE  http' = http /\ http.pc = "idle" /\ UNCHANGED stopped
    BY <2>9 DEF SkipNext, Step, Receive
  <2>10. CASE Poll \/ Unsubscribe \/ Acknowledged \/ \E key \in Keys : Mirror(key)
    BY <2>10 DEF Poll, Unsubscribe, Acknowledged, Mirror, Receive
  <2> QED
    BY <1>1, <2>1, <2>2, <2>3, <2>4, <2>5, <2>6, <2>7, <2>8, <2>9, <2>10 DEF HttpThread
<1>2. ASSUME NEW w \in Threads, DoPlay(w) PROVE UNCHANGED <<http, stopped>>
  BY <1>2 DEF DoPlay, DoPlayEnter, DoPlayAccept, DoPlayStop, DoPlaySuspend, DoPlayLayout,
              DoPlayBind, DoPlayStartAt, DoPlaySeed, DoPlayBuffering, DoPlayCommit, DoPlayBegin, DoPlayPlay
<1>3. ASSUME NEW w \in Threads, Detached(w) PROVE UNCHANGED <<http, stopped>>
  BY <1>2, <1>3 DEF Detached, PlayPlant, SeekStart, SeekMsRead, SeekMsPlay, StepRead, StepFetched,
                    StepPlant, StepReturn, AutoStop
<1>4. ASSUME MediaThread PROVE UNCHANGED <<http, stopped>>
  BY <1>4 DEF MediaThread, MediaBegins, MediaProgress, MediaEnded, MediaAborted, MediaUnstarted
<1>5. ASSUME LocalControls PROVE UNCHANGED <<http, stopped>>
  BY <1>5 DEF LocalControls, InputStop, InputPlayPause, InputSeekPlay, InputSeekRead,
              ContentResolutionChanged
<1>6. ASSUME Waiting \/ UNCHANGED vars PROVE UNCHANGED <<http, stopped>>
  BY <1>6 DEF Waiting, vars
<1> QED
  BY <1>1, <1>3, <1>4, <1>5, <1>6 DEF Next

(* A request never puts a cast on, nor does a seed.                        *)
LEMMA QuietSections ==
    ASSUME NEW c \in Companions, ~c.wantPlay, NEW t \in Nat, NEW d \in Nat, NEW key \in AnyKey
    PROVE  /\ ~setState(c, "stopped", t, d).wantPlay
           /\ ~bindCast(c).wantPlay /\ ~pollTimeline(c).wantPlay /\ ~mirror(c, key).wantPlay
           /\ ~dropCast(c).wantPlay
<1>1. ~setState(c, "stopped", t, d).wantPlay
  BY DEF setState, IgnoredAfterStop, Held, Live, Companions
<1>2. ~bindCast(c).wantPlay /\ ~pollTimeline(c).wantPlay /\ ~dropCast(c).wantPlay
  BY DEF bindCast, pollTimeline, dropCast, Companions
<1>3. ~mirror(c, key).wantPlay
  BY DEF mirror, Companions
<1> QED
  BY <1>1, <1>2, <1>3

(* Late progress leaves a lost cast lost while its loss is remembered.      *)
LEMMA QuietReport ==
    ASSUME NEW c \in Companions, ~c.wantPlay, c.prePlayHold,
           NEW st \in States, NEW t \in Nat, NEW d \in Nat
    PROVE  ~setState(c, st, t, d).wantPlay /\ setState(c, st, t, d).prePlayHold
<1>1. st \in Live => setState(c, st, t, d) = c
  BY DEF setState, IgnoredAfterStop
<1>2. st \notin Live => st = "stopped"
  BY DEF Live, States
<1>3. ~setState(c, "stopped", t, d).wantPlay /\ setState(c, "stopped", t, d).prePlayHold
  BY DEF setState, IgnoredAfterStop, Held, Live, Companions
<1> QED
  BY <1>1, <1>2, <1>3

(* So does the seed of a start that has lost its handoff.                   *)
LEMMA QuietSeed ==
    ASSUME NEW c \in Companions, ~c.wantPlay, c.prePlayHold, NEW t \in Nat, NEW d \in Nat
    PROVE  ~seedPlaybackPosition(c, t, d).wantPlay /\ seedPlaybackPosition(c, t, d).prePlayHold
BY DEF seedPlaybackPosition, Companions

(* A cast is put on only by a cast, by a control that answers, by the media thread or *)
(* a handoff, by a queue step, or by a restart in place.                              *)
LEMMA Arms ==
    ASSUME IndInv, [Next]_vars, ~comp.wantPlay, comp'.wantPlay
    PROVE  \/ player.run \/ InPlaceRestart
           \/ http.pc \in {"plant", "ctlState", "ctlPlayer", "seekPlant", "prevPlant"}
           \/ \E w \in Threads : pc[w] \in HandoffPcs \cup {"stepFetch"}
<1> USE FieldTypes, TaskFields
<1>0. TypeOK /\ comp \in Companions /\ NoKey \in AnyKey /\ Keys \subseteq AnyKey /\ 0 \in Nat
      /\ "stopped" \in States
  BY DEF IndInv, TypeOK, AnyKey, States
<1>1. ASSUME RequestSection PROVE FALSE
  BY <1>0, <1>1, QuietSections DEF RequestSection
<1>2. ASSUME NEW t \in Nat, NEW d \in Nat, comp' = setState(comp, "stopped", t, d) PROVE FALSE
  BY <1>0, <1>2, QuietSections
<1>3. CASE HttpThread
  <2>1. CASE StopPlayer
    BY <1>0, <1>2, <2>1 DEF StopPlayer, playerStop
  <2>2. CASE ControlState \/ ControlPlayer \/ SkipPreviousPlant
    BY <2>2 DEF ControlState, ControlPlayer, SkipPreviousPlant
  <2>3. ASSUME NEW w \in Threads, PlayMediaPlant(w) \/ SeekPlant(w) \/ SkipNext(w)
        PROVE  http.pc \in {"plant", "seekPlant"}
    BY <1>1, <2>3 DEF PlayMediaPlant, SeekPlant, SkipNext, RequestSection
  <2>4. ASSUME NEW w \in Threads, NEW delta, Step(w, delta) PROVE FALSE
    BY <2>4 DEF Step
  <2>5. CASE StopClear
    <3>1. ~clearMedia(bindCast(comp)).wantPlay
      BY <1>0 DEF clearMedia, bindCast, Companions
    <3> QED
      BY <2>5, <3>1 DEF StopClear
  <2>6. CASE StopForget \/ SkipPreviousCall
    BY <2>6 DEF StopForget, SkipPreviousCall
  <2>7. ASSUME NEW key, NEW off, NEW present, PlayMediaQueued(key, off, present) PROVE FALSE
    BY <1>1, <2>7 DEF PlayMediaQueued, RequestSection
  <2>8. ASSUME NEW key \in Keys, Mirror(key) PROVE FALSE
    BY <1>1, <2>8 DEF Mirror, Receive, RequestSection
  <2>9. ASSUME NEW x, Control(x) \/ Seek(x) PROVE FALSE
    BY <1>1, <2>9 DEF Control, Seek, RequestSection
  <2>10. ASSUME SkipPrevious \/ Poll \/ Unsubscribe \/ Acknowledged PROVE FALSE
    BY <1>1, <2>10 DEF SkipPrevious, Poll, Unsubscribe, Acknowledged, Receive, RequestSection
  <2> QED
    BY <1>3, <2>1, <2>2, <2>3, <2>4, <2>5, <2>6, <2>7, <2>8, <2>9, <2>10 DEF HttpThread
<1>4. ASSUME NEW w \in Threads, Detached(w), pc[w] \notin HandoffPcs \cup {"stepFetch", "seekPlay"}
      PROVE  FALSE
  <2>1. CASE AutoStop(w)
    BY <1>0, <1>2, <2>1 DEF AutoStop
  <2>2. CASE StepRead(w)
    <3>1. pc[w] = "stepRead" /\ task[w].kind \in {"auto", "next", "prev"}
      BY <2>2 DEF StepRead, IndInv, SlotInv, StepKinds
    <3> QED
      BY <2>2, <3>1 DEF StepRead, NoQueueStep
  <2>3. CASE PlayPlant(w) \/ DoPlayEnter(w) \/ DoPlayAccept(w) \/ SeekStart(w) \/ SeekMsRead(w)
             \/ StepPlant(w) \/ StepReturn(w)
    BY <2>3 DEF PlayPlant, DoPlayEnter, DoPlayAccept, SeekStart, SeekMsRead, StepPlant, StepReturn
  <2> QED
    BY <1>4, <2>1, <2>2, <2>3
       DEF Detached, DoPlay, DoPlayStop, DoPlaySuspend, DoPlayLayout, DoPlayBind, DoPlayStartAt,
           DoPlaySeed, DoPlayBuffering, DoPlayCommit, DoPlayBegin, DoPlayPlay, SeekMsPlay, StepFetched,
           HandoffPcs, SuspendedPcs
<1>5. MediaThread => player.run
  BY DEF MediaThread, MediaBegins, MediaProgress, MediaEnded, MediaAborted, MediaUnstarted
<1>6. LocalControls => player.run \/ input.pc = "seekPlay"
  BY DEF LocalControls, InputStop, InputPlayPause, InputSeekPlay, InputSeekRead,
         ContentResolutionChanged
<1>7. ~(Waiting \/ UNCHANGED vars)
  BY DEF Waiting, vars
<1> QED
  BY <1>3, <1>4, <1>5, <1>6, <1>7 DEF Next, InPlaceRestart, InPlaceSeek

\* A queue step has fetched the queue, and is about to stage what it found.
QueueStepStages == \E w \in Threads : pc[w] = "stepFetch"

\* Between the two halves of a stop no cast is on, and its loss is remembered; from
\* its last section on, the player and the handoff are still too.
StopInv ==
    /\ stopped \/ http.pc = "stopForget"
         => ~player.run /\ ~comp.wantPlay /\ \A w \in Threads : pc[w] \notin HandoffPcs
    /\ http.pc \in {"stopPlayer", "stopForget"} => ~comp.wantPlay /\ comp.prePlayHold
    /\ stopped => http.pc \in {"idle", "stopPlayer", "stopForget"}

(* Nothing that was under way when the stop came brings the title back.     *)
LEMMA StopStep ==
    ASSUME IndInv, StopInv, ~InPlaceRestart, ~QueueStepStages, [Next]_vars
    PROVE  StopInv'
<1> USE FieldTypes, TaskFields
<1>0. /\ TypeOK /\ SlotInv /\ comp \in Companions /\ NoKey \in AnyKey /\ 0 \in Nat
      /\ "stopped" \in States
  BY DEF IndInv, TypeOK, AnyKey, States
<1>1. ASSUME stopped \/ http.pc = "stopForget"
      PROVE  ~player'.run /\ ~comp'.wantPlay /\ \A w \in Threads : pc'[w] \notin HandoffPcs
  <2>1. /\ ~player.run /\ ~comp.wantPlay /\ \A w \in Threads : pc[w] \notin HandoffPcs
        /\ http.pc \in {"idle", "stopPlayer", "stopForget"}
    BY <1>1 DEF StopInv
  <2>2. ~player'.run
    BY <2>1, PlayerSteps DEF PlayerRests, DoPlayStarts, InPlaceRestart, InPlaceSeek,
                             InputSeekPlay, HandoffPcs, SuspendedPcs
  <2>3. ~comp'.wantPlay
    BY <2>1, Arms DEF QueueStepStages
  <2>4. \A w \in Threads : pc'[w] \notin HandoffPcs
    <3> SUFFICES ASSUME NEW w \in Threads, pc'[w] \in HandoffPcs PROVE FALSE
      OBVIOUS
    <3>1. pc[w] \notin HandoffPcs /\ pc'[w] # pc[w]
      BY <2>1
    <3> QED
      BY <2>1, <3>1, HandoffDoors DEF acceptsPlayRequest, HandoffPcs, SuspendedPcs
  <2> QED
    BY <2>2, <2>3, <2>4
<1>2. ASSUME StopPlayer
      PROVE  /\ ~player'.run /\ ~comp'.wantPlay /\ comp'.prePlayHold
             /\ \A w \in Threads : pc'[w] \notin HandoffPcs
  <2>1. /\ player' = StoppedPlayer /\ comp' = setState(comp, "stopped", player.pos, player.dur)
        /\ playHandoffMu = None /\ pc' = pc /\ http.pc = "stopPlayer"
    BY <1>2 DEF StopPlayer, playerStop, TakeGeneration
  <2>2. ~comp.wantPlay /\ comp.prePlayHold
    BY <2>1 DEF StopInv
  <2> QED
    BY <1>0, <2>1, <2>2, NoHandoff, QuietReport DEF StoppedPlayer
<1>3. ASSUME http.pc \in {"stopPlayer", "stopForget"} PROVE ~comp'.wantPlay /\ comp'.prePlayHold
  <2>1. ~comp.wantPlay /\ comp.prePlayHold
    BY <1>3 DEF StopInv
  <2>2. ASSUME ReportSection PROVE ~comp'.wantPlay /\ comp'.prePlayHold
    <3>1. PICK st \in States, t \in Nat, d \in Nat : comp' = setState(comp, st, t, d)
      BY <2>2 DEF ReportSection
    <3> QED
      BY <1>0, <2>1, <3>1, QuietReport
  <2>3. CASE HttpThread
    BY <1>0, <1>2, <1>3, <2>1, <2>3, HttpSteps
  <2>4. ASSUME NEW w \in Threads, Detached(w) PROVE ~comp'.wantPlay /\ comp'.prePlayHold
    <3>1. SeedSection(w) => ~comp'.wantPlay /\ comp'.prePlayHold
      <4>1. task[w].start \in Nat /\ task[w].dur \in Nat
        BY <1>0
      <4> QED
        BY <1>0, <2>1, <4>1, QuietSeed DEF SeedSection
    <3>2. ~BindSection(w)
      BY <2>1 DEF BindSection, acceptsPlayRequest
    <3> QED
      BY <2>1, <2>2, <2>4, <3>1, <3>2, DetachedSection DEF QueueStepStages
  <2>5. CASE MediaThread \/ LocalControls \/ Waiting \/ UNCHANGED vars
    BY <2>1, <2>2, <2>5, OtherSection
  <2> QED
    BY <2>3, <2>4, <2>5 DEF Next
<1>4. ASSUME StopClear PROVE ~comp'.wantPlay /\ comp'.prePlayHold
  BY <1>0, <1>4 DEF StopClear, clearMedia, bindCast, Companions
<1>5. stopped' \/ http'.pc = "stopForget"
         => ~player'.run /\ ~comp'.wantPlay /\ \A w \in Threads : pc'[w] \notin HandoffPcs
  BY <1>0, <1>1, <1>2, HttpSteps
<1>6. http'.pc \in {"stopPlayer", "stopForget"} => ~comp'.wantPlay /\ comp'.prePlayHold
  BY <1>0, <1>2, <1>3, <1>4, HttpSteps
<1>7. stopped' => http'.pc \in {"idle", "stopPlayer", "stopForget"}
  BY <1>0, HttpSteps DEF StopInv
<1> QED
  BY <1>5, <1>6, <1>7 DEF StopInv

\* Once stop has been answered, only a new cast starts the player or arms the timeline
\* again (setStop, "a late playMedia cannot restart demux after stop"): no cast that is
\* still being resolved, no late progress report, no pause or local control and no
\* live change of the resolution does.  The two exceptions are a queue step that was
\* fetching the queue, which stages what it finds whatever happened meanwhile (the run
\* PlaySessionQueueStepAfterStop), and a seek that restarts the player in place.
THEOREM StopIsFinal == Spec /\ []~InPlaceRestart /\ []~QueueStepStages => []StopSticks
<1>1. Init => StopInv
  BY DEF Init, StopInv, IdleHttp
<1>2. IndInv /\ StopInv /\ ~InPlaceRestart /\ ~QueueStepStages /\ [Next]_vars => StopInv'
  BY StopStep
<1>3. StopInv => StopSticks
  BY DEF StopInv, StopSticks
<1> QED
  BY <1>1, <1>2, <1>3, Invariance, PTL DEF Spec

-----------------------------------------------------------------------------
(* No cast is lost.  A start that no cast has numbered (a queue step, a      *)
(* scrub, a live change of the resolution) takes a generation of its own     *)
(* when it comes to doPlay, and may take it over a newer cast: the run       *)
(* PlaySessionPromotion shows it.  What casts, stops, polls and progress do  *)
(* to each other without one is proved here.                                 *)

\* A start without a generation of its own stages a title, or comes to doPlay.
UnnumberedStart ==
    \E w \in Threads : pc[w] = "stepFetch" \/ (pc[w] = "enter" /\ task[w].gen = 0)

\* The thread that still has to settle the newest generation.
Carrier(w) == task[w].gen # 0 /\ task[w].gen = playGen

\* A numbered thread is on its way to doPlay, or in it.
NumberedPcs == HandoffPcs \cup {"plant", "enter", "resolve"}
Numbered == \A w \in Threads : task[w].gen # 0 => pc[w] \in NumberedPcs

\* The doPlay of w finds that it is no longer wanted, and returns.
Refused(w) ==
    ~(Current(w) /\ comp.wantPlay /\ acceptsPlayRequest(comp, task[w].key))

(* The generation moves with a cast and with a stop, and settles inside the handoff. *)
LEMMA GenerationMoves ==
    ASSUME IndInv, ~UnnumberedStart, [Next]_vars
    PROVE  \/ /\ playGen' = playGen /\ (settled' = settled \/ settled' = playGen)
              /\ HttpKeeps
           \/ /\ http.pc = "idle" /\ http'.pc = "plant" /\ http'.gen = playGen'
              /\ playGen' = playGen + 1 /\ player' = player /\ comp' = bindCast(comp)
           \/ StopPlayer /\ http'.pc = "stopForget" /\ playGen' = playGen + 1
<1> USE DEF locks, history, HttpKeeps
<1>0. TypeOK /\ HandoffOwnsNewest
  BY DEF IndInv, SlotInv
<1>1. CASE HttpThread
  <2>1. ASSUME NEW key, NEW off, NEW present, PlayMediaQueued(key, off, present)
        PROVE  /\ http.pc = "idle" /\ http'.pc = "plant" /\ http'.gen = playGen'
               /\ playGen' = playGen + 1 /\ player' = player /\ comp' = bindCast(comp)
    BY <2>1 DEF PlayMediaQueued, Receive, TakeGeneration, IdleHttp
  <2>2. CASE StopPlayer
    BY <1>0, <2>2 DEF StopPlayer, TakeGeneration, TypeOK, HttpStates
  <2>3. ASSUME NEW w \in Threads, NEW delta,
               PlayMediaPlant(w) \/ SeekPlant(w) \/ SkipNext(w) \/ Step(w, delta)
        PROVE  UNCHANGED <<playGen, settled>> /\ HttpKeeps
    BY <2>3 DEF PlayMediaPlant, SeekPlant, SkipNext, Step, IdleHttp
  <2>4. ASSUME NEW x, Control(x) \/ Seek(x) PROVE UNCHANGED <<playGen, settled>> /\ HttpKeeps
    <3>1. ASSUME Control(x) PROVE http'.pc # "plant"
      BY <3>1 DEF Control, IdleHttp
    <3>2. ASSUME Seek(x) PROVE http'.pc # "plant"
      BY <3>2 DEF Seek, IdleHttp
    <3> QED
      BY <2>4, <3>1, <3>2 DEF Control, Seek
  <2>5. CASE ControlState \/ ControlPlayer \/ StopClear \/ StopForget
    BY <1>0, <2>5 DEF ControlState, ControlPlayer, StopClear, StopForget, IdleHttp, TypeOK, HttpStates
  <2>6. CASE SkipPrevious \/ SkipPreviousCall \/ SkipPreviousPlant
    <3>1. SkipPrevious => http'.pc # "plant"
      BY DEF SkipPrevious, IdleHttp
    <3>2. SkipPreviousCall \/ SkipPreviousPlant => http'.pc # "plant"
      BY <1>0 DEF SkipPreviousCall, SkipPreviousPlant, IdleHttp, TypeOK, HttpStates
    <3> QED
      BY <2>6, <3>1, <3>2 DEF SkipPrevious, SkipPreviousCall, SkipPreviousPlant
  <2>7. CASE Poll \/ Unsubscribe \/ Acknowledged \/ \E key \in Keys : Mirror(key)
    BY <2>7 DEF Poll, Unsubscribe, Acknowledged, Mirror
  <2> QED
    BY <1>1, <2>1, <2>2, <2>3, <2>4, <2>5, <2>6, <2>7 DEF HttpThread
<1>2. ASSUME NEW w \in Threads, DoPlay(w)
      PROVE  UNCHANGED <<playGen, http>> /\ (settled' = settled \/ settled' = playGen)
  <2>1. CASE DoPlayEnter(w)
    BY <2>1 DEF DoPlayEnter, UnnumberedStart
  <2>2. CASE DoPlayLayout(w) \/ DoPlayPlay(w)
    <3>1. task[w].gen = playGen
      BY <1>0, <2>2 DEF HandoffOwnsNewest, HandoffPcs, SuspendedPcs, DoPlayLayout, DoPlayPlay
    <3> QED
      BY <2>2, <3>1 DEF DoPlayLayout, DoPlayPlay, closedStopPlay
  <2>3. CASE ~DoPlayEnter(w) /\ ~DoPlayLayout(w) /\ ~DoPlayPlay(w)
    BY <1>2, <2>3 DEF DoPlay, DoPlayAccept, DoPlayStop, DoPlaySuspend, DoPlayBind, DoPlayStartAt,
                      DoPlaySeed, DoPlayBuffering, DoPlayCommit, DoPlayBegin
  <2> QED
    BY <2>1, <2>2, <2>3
<1>3. ASSUME NEW w \in Threads, Detached(w), ~DoPlay(w)
      PROVE  UNCHANGED <<playGen, http, settled>>
  BY <1>3 DEF Detached, PlayPlant, SeekStart, SeekMsRead, SeekMsPlay, StepRead, StepFetched,
              StepPlant, StepReturn, AutoStop
<1>4. CASE MediaThread \/ LocalControls \/ Waiting \/ UNCHANGED vars
  BY <1>4 DEF MediaThread, MediaBegins, MediaProgress, MediaEnded, MediaAborted, MediaUnstarted,
              LocalControls, InputStop, InputPlayPause, InputSeekPlay, InputSeekRead,
              ContentResolutionChanged, Waiting, vars
<1> QED
  BY <1>1, <1>2, <1>3, <1>4 DEF Next

\* While the old title may still be running.
EarlyPcs == {"plant", "enter", "resolve", "stop"}

\* w keeps the cast it carries, and stops the old title before it starts its own.
Carries(w) ==
    /\ task'[w].gen = task[w].gen
    /\ task[w].gen # 0
         => /\ task'[w].key = task[w].key /\ pc'[w] \in NumberedPcs
            /\ pc[w] \in EarlyPcs => pc'[w] \in EarlyPcs \/ player' = StoppedPlayer

\* w ends, having settled its generation or found that it is no longer wanted.
Ends(w) ==
    /\ task'[w].gen = 0 /\ UNCHANGED <<playGen, http>>
    /\ (pc[w] \notin EarlyPcs /\ settled' = task[w].gen) \/ Refused(w)

(* The steps of w itself.                                                   *)
LEMMA OwnMoves ==
    ASSUME IndInv, Numbered, ~UnnumberedStart, NEW w \in Threads, Detached(w)
    PROVE  Carries(w) \/ Ends(w)
<1> USE TaskFields DEF locks, session, history
<1>0. TypeOK /\ StepKinds /\ NoTask.gen = 0
  BY DEF IndInv, SlotInv, NoTask
<1>1. ASSUME NEW at, Goto(w, at), UNCHANGED task, at \in NumberedPcs,
             pc[w] \in EarlyPcs => at \in EarlyPcs \/ player' = StoppedPlayer
      PROVE  Carries(w)
  BY <1>0, <1>1 DEF Goto, Carries, TypeOK
<1>2. Finish(w) => task'[w].gen = 0
  BY <1>0 DEF Finish, TypeOK
<1>3. CASE pc[w] \in NumberedPcs
  <2>1. CASE PlayPlant(w)
    BY <1>1, <2>1 DEF PlayPlant, NumberedPcs, EarlyPcs
  <2>2. CASE DoPlayEnter(w)
    BY <1>1, <2>2 DEF DoPlayEnter, UnnumberedStart, NumberedPcs, EarlyPcs
  <2>3. CASE DoPlayAccept(w)
    <3>1. CASE Current(w) /\ acceptsPlayRequest(comp, task[w].key)
      <4>1. PICK d \in Durations[task[w].key] : task' = [task EXCEPT ![w].dur = d]
        BY <2>3, <3>1 DEF DoPlayAccept
      <4>2. task'[w].gen = task[w].gen /\ task'[w].key = task[w].key
        BY <1>0, <4>1 DEF TypeOK, Tasks
      <4>3. pc'[w] = "stop"
        BY <1>0, <2>3, <3>1 DEF DoPlayAccept, Goto, TypeOK
      <4> QED
        BY <4>2, <4>3 DEF Carries, NumberedPcs, HandoffPcs, EarlyPcs
    <3>2. CASE ~(Current(w) /\ acceptsPlayRequest(comp, task[w].key))
      BY <1>2, <2>3, <3>2 DEF DoPlayAccept, Ends, Refused
    <3> QED
      BY <3>1, <3>2
  <2>4. CASE DoPlayStop(w)
    BY <1>1, <2>4 DEF DoPlayStop, playerStop, NumberedPcs, HandoffPcs
  <2>5. CASE DoPlaySuspend(w) \/ DoPlaySeed(w) \/ DoPlayBuffering(w)
    BY <1>1, <2>5 DEF DoPlaySuspend, DoPlaySeed, DoPlayBuffering, NumberedPcs, HandoffPcs,
                      SuspendedPcs, EarlyPcs
  <2>6. CASE DoPlayLayout(w)
    <3>1. CASE closedStopPlay(w, task[w].off)
      BY <1>2, <2>6, <3>1 DEF DoPlayLayout, closedStopPlay, Ends, EarlyPcs
    <3>2. CASE ~closedStopPlay(w, task[w].off)
      BY <1>1, <2>6, <3>2 DEF DoPlayLayout, NumberedPcs, HandoffPcs, SuspendedPcs, EarlyPcs
    <3> QED
      BY <3>1, <3>2
  <2>7. CASE DoPlayBind(w)
    BY <1>1, <1>2, <2>7 DEF DoPlayBind, Ends, Refused, NumberedPcs, HandoffPcs, SuspendedPcs,
                            EarlyPcs
  <2>8. CASE DoPlayStartAt(w)
    <3>1. CASE Current(w) /\ comp.wantPlay
      <4>1. task' = [task EXCEPT ![w].start = startAt(w)] /\ Goto(w, "seed") /\ pc[w] = "startAt"
        BY <2>8, <3>1 DEF DoPlayStartAt
      <4>2. task'[w].gen = task[w].gen /\ task'[w].key = task[w].key /\ pc'[w] = "seed"
        BY <1>0, <4>1 DEF TypeOK, Tasks, Goto
      <4> QED
        BY <4>1, <4>2 DEF Carries, NumberedPcs, HandoffPcs, SuspendedPcs, EarlyPcs
    <3>2. CASE ~(Current(w) /\ comp.wantPlay)
      BY <1>2, <2>8, <3>2 DEF DoPlayStartAt, Ends, Refused
    <3> QED
      BY <3>1, <3>2
  <2>9. CASE DoPlayCommit(w)
    BY <1>1, <1>2, <2>9 DEF DoPlayCommit, Ends, Refused, NumberedPcs, HandoffPcs, SuspendedPcs,
                            EarlyPcs
  <2>10. CASE DoPlayBegin(w)
    BY <1>1, <2>10 DEF DoPlayBegin, NumberedPcs, HandoffPcs, SuspendedPcs, EarlyPcs
  <2>11. CASE DoPlayPlay(w)
    BY <1>2, <2>11 DEF DoPlayPlay, closedStopPlay, Ends, EarlyPcs
  <2> QED
    BY <1>3, <2>1, <2>2, <2>3, <2>4, <2>5, <2>6, <2>7, <2>8, <2>9, <2>10, <2>11
       DEF Detached, DoPlay, SeekStart, SeekMsRead, SeekMsPlay, StepRead, StepFetched, StepPlant,
           StepReturn, AutoStop, NumberedPcs, HandoffPcs, SuspendedPcs
<1>4. CASE pc[w] \notin NumberedPcs
  <2>1. task[w].gen = 0
    BY <1>4 DEF Numbered
  <2>2. pc[w] \in {"stepRead", "stepFetch"} /\ NoQueueStep(w) => task'[w].gen = 0
    <3> SUFFICES ASSUME pc[w] \in {"stepRead", "stepFetch"}, NoQueueStep(w)
                 PROVE  task'[w].gen = 0
      OBVIOUS
    <3>1. task[w].kind \in {"auto", "next", "prev"}
      BY <1>0 DEF StepKinds
    <3>2. \/ task' = task \/ Finish(w)
          \/ task' = [task EXCEPT ![w] = [NoTask EXCEPT !.kind = "seek", !.seekGen = seekGen + 1]]
      BY <3>1 DEF NoQueueStep
    <3>3. [NoTask EXCEPT !.kind = "seek", !.seekGen = seekGen + 1].gen = 0
      BY DEF NoTask
    <3> QED
      BY <1>0, <1>2, <2>1, <3>2, <3>3 DEF TypeOK
  <2>3. task'[w].gen = 0
    <3>1. ASSUME NEW t, task' = [task EXCEPT ![w] = t], t.gen = 0 PROVE task'[w].gen = 0
      BY <1>0, <3>1 DEF TypeOK
    <3>2. CASE SeekStart(w)
      <4>1. [task[w] EXCEPT !.key = lastPlay.key].gen = 0
        BY <1>0, <2>1 DEF Tasks
      <4> QED
        BY <1>2, <3>1, <3>2, <4>1 DEF SeekStart
    <3>3. CASE SeekMsRead(w)
      <4>1. [task[w] EXCEPT !.key = player.url, !.dur = player.dur,
                            !.start = Clamp(task[w].off, player.dur)].gen = 0
        BY <1>0, <2>1 DEF Tasks
      <4>2. Finish(w) \/ task' = [task EXCEPT ![w] = [task[w] EXCEPT !.key = player.url,
                                  !.dur = player.dur, !.start = Clamp(task[w].off, player.dur)]]
        BY <1>0, <3>3 DEF SeekMsRead, TypeOK
      <4> QED
        BY <1>2, <3>1, <4>1, <4>2
    <3>4. CASE SeekMsPlay(w)
      BY <1>2, <3>4 DEF SeekMsPlay
    <3>5. CASE StepRead(w)
      <4>1. [task[w] EXCEPT !.key = lastPlay.key].gen = 0
        BY <1>0, <2>1 DEF Tasks
      <4> QED
        BY <2>2, <3>1, <3>5, <4>1 DEF StepRead
    <3>6. ~StepFetched(w)
      BY DEF StepFetched, UnnumberedStart
    <3>7. CASE StepPlant(w) \/ StepReturn(w) \/ AutoStop(w)
      BY <1>0, <2>1, <3>1, <3>7 DEF StepPlant, StepReturn, AutoStop
    <3> QED
      BY <1>4, <3>2, <3>3, <3>4, <3>5, <3>6, <3>7
         DEF Detached, DoPlay, PlayPlant, DoPlayEnter, DoPlayAccept, DoPlayStop, DoPlaySuspend,
             DoPlayLayout, DoPlayBind, DoPlayStartAt, DoPlaySeed, DoPlayBuffering, DoPlayCommit,
             DoPlayBegin, DoPlayPlay, NumberedPcs, HandoffPcs, SuspendedPcs
  <2> QED
    BY <2>1, <2>3 DEF Carries
<1> QED
  BY <1>3, <1>4

(* The steps of all threads, as a slot sees them.                           *)
LEMMA SlotMoves ==
    ASSUME IndInv, Numbered, ~UnnumberedStart, [Next]_vars, NEW w \in Threads
    PROVE  Carries(w) \/ Ends(w) \/ PlayMediaPlant(w)
<1> USE TaskFields DEF locks, session, history
<1>0. TypeOK /\ StepKinds /\ NoTask.gen = 0
  BY DEF IndInv, SlotInv, NoTask
<1>1. ASSUME pc'[w] = pc[w], task'[w].gen = task[w].gen, task'[w].key = task[w].key
      PROVE  Carries(w)
  BY <1>1 DEF Carries, Numbered
<1>2. ASSUME NEW v \in Threads, NEW at, NEW t, Spawn(v, at, t), v = w => t.gen = 0
      PROVE  Carries(w)
  <2>1. CASE v = w
    <3>1. task[w].gen = 0
      BY <1>2, <2>1 DEF Spawn, Numbered, NumberedPcs, HandoffPcs, SuspendedPcs
    <3> QED
      BY <1>0, <1>2, <2>1, <3>1 DEF Spawn, TypeOK, Carries
  <2>2. CASE v # w
    BY <1>0, <1>1, <1>2, <2>2 DEF Spawn, TypeOK
  <2> QED
    BY <2>1, <2>2
<1>3. ASSUME NEW v \in Threads, NEW ms, seekAsync(v, ms) PROVE Carries(w)
  <2>1. [NoTask EXCEPT !.kind = "seek", !.off = ms, !.seekGen = seekGen + 1].gen = 0
    BY DEF NoTask
  <2> QED
    BY <1>2, <1>3, <2>1 DEF seekAsync
<1>4. CASE HttpThread
  <2>1. ASSUME NEW key, NEW off, NEW present, PlayMediaQueued(key, off, present) PROVE Carries(w)
    <3>1. task'[w].gen = task[w].gen /\ task'[w].key = task[w].key /\ pc' = pc
      BY <2>1 DEF PlayMediaQueued, Overtaken, Tasks
    <3> QED
      BY <1>1, <3>1
  <2>2. ASSUME NEW v \in Threads, PlayMediaPlant(v), v # w PROVE Carries(w)
    BY <1>2, <2>2 DEF PlayMediaPlant
  <2>3. ASSUME NEW v \in Threads, SeekPlant(v) PROVE Carries(w)
    BY <1>3, <2>3 DEF SeekPlant
  <2>4. ASSUME NEW v \in Threads, NEW delta \in {-1, 1}, Step(v, delta) PROVE Carries(w)
    BY <1>3, <2>4 DEF Step
  <2>5. ASSUME NEW v \in Threads, SkipNext(v) PROVE Carries(w)
    <3>1. [NoTask EXCEPT !.kind = "next"].gen = 0
      BY DEF NoTask
    <3> QED
      BY <1>2, <2>5, <3>1 DEF SkipNext
  <2>6. CASE SkipPreviousCall
    <3>1. ASSUME NEW v \in Threads,
                 Spawn(v, "stepRead", [NoTask EXCEPT !.kind = "prev", !.start = comp.timeMs])
          PROVE  Carries(w)
      <4>1. [NoTask EXCEPT !.kind = "prev", !.start = comp.timeMs].gen = 0
        BY DEF NoTask
      <4> QED
        BY <1>2, <3>1, <4>1
    <3> QED
      BY <1>1, <1>3, <2>6, <3>1 DEF SkipPreviousCall
  <2>7. ASSUME UNCHANGED <<pc, task>> PROVE Carries(w)
    BY <1>1, <2>7
  <2>8. ASSUME NEW x, Control(x) \/ Seek(x) PROVE Carries(w)
    BY <2>7, <2>8 DEF Control, Seek
  <2>9. CASE ControlState \/ ControlPlayer \/ StopClear \/ StopPlayer \/ StopForget
             \/ SkipPrevious \/ SkipPreviousPlant
    BY <2>7, <2>9 DEF ControlState, ControlPlayer, StopClear, StopPlayer, StopForget, SkipPrevious,
                      SkipPreviousPlant
  <2>10. CASE Poll \/ Unsubscribe \/ Acknowledged \/ \E key \in Keys : Mirror(key)
    BY <2>7, <2>10 DEF Poll, Unsubscribe, Acknowledged, Mirror
  <2> QED
    BY <1>4, <2>1, <2>2, <2>3, <2>4, <2>5, <2>6, <2>8, <2>9, <2>10 DEF HttpThread
<1>5. ASSUME NEW v \in Threads, Detached(v), v # w PROVE Carries(w)
  <2>1. ASSUME NEW at, Goto(v, at) PROVE pc'[w] = pc[w]
    BY <1>0, <1>5, <2>1 DEF Goto, TypeOK
  <2>2. ASSUME NEW t, task' = [task EXCEPT ![v] = t] PROVE task'[w] = task[w]
    BY <1>0, <1>5, <2>2 DEF TypeOK
  <2>3. Finish(v) => pc'[w] = pc[w] /\ task'[w] = task[w]
    BY <1>0, <1>5 DEF Finish, TypeOK
  <2>4. pc[v] \in {"stepRead", "stepFetch"} /\ NoQueueStep(v)
          => pc'[w] = pc[w] /\ task'[w] = task[w]
    <3> SUFFICES ASSUME pc[v] \in {"stepRead", "stepFetch"}, NoQueueStep(v)
                 PROVE  pc'[w] = pc[w] /\ task'[w] = task[w]
      OBVIOUS
    <3>1. task[v].kind \in {"auto", "next", "prev"}
      BY <1>0 DEF StepKinds
    <3> QED
      BY <2>1, <2>2, <2>3, <3>1 DEF NoQueueStep
  <2>5. ASSUME DoPlay(v) PROVE pc'[w] = pc[w] /\ task'[w] = task[w]
    <3>1. CASE DoPlayEnter(v)
      BY <2>1, <3>1 DEF DoPlayEnter, UnnumberedStart
    <3>2. CASE DoPlayAccept(v)
      <4>1. CASE Finish(v)
        BY <2>3, <4>1
      <4>2. CASE ~Finish(v)
        <5>1. Goto(v, "stop") /\ \E d : task' = [task EXCEPT ![v].dur = d]
          BY <3>2, <4>2 DEF DoPlayAccept
        <5> QED
          BY <1>0, <1>5, <2>1, <5>1 DEF TypeOK
      <4> QED
        BY <4>1, <4>2
    <3>3. CASE DoPlayStartAt(v)
      <4>1. CASE Finish(v)
        BY <2>3, <4>1
      <4>2. CASE ~Finish(v)
        <5>1. Goto(v, "seed") /\ task' = [task EXCEPT ![v].start = startAt(v)]
          BY <3>3, <4>2 DEF DoPlayStartAt
        <5> QED
          BY <1>0, <1>5, <2>1, <5>1 DEF TypeOK
      <4> QED
        BY <4>1, <4>2
    <3> QED
      BY <2>1, <2>3, <2>5, <3>1, <3>2, <3>3
         DEF DoPlay, DoPlayStop, DoPlaySuspend, DoPlayLayout, DoPlayBind, DoPlaySeed,
             DoPlayBuffering, DoPlayCommit, DoPlayBegin, DoPlayPlay, closedStopPlay
  <2>6. ASSUME SeekStart(v) \/ SeekMsRead(v) \/ SeekMsPlay(v)
        PROVE  pc'[w] = pc[w] /\ task'[w] = task[w]
    <3>1. Finish(v) \/ (task'[w] = task[w] /\ \E at : Goto(v, at))
      BY <1>0, <1>5, <2>6 DEF SeekStart, SeekMsRead, SeekMsPlay, TypeOK
    <3> QED
      BY <2>1, <2>3, <3>1
  <2>7. ASSUME PlayPlant(v) \/ StepPlant(v) \/ StepReturn(v) \/ AutoStop(v)
        PROVE  pc'[w] = pc[w] /\ task'[w] = task[w]
    BY <2>1, <2>2, <2>7 DEF PlayPlant, StepPlant, StepReturn, AutoStop
  <2>8. ASSUME StepRead(v) \/ StepFetched(v) PROVE pc'[w] = pc[w] /\ task'[w] = task[w]
    <3>1. CASE pc[v] \in {"stepRead", "stepFetch"} /\ NoQueueStep(v)
      BY <2>4, <3>1
    <3>2. CASE ~(pc[v] \in {"stepRead", "stepFetch"} /\ NoQueueStep(v))
      <4>1. task'[w] = task[w] /\ \E at : Goto(v, at)
        BY <1>0, <1>5, <2>8, <3>2 DEF StepRead, StepFetched, TypeOK
      <4> QED
        BY <2>1, <4>1
    <3> QED
      BY <3>1, <3>2
  <2>9. pc'[w] = pc[w] /\ task'[w] = task[w]
    BY <1>5, <2>5, <2>6, <2>7, <2>8 DEF Detached
  <2> QED
    BY <1>1, <2>9
<1>6. ASSUME Detached(w) PROVE Carries(w) \/ Ends(w)
  BY <1>6, OwnMoves
<1>7. CASE MediaThread \/ LocalControls \/ Waiting \/ UNCHANGED vars
  <2>1. UNCHANGED <<pc, task>> \/ MediaEnded \/ \E v \in Threads : ContentResolutionChanged(v)
    BY <1>7 DEF MediaThread, MediaBegins, MediaProgress, MediaAborted, MediaUnstarted,
                LocalControls, InputStop, InputPlayPause, InputSeekPlay, InputSeekRead, Waiting, vars
  <2>2. CASE UNCHANGED <<pc, task>>
    BY <1>1, <2>2
  <2>3. CASE MediaEnded
    <3>1. [NoTask EXCEPT !.kind = "auto", !.start = player.pos, !.dur = player.dur].gen = 0
      BY DEF NoTask
    <3> QED
      BY <1>2, <2>2, <2>3, <3>1 DEF MediaEnded
  <2>4. ASSUME NEW v \in Threads, ContentResolutionChanged(v) PROVE Carries(w)
    <3> DEFINE t == [NoTask EXCEPT !.kind = "osd", !.key = lastPlay.key,
                         !.off = IF player.pos > 0 THEN player.pos ELSE lastPlay.off]
    <3>1. Spawn(v, "enter", t)
      BY <2>4 DEF ContentResolutionChanged
    <3>2. t.gen = 0
      BY DEF NoTask
    <3> HIDE DEF t
    <3> QED
      BY <1>2, <3>1, <3>2
  <2> QED
    BY <2>1, <2>2, <2>3, <2>4
<1> QED
  BY <1>4, <1>5, <1>6, <1>7 DEF Next

(* A report, a plant and a seed leave a cast on, under its key.             *)
LEMMA ReportKeeps ==
    ASSUME NEW c \in Companions, c.wantPlay, NEW st \in States, NEW t \in Nat, NEW d \in Nat
    PROVE  setState(c, st, t, d).wantPlay /\ setState(c, st, t, d).pendingKey = c.pendingKey
BY DEF setState, IgnoredAfterStop, Companions

LEMMA PlantKeeps ==
    ASSUME NEW c \in Companions, c.wantPlay, NEW t \in Nat, NEW d \in Nat
    PROVE  plantSeek(c, t, d).wantPlay /\ plantSeek(c, t, d).pendingKey = c.pendingKey
BY DEF plantSeek, Companions

LEMMA SeedKeeps ==
    ASSUME NEW c \in Companions, c.wantPlay, NEW t \in Nat, NEW d \in Nat
    PROVE  /\ seedPlaybackPosition(c, t, d).wantPlay
           /\ seedPlaybackPosition(c, t, d).pendingKey = c.pendingKey
BY DEF seedPlaybackPosition, Companions

(* A cast that is on stays on under its key, unless the doPlay inside the handoff *)
(* binds it, a stop takes it or the next cast comes.                              *)
LEMMA CastHeld ==
    ASSUME "mirror" \notin Commands, IndInv, ~UnnumberedStart, [Next]_vars, comp.wantPlay
    PROVE  \/ comp'.wantPlay /\ comp'.pendingKey = comp.pendingKey
           \/ \E v \in Threads : /\ pc[v] = "bind" /\ acceptsPlayRequest(comp, task[v].key)
                                 /\ comp'.wantPlay /\ comp'.pendingKey = task[v].key
                                 /\ http' = http
           \/ StopClear
           \/ \E v \in Threads : PlayMediaPlant(v)
<1> USE FieldTypes, TaskFields
<1>0. TypeOK /\ comp \in Companions /\ 0 \in Nat /\ "stopped" \in States
  BY DEF IndInv, TypeOK, States
<1>1. ASSUME ReportSection PROVE comp'.wantPlay /\ comp'.pendingKey = comp.pendingKey
  <2>1. PICK st \in States, t \in Nat, d \in Nat : comp' = setState(comp, st, t, d)
    BY <1>1 DEF ReportSection
  <2>2. /\ setState(comp, st, t, d).wantPlay
        /\ setState(comp, st, t, d).pendingKey = comp.pendingKey
    BY <1>0, ReportKeeps
  <2> QED
    BY <2>1, <2>2
<1>2. ASSUME RequestSection PROVE comp'.wantPlay /\ comp'.pendingKey = comp.pendingKey
  BY <1>0, <1>2 DEF RequestSection, bindCast, pollTimeline, dropCast, Companions
<1>3. ASSUME PlantSection PROVE comp'.wantPlay /\ comp'.pendingKey = comp.pendingKey
  <2>1. PICK t \in Nat, d \in Nat : comp' = plantSeek(comp, t, d) \/ comp' = plantSeek(bindCast(comp), t, d)
    BY <1>3 DEF PlantSection
  <2>2. bindCast(comp) \in Companions /\ bindCast(comp).wantPlay
        /\ bindCast(comp).pendingKey = comp.pendingKey
    BY <1>0 DEF bindCast, Companions
  <2> QED
    BY <1>0, <2>1, <2>2, PlantKeeps
<1>4. ASSUME NEW v \in Threads, SeedSection(v)
      PROVE  comp'.wantPlay /\ comp'.pendingKey = comp.pendingKey
  <2>1. task[v].start \in Nat /\ task[v].dur \in Nat
    BY <1>0
  <2> QED
    BY <1>0, <1>4, <2>1, SeedKeeps DEF SeedSection
<1>5. ASSUME NEW v \in Threads, Detached(v), BindSection(v)
      PROVE  /\ pc[v] = "bind" /\ acceptsPlayRequest(comp, task[v].key)
             /\ comp'.wantPlay /\ comp'.pendingKey = task[v].key /\ http' = http
  <2>1. http' = http
    BY <1>5 DEF BindSection, Detached, DoPlay, PlayPlant, DoPlayEnter, DoPlayAccept, DoPlayStop,
                DoPlaySuspend, DoPlayLayout, DoPlayBind, DoPlayStartAt, DoPlaySeed,
                DoPlayBuffering, DoPlayCommit, DoPlayBegin, DoPlayPlay, SeekStart, SeekMsRead, SeekMsPlay,
                StepRead, StepFetched, StepPlant, StepReturn, AutoStop
  <2> QED
    BY <1>0, <1>5, <2>1 DEF BindSection, bindMedia, Companions
<1>6. CASE HttpThread
  BY <1>1, <1>2, <1>3, <1>6, HttpSection
<1>7. ASSUME NEW v \in Threads, Detached(v)
      PROVE  \/ comp'.wantPlay /\ comp'.pendingKey = comp.pendingKey
             \/ /\ pc[v] = "bind" /\ acceptsPlayRequest(comp, task[v].key)
                /\ comp'.wantPlay /\ comp'.pendingKey = task[v].key /\ http' = http
  BY <1>1, <1>4, <1>5, <1>7, DetachedSection DEF UnnumberedStart
<1>8. CASE MediaThread \/ LocalControls \/ Waiting \/ UNCHANGED vars
  BY <1>1, <1>8, OtherSection
<1> QED
  BY <1>6, <1>7, <1>8 DEF Next

\* The newest generation has settled, was taken by a stop, or is carried: by the HTTP
\* thread between the two halves of a cast, then by a thread for which the timeline
\* still waits under its key.
Settles ==
    \/ stopped \/ settled = playGen
    \/ http.pc \in {"plant", "stopPlayer", "stopForget"}
    \/ \E w \in Threads : Carrier(w)

Awaited ==
    http.pc \notin {"plant", "stopPlayer"} =>
        \A w \in Threads : Carrier(w) => comp.wantPlay /\ comp.pendingKey = task[w].key

CarryInv ==
    /\ Numbered /\ Settles /\ Awaited
    /\ http.pc = "plant" => http.gen = playGen

(* The carrier of the newest generation is not refused: nothing but a newer cast or a *)
(* stop takes its cast away.                                                          *)
LEMMA CarrierStays ==
    ASSUME IndInv, CarryInv, NEW w \in Threads, Carrier(w), Ends(w)
    PROVE  settled' = playGen' \/ http'.pc \in {"plant", "stopPlayer"}
BY DEF CarryInv, Awaited, Carrier, Ends, Refused, Current, acceptsPlayRequest

(* The HTTP thread that holds a queued cast plants it, or waits.            *)
LEMMA PlantMoves ==
    ASSUME TypeOK, http.pc = "plant", [Next]_vars
    PROVE  http' = http \/ \E v \in Threads : PlayMediaPlant(v)
<1>1. CASE HttpThread
  BY <1>1 DEF HttpThread, PlayMediaQueued, Mirror, SeekPlant, SkipNext, Step, Control, ControlState,
              ControlPlayer, StopClear, StopPlayer, StopForget, Seek, SkipPrevious,
              SkipPreviousCall, SkipPreviousPlant, Poll, Unsubscribe, Acknowledged, Receive
<1> QED
  BY <1>1, HttpSteps

(* Every step carries the newest cast on.                                   *)
LEMMA CarryStep ==
    ASSUME "mirror" \notin Commands, IndInv, CarryInv, ~UnnumberedStart, [Next]_vars
    PROVE  CarryInv'
<1> USE FieldTypes, TaskFields
<1>0. /\ TypeOK /\ Generations /\ Keyed /\ HandoffOwnsNewest /\ playGen \in Nat
      /\ Numbered /\ Settles /\ Awaited /\ (http.pc = "plant" => http.gen = playGen)
  BY DEF IndInv, SlotInv, TypeOK, CarryInv
<1>1. \A w \in Threads : task'[w].gen # 0 =>
          \/ PlayMediaPlant(w)
          \/ task'[w].gen = task[w].gen /\ task'[w].key = task[w].key /\ pc'[w] \in NumberedPcs
  BY <1>0, SlotMoves DEF Carries, Ends
<1>2. ASSUME NEW v \in Threads, PlayMediaPlant(v)
      PROVE  /\ http.pc = "plant" /\ pc'[v] = "plant" /\ task'[v].gen = playGen
             /\ task'[v].key = http.key /\ http'.pc = "idle" /\ playGen' = playGen
             /\ comp'.wantPlay /\ comp'.pendingKey = http.key
  <2>1. /\ http.pc = "plant" /\ comp' = stagePlay(comp, http.key, http.ms)
        /\ http'.pc = "idle" /\ playGen' = playGen
        /\ Spawn(v, "plant", [NoTask EXCEPT !.kind = "play", !.key = http.key, !.off = http.ms,
                                 !.present = http.present, !.gen = http.gen])
    BY <1>2 DEF PlayMediaPlant, IdleHttp, locks
  <2>2. pc'[v] = "plant" /\ task'[v].gen = http.gen /\ task'[v].key = http.key
    BY <1>0, <2>1 DEF Spawn, TypeOK, NoTask
  <2>3. comp'.wantPlay /\ comp'.pendingKey = http.key
    BY <1>0, <2>1 DEF stagePlay, TypeOK, Companions
  <2> QED
    BY <1>0, <2>1, <2>2, <2>3
<1>3. Numbered'
  BY <1>1, <1>2 DEF Numbered, NumberedPcs
<1>4. http'.pc = "plant" => http'.gen = playGen'
  BY <1>0, GenerationMoves DEF HttpKeeps
<1>5. Awaited'
  <2> SUFFICES ASSUME http'.pc \notin {"plant", "stopPlayer"}, NEW w \in Threads, Carrier(w)'
               PROVE  comp'.wantPlay /\ comp'.pendingKey = task'[w].key
    BY DEF Awaited
  <2>1. task'[w].gen # 0 /\ task'[w].gen = playGen'
    BY DEF Carrier
  <2>2. CASE PlayMediaPlant(w)
    BY <1>2, <2>2
  <2>3. CASE ~PlayMediaPlant(w)
    <3>1. task'[w].gen = task[w].gen /\ task'[w].key = task[w].key
      BY <1>1, <2>1, <2>3
    <3>2. task[w].gen <= playGen
      BY <1>0 DEF Generations
    <3>3. playGen' = playGen /\ HttpKeeps /\ Carrier(w)
      BY <1>0, <2>1, <3>1, <3>2, GenerationMoves DEF Carrier
    <3>4. http.pc # "plant"
      BY <1>0, <3>3 DEF Carrier, Generations
    <3>5. http.pc # "stopPlayer"
      <4>1. ASSUME http.pc = "stopPlayer" PROVE StopPlayer \/ http' = http
        BY <1>0, <4>1, HttpSteps
      <4>2. ~StopPlayer
        BY <1>0, <3>3 DEF StopPlayer, TakeGeneration
      <4> QED
        BY <4>1, <4>2
    <3>6. comp.wantPlay /\ comp.pendingKey = task[w].key
      BY <1>0, <3>3, <3>4, <3>5 DEF Awaited
    <3>7. ~StopClear /\ \A v \in Threads : ~PlayMediaPlant(v)
      BY <3>4 DEF StopClear, PlayMediaPlant, IdleHttp
    <3>8. ASSUME NEW v \in Threads, pc[v] = "bind", acceptsPlayRequest(comp, task[v].key)
          PROVE  task[v].key = comp.pendingKey
      <4>1. task[v].key \in Keys /\ task[w].key \in Keys
        BY <1>0, <3>3, <3>8 DEF Keyed, KeyedPcs, HandoffPcs, SuspendedPcs, Numbered, NumberedPcs, Carrier
      <4> QED
        BY <3>6, <3>8, <4>1, NoKeyAssumption DEF acceptsPlayRequest
    <3> QED
      BY <3>1, <3>6, <3>7, <3>8, CastHeld
  <2> QED
    BY <2>2, <2>3
<1>6. Settles'
  <2>1. CASE stopped \/ http.pc = "stopForget"
    <3>1. stopped' \/ http'.pc \in {"plant", "stopForget"}
      BY <1>0, <2>1, HttpSteps DEF StopForget
    <3> QED
      BY <3>1 DEF Settles
  <2>2. CASE settled = playGen
    BY <2>2, GenerationMoves DEF Settles
  <2>3. CASE http.pc = "plant"
    <3>1. CASE \E v \in Threads : PlayMediaPlant(v)
      BY <1>0, <1>2, <3>1 DEF Settles, Carrier, Generations
    <3>2. CASE http' = http
      BY <2>3, <3>2 DEF Settles
    <3> QED
      BY <1>0, <2>3, <3>1, <3>2, PlantMoves
  <2>4. CASE http.pc = "stopPlayer"
    BY <1>0, <2>4, HttpSteps DEF Settles
  <2>5. ASSUME NEW w \in Threads, Carrier(w) PROVE Settles'
    <3>1. CASE Ends(w)
      BY <2>5, <3>1, CarrierStays DEF Settles, CarryInv
    <3>2. CASE PlayMediaPlant(w)
      BY <1>0, <1>2, <3>2 DEF Settles, Carrier, Generations
    <3>3. CASE Carries(w)
      BY <2>5, <3>3, GenerationMoves DEF Settles, Carrier, Carries
    <3> QED
      BY <1>0, <3>1, <3>2, <3>3, SlotMoves
  <2> QED
    BY <1>0, <2>1, <2>2, <2>3, <2>4, <2>5 DEF Settles
<1> QED
  BY <1>3, <1>4, <1>5, <1>6 DEF CarryInv

\* No cast is lost (main.cpp, playGen and acceptsPlayRequest): with nothing under way,
\* the newest generation is the one that started a demux, or reported that it could
\* not, unless a stop took it, however the resolves of the casts before it, stops,
\* polls, unsubscribes and progress crossed it.  A mirror is left out because it may
\* take the cast of a failed start away, and starts that no cast has numbered because
\* they promote themselves over a newer cast (the run PlaySessionPromotion).
THEOREM NoCastIsLost ==
    ASSUME "mirror" \notin Commands
    PROVE  Spec /\ []~UnnumberedStart => []NewestSettles
<1>1. Init => CarryInv
  BY DEF Init, CarryInv, Numbered, Settles, Awaited, Carrier, NoTask, IdleHttp
<1>2. IndInv /\ CarryInv /\ ~UnnumberedStart /\ [Next]_vars => CarryInv'
  BY CarryStep
<1>3. CarryInv => NewestSettles
  BY DEF CarryInv, Settles, NewestSettles, Quiet, Carrier, Numbered, NumberedPcs, HandoffPcs,
         SuspendedPcs
<1> QED
  BY <1>1, <1>2, <1>3, Invariance, PTL DEF Spec

\* The timeline names the running title, or something is under way that will stop it.
TitleInv ==
    player.run =>
        /\ player.url \in Keys
        /\ \/ comp.wantPlay /\ comp.pendingKey = player.url
           \/ http.pc \in {"plant", "stopPlayer"}
           \/ \E w \in Threads : Carrier(w) /\ pc[w] \in EarlyPcs

(* A cast that replaces the running title stops it before it binds its own. *)
LEMMA TitleStep ==
    ASSUME "mirror" \notin Commands, IndInv, CarryInv, StillInHandoff, TitleInv,
           ~UnnumberedStart, ~InPlaceRestart, [Next]_vars
    PROVE  TitleInv'
<1> USE TaskFields
<1>0. /\ TypeOK /\ Generations /\ Keyed /\ HandoffOwnsNewest /\ Numbered /\ Awaited
      /\ playGen \in Nat /\ (http.pc = "plant" => http.gen = playGen)
  BY DEF IndInv, SlotInv, TypeOK, CarryInv
<1>1. ASSUME NEW w \in Threads, DoPlayStarts(w) PROVE TitleInv'
  <2>1. /\ pc[w] = "play" /\ player'.url = task[w].key /\ UNCHANGED <<comp, http>>
    BY <1>1 DEF DoPlayStarts
  <2>2. Carrier(w) /\ task[w].key \in Keys
    BY <1>0, <2>1 DEF Carrier, HandoffOwnsNewest, Generations, Keyed, KeyedPcs, HandoffPcs,
                      SuspendedPcs
  <2>3. http.pc \in {"plant", "stopPlayer"} \/ (comp.wantPlay /\ comp.pendingKey = task[w].key)
    BY <1>0, <2>2 DEF Awaited
  <2> QED
    BY <2>1, <2>2, <2>3 DEF TitleInv
<1>2. ASSUME PlayerRests, player'.run PROVE TitleInv'
  <2>1. player.run /\ player'.url = player.url /\ player.url \in Keys /\ player' # StoppedPlayer
    BY <1>2 DEF PlayerRests, TitleInv, StoppedPlayer
  <2>2. SUFFICES \/ comp'.wantPlay /\ comp'.pendingKey = player.url
                 \/ http'.pc \in {"plant", "stopPlayer"}
                 \/ \E w \in Threads : Carrier(w)' /\ pc'[w] \in EarlyPcs
    BY <2>1 DEF TitleInv
  <2>3. ~StopPlayer
    BY <2>1 DEF StopPlayer, playerStop
  <2>4. (playGen' = playGen /\ HttpKeeps) \/ http'.pc = "plant"
    BY <2>3, GenerationMoves
  <2>5. ASSUME NEW v \in Threads, PlayMediaPlant(v) PROVE Carrier(v)' /\ pc'[v] \in EarlyPcs
    <3>1. /\ http.pc = "plant" /\ playGen' = playGen
          /\ Spawn(v, "plant", [NoTask EXCEPT !.kind = "play", !.key = http.key, !.off = http.ms,
                                   !.present = http.present, !.gen = http.gen])
      BY <2>5 DEF PlayMediaPlant, locks
    <3>2. pc'[v] = "plant" /\ task'[v].gen = http.gen
      BY <1>0, <3>1 DEF Spawn, TypeOK, NoTask
    <3>3. http.gen = playGen /\ http.gen # 0
      BY <1>0, <3>1 DEF Generations
    <3> QED
      BY <3>1, <3>2, <3>3 DEF Carrier, EarlyPcs
  <2>6. CASE http.pc = "plant"
    BY <1>0, <2>5, <2>6, PlantMoves
  <2>7. CASE http.pc = "stopPlayer"
    BY <1>0, <2>3, <2>7, HttpSteps DEF StopClear
  <2>8. CASE comp.wantPlay /\ comp.pendingKey = player.url
    <3>1. StopClear => http'.pc = "stopPlayer"
      BY DEF StopClear, IdleHttp
    <3>2. ASSUME NEW v \in Threads PROVE pc[v] # "bind"
      BY <2>1 DEF StillInHandoff, SuspendedPcs
    <3> QED
      BY <2>5, <2>8, <3>1, <3>2, CastHeld
  <2>9. ASSUME NEW w \in Threads, Carrier(w), pc[w] \in EarlyPcs
        PROVE  \/ http'.pc \in {"plant", "stopPlayer"}
               \/ \E v \in Threads : Carrier(v)' /\ pc'[v] \in EarlyPcs
    <3>1. CASE Carries(w)
      BY <2>1, <2>4, <2>9, <3>1 DEF Carries, Carrier
    <3>2. CASE Ends(w)
      BY <1>0, <2>9, <3>2 DEF Ends, Refused, Carrier, Current, Awaited, acceptsPlayRequest
    <3> QED
      BY <1>0, <2>5, <3>1, <3>2, SlotMoves
  <2> QED
    BY <2>1, <2>6, <2>7, <2>8, <2>9 DEF TitleInv
<1>3. CASE ~player'.run
  BY <1>3 DEF TitleInv
<1> QED
  BY <1>1, <1>2, <1>3, PlayerSteps DEF InPlaceRestart, InPlaceSeek, InputSeekPlay

\* With nothing under way, the timeline that the controllers poll names the title that
\* is running (Companion::timelineXml of what bindMedia bound): a cast that was refused
\* half way, a stop that crossed it or a progress report of the old demux never leaves
\* another title's key on it.  The same starts and the same mirror are left out as in
\* NoCastIsLost, and a seek that restarts the player in place, outside the handoff.
THEOREM TimelineNamesTheTitle ==
    ASSUME "mirror" \notin Commands
    PROVE  Spec /\ []~UnnumberedStart /\ []~InPlaceRestart => []TimelineTitle
<1> DEFINE Inv == CarryInv /\ StillInHandoff /\ TitleInv
<1>1. Init => Inv
  <2>1. Init => CarryInv
    BY DEF Init, CarryInv, Numbered, Settles, Awaited, Carrier, NoTask, IdleHttp
  <2> QED
    BY <2>1 DEF Init, StillInHandoff, TitleInv, StoppedPlayer
<1>2. IndInv /\ Inv /\ ~UnnumberedStart /\ ~InPlaceRestart /\ [Next]_vars => Inv'
  BY CarryStep, StillStep, TitleStep
<1>3. IndInv /\ Inv => TimelineTitle
  <2> SUFFICES ASSUME IndInv, CarryInv, TitleInv, Quiet, player.run
               PROVE  timelineXml(comp).key = player.url
    BY DEF TimelineTitle
  <2>1. \A w \in Threads : pc[w] \notin EarlyPcs
    BY DEF Quiet, EarlyPcs
  <2>2. comp.wantPlay /\ comp.pendingKey = player.url /\ player.url \in Keys
    BY <2>1 DEF TitleInv, Quiet
  <2> QED
    BY <2>2, NoKeyAssumption DEF timelineXml
<1> HIDE DEF Inv
<1> QED
  BY <1>1, <1>2, <1>3, Invariance, PTL DEF Spec
=============================================================================
