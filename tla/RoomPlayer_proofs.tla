-------------------------- MODULE RoomPlayer_proofs --------------------------
(***************************************************************************)
(* The audio element of a page for any set of tracks: it follows the       *)
(* playback the page knows, and so do the words beside it.                 *)
(***************************************************************************)
EXTENDS RoomPlayer, TLAPS

Readiness == {"empty", "loading", "metadata", "canplay", "failed"}

IInv == PlayerInv /\ OnlyLateLyricsMislead

LEMMA PlayerFields ==
  ASSUME NEW p \in Players
  PROVE  /\ p.made \in BOOLEAN /\ p.paused \in BOOLEAN /\ p.near \in BOOLEAN
         /\ p.pendingSeek \in BOOLEAN
         /\ p.src \in Tracks \union {NoTrack} /\ p.loaded \in Tracks \union {NoTrack}
         /\ p.ready \in Readiness
BY DEF Players, Readiness

LEMMA PlaybackFields ==
  ASSUME NEW s \in Playbacks
  PROVE  /\ s.track \in Tracks \union {NoTrack}
         /\ s.status \in {"stopped", "playing", "paused"}
         /\ s.track = NoTrack <=> s.status = "stopped"
BY DEF Playbacks

-----------------------------------------------------------------------------
(* What the operations on the element return *)

\* A player that differs only in what the invariant does not look at.
SameTrack(q, p) ==
  q \in Players /\ q.loaded = p.loaded /\ q.src = p.src

LEMMA EnsureAudioKeeps ==
  ASSUME NEW p \in Players
  PROVE  SameTrack(EnsureAudio(p), p)
BY DEF EnsureAudio, SameTrack, Players

LEMMA SeekAudioKeeps ==
  ASSUME NEW p \in Players
  PROVE  SameTrack(SeekAudio(p), p) /\ SeekAudio(p).paused = p.paused /\ SeekAudio(p).made = p.made
<1>1. CASE ~p.made
  BY <1>1 DEF SeekAudio, SameTrack
<1>2. CASE p.made
  <2>1. SeekAudio(p) = [p EXCEPT !.near = TRUE, !.pendingSeek = FALSE,
                                 !.ready = IF p.ready = "canplay" THEN "metadata" ELSE p.ready]
    BY <1>2 DEF SeekAudio, Players
  <2>2. (IF p.ready = "canplay" THEN "metadata" ELSE p.ready) \in Readiness
    BY PlayerFields DEF Readiness
  <2>3. QED
    BY <2>1, <2>2 DEF SameTrack, Players, Readiness
<1>3. QED
  BY <1>1, <1>2, PlayerFields

LEMMA LoadLoads ==
  ASSUME NEW p \in Players, NEW track \in Tracks
  PROVE  /\ Load(p, track) \in Players
         /\ Load(p, track).loaded = track /\ Load(p, track).src = track
BY DEF Load, Players

LEMMA NoSourceEmpties ==
  ASSUME NEW p \in Players
  PROVE  /\ NoSource(p) \in Players /\ NoSource(p).paused
         /\ NoSource(p).loaded = NoTrack /\ NoSource(p).src = NoTrack
BY DEF NoSource, Players

LEMMA RemovedKeeps ==
  ASSUME NEW p \in Players
  PROVE  /\ Removed(p) \in Players /\ ~Removed(p).made
         /\ Removed(p).loaded = p.loaded /\ Removed(p).src = NoTrack
BY DEF Removed, Players

\* Whatever a start is made to depend on.
LEMMA StartKeeps ==
  ASSUME NEW p \in Players, NEW starts \in BOOLEAN,
         NEW q, q = [p EXCEPT !.paused = p.paused /\ ~starts]
  PROVE  SameTrack(q, p) /\ q.made = p.made /\ (~q.paused => ~p.paused \/ starts)
<1>1. (p.paused /\ ~starts) \in BOOLEAN
  OBVIOUS
<1>2. QED
  BY <1>1 DEF SameTrack, Players

LEMMA SafePlayKeeps ==
  ASSUME NEW p \in Players, NEW status, NEW granted \in BOOLEAN
  PROVE  /\ SameTrack(SafePlay(p, status, granted), p)
         /\ SafePlay(p, status, granted).made = p.made
         /\ ~SafePlay(p, status, granted).paused =>
              ~p.paused \/ (status = "playing" /\ isListening)
<1> DEFINE starts == (p.made /\ status = "playing" /\ isListening /\ granted) = TRUE
<1>1. starts \in BOOLEAN /\ (starts => status = "playing" /\ isListening)
  OBVIOUS
<1>2. SafePlay(p, status, granted) = [p EXCEPT !.paused = p.paused /\ ~starts]
  BY DEF SafePlay, Players
<1> HIDE DEF starts
<1>3. QED
  BY <1>1, <1>2, StartKeeps

LEMMA ApplyAudioFollows ==
  ASSUME NEW p \in Players, NEW next \in Playbacks, NEW force, NEW moved,
         NEW granted \in BOOLEAN, p.src \in {NoTrack, p.loaded},
         NEW q, q = ApplyAudioPlayback(p, next, force, moved, granted)
  PROVE  /\ q \in Players /\ q.loaded = next.track /\ q.src \in {NoTrack, next.track}
         /\ ~q.paused => next.status = "playing" /\ isListening
<1> DEFINE e == EnsureAudio(p)
           r == IF e.loaded # next.track THEN Load(e, next.track)
                ELSE IF force \/ NeedsHardSeek(e, moved) THEN SeekAudio(e)
                ELSE e
<1>1. e \in Players /\ e.loaded = p.loaded /\ e.src = p.src
  BY EnsureAudioKeeps DEF SameTrack
<1>2. CASE next.track = NoTrack
  <2>1. q = NoSource(e)
    BY <1>2 DEF ApplyAudioPlayback
  <2> HIDE DEF e, r
  <2>2. QED
    BY <1>1, <1>2, <2>1, NoSourceEmpties
<1>3. CASE next.track # NoTrack
  <2>1. q = IF next.status = "playing" /\ isListening THEN SafePlay(r, next.status, granted)
            ELSE [r EXCEPT !.paused = TRUE]
    BY <1>3 DEF ApplyAudioPlayback
  <2>2. next.track \in Tracks
    BY <1>3, PlaybackFields
  <2> HIDE DEF e
  <2>3. r \in Players /\ r.loaded = next.track /\ r.src \in {NoTrack, next.track}
    <3>1. CASE e.loaded # next.track
      BY <1>1, <2>2, <3>1, LoadLoads
    <3>2. CASE e.loaded = next.track /\ (force \/ NeedsHardSeek(e, moved))
      BY <1>1, <3>2, SeekAudioKeeps DEF SameTrack
    <3>3. CASE e.loaded = next.track /\ ~(force \/ NeedsHardSeek(e, moved))
      BY <1>1, <3>3
    <3>4. QED
      BY <3>1, <3>2, <3>3
  <2> HIDE DEF r
  <2>4. CASE next.status = "playing" /\ isListening
    BY <2>1, <2>3, <2>4, SafePlayKeeps DEF SameTrack
  <2>5. CASE ~(next.status = "playing" /\ isListening)
    <3>1. q = [r EXCEPT !.paused = TRUE]
      BY <2>1, <2>5
    <3>2. q \in Players /\ q.loaded = r.loaded /\ q.src = r.src /\ q.paused
      BY <2>3, <3>1 DEF Players
    <3>3. QED
      BY <2>3, <3>2
  <2>6. QED
    BY <2>4, <2>5
<1>4. QED
  BY <1>2, <1>3

-----------------------------------------------------------------------------

LEMMA InitPlayer == Init => IInv
<1> SUFFICES ASSUME Init PROVE IInv
  OBVIOUS
<1> DEFINE bare == [made |-> FALSE, src |-> NoTrack, ready |-> "empty", paused |-> TRUE,
                    near |-> FALSE, loaded |-> NoTrack, pendingSeek |-> FALSE]
<1>1. bare \in Players /\ bare.loaded = NoTrack
  BY DEF Players
<1>2. player = Removed(bare)
  BY DEF Init
<1> HIDE DEF bare
<1>3. player \in Players /\ ~player.made /\ player.loaded = NoTrack /\ player.src = NoTrack
  BY <1>1, <1>2, RemovedKeeps
<1>4. playback \in Playbacks /\ playback.track = NoTrack
  BY DEF Init, Playbacks
<1>5. QED
  BY <1>3, <1>4 DEF Init, IInv, PlayerInv, TypeOK, SoundFollowsRoom, Running, OnlyLateLyricsMislead

\* A step of the element or the listener that leaves the playback alone.
LEMMA SameTrackStep ==
  ASSUME IInv, player' \in Players, player'.loaded = player.loaded,
         player'.src \in {NoTrack, player.src},
         isListening' \in BOOLEAN, ahead' \in BOOLEAN,
         player'.made /\ ~player'.paused =>
           isListening' /\ (playback.status = "playing" \/ ahead'),
         commands' \subseteq Commands, busy' \in BOOLEAN,
         UNCHANGED <<playback, canManage, words>>
  PROVE  IInv'
<1>1. TypeOK'
  BY DEF IInv, PlayerInv, TypeOK, words
<1>2. SoundFollowsRoom'
  BY DEF IInv, PlayerInv, SoundFollowsRoom, Running, words
<1>3. OnlyLateLyricsMislead'
  BY DEF IInv, OnlyLateLyricsMislead, words
<1>4. QED
  BY <1>1, <1>2, <1>3 DEF IInv, PlayerInv

LEMMA ApplyStep ==
  ASSUME IInv, NEW next \in Playbacks, NEW snapshot, NEW moved,
         Apply(next, snapshot, moved), commands' \subseteq Commands, busy' \in BOOLEAN
  PROVE  IInv'
<1>1. PICK granted \in BOOLEAN :
        player' = ApplyAudioPlayback(player, next,
          snapshot \/ playback.track # next.track \/ playback.status # next.status, moved, granted)
  BY DEF Apply
<1>2. player \in Players /\ player.src \in {NoTrack, player.loaded}
  BY DEF IInv, PlayerInv, TypeOK, SoundFollowsRoom
<1>3. /\ player' \in Players /\ player'.loaded = next.track /\ player'.src \in {NoTrack, next.track}
      /\ ~player'.paused => next.status = "playing" /\ isListening
  BY <1>1, <1>2, ApplyAudioFollows
<1>4. playback' = next /\ isListening' = isListening /\ canManage' = canManage /\ ahead' = FALSE
  BY DEF Apply
<1>5. CASE next.track = NoTrack
  <2>1. lyrics' = NoTrack /\ lyricRequests' = lyricRequests /\ late' = FALSE
    <3>1. lyrics' = NoTrack /\ lyricRequests' = lyricRequests
      BY <1>5 DEF Apply, AskLyrics
    <3>2. late' = FALSE
      BY <1>5 DEF Apply, AskLyrics
    <3>3. QED
      BY <3>1, <3>2
  <2>2. QED
    BY <1>3, <1>4, <1>5, <2>1
       DEF IInv, PlayerInv, TypeOK, SoundFollowsRoom, Running, OnlyLateLyricsMislead
<1>6. CASE next.track # NoTrack /\ player.loaded # next.track
  <2>1. lyrics' = lyrics /\ lyricRequests' = lyricRequests \union {next.track} /\ late' = FALSE
    <3>1. lyrics' = lyrics /\ lyricRequests' = lyricRequests \union {next.track}
      BY <1>6 DEF Apply, AskLyrics
    <3>2. late' = FALSE
      BY <1>6 DEF Apply, AskLyrics
    <3>3. QED
      BY <3>1, <3>2
  <2>2. next.track \in Tracks
    BY <1>6, PlaybackFields
  <2>3. QED
    BY <1>3, <1>4, <2>1, <2>2
       DEF IInv, PlayerInv, TypeOK, SoundFollowsRoom, Running, OnlyLateLyricsMislead
<1>7. CASE next.track # NoTrack /\ player.loaded = next.track
  <2>1. lyrics' = lyrics /\ lyricRequests' = lyricRequests /\ late' = late
    <3>1. lyrics' = lyrics /\ lyricRequests' = lyricRequests
      BY <1>7 DEF Apply, AskLyrics
    <3>2. late \in BOOLEAN
      BY DEF IInv, PlayerInv, TypeOK
    <3>3. late' = late
      BY <1>7, <3>2 DEF Apply, AskLyrics
    <3>4. QED
      BY <3>1, <3>3
  <2>2. QED
    BY <1>3, <1>4, <1>7, <2>1
       DEF IInv, PlayerInv, TypeOK, SoundFollowsRoom, Running, OnlyLateLyricsMislead
<1>8. QED
  BY <1>5, <1>6, <1>7

LEMMA ElementSteps ==
  ASSUME IInv, LoadedMetadata \/ CanPlay \/ Starves \/ Interrupted \/ Part \/ DriftTick
  PROVE  IInv'
<1>1. /\ UNCHANGED <<playback, canManage, isListening, words, commands, busy, ahead>>
  BY DEF LoadedMetadata, CanPlay, Starves, Interrupted, Part, DriftTick, page, asking
<1>2. player \in Players /\ isListening \in BOOLEAN
  BY DEF IInv, PlayerInv, TypeOK
<1>3. /\ SameTrack(player', player)
      /\ player'.made /\ ~player'.paused =>
           Running \/ (playback.status = "playing" /\ isListening)
  <2>1. CASE LoadedMetadata
    <3>1. PICK near \in BOOLEAN :
            player' = [player EXCEPT !.ready = "metadata", !.near = near, !.pendingSeek = FALSE]
      BY <2>1 DEF LoadedMetadata
    <3>2. QED
      BY <1>2, <3>1 DEF SameTrack, Players, Running
  <2>2. CASE CanPlay
    <3> DEFINE p == [player EXCEPT !.ready = "canplay"]
    <3>1. SameTrack(p, player) /\ p.paused = player.paused /\ p.made = player.made
      BY <1>2 DEF SameTrack, Players
    <3>2. PICK granted \in BOOLEAN : player' = SafePlay(p, playback.status, granted)
      BY <2>2 DEF CanPlay
    <3> HIDE DEF p
    <3>3. QED
      BY <3>1, <3>2, SafePlayKeeps DEF SameTrack, Running
  <2>3. CASE Starves
    BY <1>2, <2>3 DEF Starves, SameTrack, Players, Running
  <2>4. CASE Interrupted
    BY <1>2, <2>4 DEF Interrupted, SameTrack, Players, Running
  <2>5. CASE Part
    BY <1>2, <2>5 DEF Part, SameTrack, Players, Running
  <2>6. CASE DriftTick
    BY <1>2, <2>6, SeekAudioKeeps DEF DriftTick, Running
  <2>7. QED
    BY <2>1, <2>2, <2>3, <2>4, <2>5, <2>6
<1>4. /\ player' \in Players /\ player'.loaded = player.loaded /\ player'.src = player.src
  BY <1>3 DEF SameTrack
<1>5. player'.made /\ ~player'.paused => isListening' /\ (playback.status = "playing" \/ ahead')
  BY <1>1, <1>3 DEF IInv, PlayerInv, SoundFollowsRoom
<1>6. ahead' \in BOOLEAN /\ commands' \subseteq Commands /\ busy' \in BOOLEAN /\ isListening' \in BOOLEAN
  BY <1>1 DEF IInv, PlayerInv, TypeOK
<1>7. UNCHANGED <<playback, canManage, words>>
  BY <1>1
<1>8. QED
  BY <1>4, <1>5, <1>6, <1>7, SameTrackStep

LEMMA StartListeningStep ==
  ASSUME IInv, StartListening, UNCHANGED asking
  PROVE  IInv'
<1> DEFINE p == SeekAudio(player)
<1>1. PICK granted \in BOOLEAN :
        player' = [p EXCEPT !.paused = @ /\ ~(p.made /\ playback.status = "playing" /\ granted)]
  BY DEF StartListening
<1>2. player \in Players /\ SameTrack(p, player) /\ p.paused = player.paused /\ p.made = player.made
  BY SeekAudioKeeps DEF IInv, PlayerInv, TypeOK
<1> DEFINE starts == (p.made /\ playback.status = "playing" /\ granted) = TRUE
<1>3. starts \in BOOLEAN /\ (starts => playback.status = "playing")
  OBVIOUS
<1>4. p \in Players
  BY <1>2 DEF SameTrack
<1> HIDE DEF p
<1>5. player' = [p EXCEPT !.paused = p.paused /\ ~starts]
  BY <1>1, <1>4 DEF Players
<1> HIDE DEF starts
<1>6. /\ SameTrack(player', p) /\ player'.made = p.made
      /\ ~player'.paused => ~p.paused \/ starts
  BY <1>3, <1>4, <1>5, StartKeeps
<1>7. player' \in Players /\ player'.loaded = player.loaded /\ player'.src = player.src
  BY <1>2, <1>6 DEF SameTrack
<1>8. /\ isListening' = TRUE /\ ahead' = ahead /\ UNCHANGED <<playback, canManage, words>>
      /\ commands' = commands /\ busy' = busy
  BY DEF StartListening, asking
<1>9. player'.made /\ ~player'.paused => isListening' /\ (playback.status = "playing" \/ ahead')
  BY <1>2, <1>3, <1>6, <1>8 DEF IInv, PlayerInv, SoundFollowsRoom, Running
<1>10. ahead' \in BOOLEAN /\ commands' \subseteq Commands /\ busy' \in BOOLEAN
  BY <1>8 DEF IInv, PlayerInv, TypeOK
<1>11. QED
  BY <1>7, <1>8, <1>9, <1>10, SameTrackStep

LEMMA StopListeningStep ==
  ASSUME IInv, StopListening
  PROVE  IInv'
<1>1. player \in Players
  BY DEF IInv, PlayerInv, TypeOK
<1>2. /\ player' \in Players /\ ~player'.made
      /\ player'.loaded = player.loaded /\ player'.src = NoTrack
  BY <1>1, RemovedKeeps DEF StopListening
<1>3. /\ isListening' = FALSE /\ ahead' = FALSE /\ UNCHANGED <<playback, canManage, words>>
      /\ commands' \subseteq Commands /\ busy' \in BOOLEAN
  BY DEF StopListening, asking, IInv, PlayerInv, TypeOK
<1>4. QED
  BY <1>2, <1>3, SameTrackStep

LEMMA AskFacts ==
  ASSUME IInv, NEW name \in Commands, Ask(name)
  PROVE  commands' \subseteq Commands /\ busy' \in BOOLEAN
BY DEF Ask, IInv, PlayerInv, TypeOK

LEMMA TogglePlaybackStep ==
  ASSUME IInv, TogglePlayback
  PROVE  IInv'
<1>1. CASE ~canManage
  <2>1. UNCHANGED asking
    BY <1>1 DEF TogglePlayback, StopListening, StartListening
  <2>2. QED
    BY <1>1, <2>1, StartListeningStep, StopListeningStep DEF TogglePlayback
<1>2. CASE canManage /\ playback.status = "playing"
  <2>1. Ask("pause") /\ UNCHANGED <<page, player, words, ahead>>
    BY <1>2 DEF TogglePlayback
  <2>2. commands' \subseteq Commands /\ busy' \in BOOLEAN
    BY <2>1, AskFacts DEF Commands
  <2>3. QED
    BY <2>1, <2>2 DEF page, words, IInv, PlayerInv, TypeOK, SoundFollowsRoom, Running,
                      OnlyLateLyricsMislead
<1>3. CASE canManage /\ playback.status # "playing"
  <2>1. /\ Ask("play") /\ isListening' = TRUE /\ UNCHANGED <<playback, canManage, words>>
        /\ ahead' = (ahead \/ player.src # NoTrack)
    BY <1>3 DEF TogglePlayback
  <2>2. PICK granted \in BOOLEAN :
          player' = [player EXCEPT !.paused = @ /\ ~(granted /\ player.src # NoTrack)]
    BY <1>3 DEF TogglePlayback
  <2> DEFINE starts == (granted /\ player.src # NoTrack) = TRUE
  <2>3. starts \in BOOLEAN /\ (starts => player.src # NoTrack) /\ player \in Players
    BY DEF IInv, PlayerInv, TypeOK
  <2>4. player' = [player EXCEPT !.paused = player.paused /\ ~starts]
    BY <2>2, <2>3 DEF Players
  <2> HIDE DEF starts
  <2>5. /\ SameTrack(player', player) /\ player'.made = player.made
        /\ ~player'.paused => ~player.paused \/ starts
    BY <2>3, <2>4, StartKeeps
  <2>6. player' \in Players /\ player'.loaded = player.loaded /\ player'.src = player.src
    BY <2>5 DEF SameTrack
  <2>7. ahead' \in BOOLEAN
    BY <2>1 DEF IInv, PlayerInv, TypeOK
  <2>8. player'.made /\ ~player'.paused => isListening' /\ (playback.status = "playing" \/ ahead')
    BY <2>1, <2>3, <2>5 DEF IInv, PlayerInv, SoundFollowsRoom, Running
  <2>9. commands' \subseteq Commands /\ busy' \in BOOLEAN
    BY <2>1, AskFacts DEF Commands
  <2>10. QED
    BY <2>1, <2>6, <2>7, <2>8, <2>9, SameTrackStep
<1>4. canManage \in BOOLEAN
  BY DEF IInv, PlayerInv, TypeOK
<1>5. QED
  BY <1>1, <1>2, <1>3, <1>4

LEMMA SeekOrNextStep ==
  ASSUME IInv, SeekOrNext
  PROVE  IInv'
<1>1. commands' \subseteq Commands /\ busy' \in BOOLEAN
  BY AskFacts DEF SeekOrNext, Commands
<1>2. QED
  BY <1>1 DEF SeekOrNext, page, words, IInv, PlayerInv, TypeOK, SoundFollowsRoom, Running,
              OnlyLateLyricsMislead

LEMMA MediaKeyStep ==
  ASSUME IInv, MediaKey
  PROVE  IInv'
<1>1. UNCHANGED asking
  BY DEF MediaKey, StartListening, StopListening
<1>2. QED
  BY <1>1, StartListeningStep, StopListeningStep DEF MediaKey

LEMMA CommandAnsweredStep ==
  ASSUME IInv, NEW name \in Commands, CommandAnswered(name)
  PROVE  IInv'
<1>1. commands' \subseteq Commands /\ busy' \in BOOLEAN
  BY DEF CommandAnswered, IInv, PlayerInv, TypeOK
<1>2. CASE \E next \in Outcomes(name) : Apply(next, FALSE, name = "seek")
  BY <1>1, <1>2, ApplyStep DEF Outcomes
<1>3. CASE \E next \in Playbacks, moved \in BOOLEAN : Apply(next, TRUE, moved)
  BY <1>1, <1>3, ApplyStep
<1>4. CASE UNCHANGED <<page, player, words, ahead>>
  BY <1>1, <1>4 DEF page, words, IInv, PlayerInv, TypeOK, SoundFollowsRoom, Running,
                    OnlyLateLyricsMislead
<1>5. QED
  BY <1>2, <1>3, <1>4 DEF CommandAnswered

LEMMA LoadLyricsStep ==
  ASSUME IInv, NEW track \in Tracks, LoadLyrics(track)
  PROVE  IInv'
<1>1. late' \in BOOLEAN
  BY DEF LoadLyrics
<1>2. QED
  BY <1>1 DEF LoadLyrics, page, asking, IInv, PlayerInv, TypeOK, SoundFollowsRoom, Running,
              OnlyLateLyricsMislead

LEMMA StepPlayer == IInv /\ [Next]_vars => IInv'
<1> SUFFICES ASSUME IInv, [Next]_vars PROVE IInv'
  OBVIOUS
<1>1. CASE UNCHANGED vars
  BY <1>1 DEF vars, IInv, PlayerInv, TypeOK, SoundFollowsRoom, Running, OnlyLateLyricsMislead
<1>2. CASE Receive
  <2>1. commands' \subseteq Commands /\ busy' \in BOOLEAN
    BY <1>2 DEF Receive, asking, IInv, PlayerInv, TypeOK
  <2>2. QED
    BY <1>2, <2>1, ApplyStep DEF Receive
<1>3. CASE LoadedMetadata \/ CanPlay \/ Starves \/ Interrupted \/ Part \/ DriftTick
  BY <1>3, ElementSteps
<1>4. CASE TogglePlayback \/ SeekOrNext \/ MediaKey
  BY <1>4, TogglePlaybackStep, SeekOrNextStep, MediaKeyStep
<1>5. CASE \E name \in Commands : CommandAnswered(name)
  BY <1>5, CommandAnsweredStep
<1>6. CASE \E track \in Tracks : LoadLyrics(track)
  BY <1>6, LoadLyricsStep
<1>7. QED
  BY <1>1, <1>2, <1>3, <1>4, <1>5, <1>6 DEF Next

LEMMA InvariantPlayer == Spec => []IInv
BY InitPlayer, StepPlayer, PTL DEF Spec

\* For any tracks, the element has the room's track or none and sounds only for a
\* listener of a playing room, or ahead of the answer to the listener's own play
\* (room.ts, applyAudioPlayback, safePlay, togglePlayback).
THEOREM ElementFollowsRoom == Spec => []PlayerInv
<1>1. IInv => PlayerInv
  BY DEF IInv
<1>2. QED
  BY <1>1, InvariantPlayer, PTL

\* The words beside the player are those of the loaded track once no request is
\* open, an overtaken answer that came in last excepted (room.ts, loadLyrics).
THEOREM WordsFollowTrack == Spec => []OnlyLateLyricsMislead
<1>1. IInv => OnlyLateLyricsMislead
  BY DEF IInv
<1>2. QED
  BY <1>1, InvariantPlayer, PTL

=============================================================================
