----------------------------- MODULE RoomPlayer -----------------------------
(***************************************************************************)
(* The audio element of one room page (room-ui/src/stores/room.ts): how    *)
(* the playback the page knows, the listener's own wish to listen, the     *)
(* events of the browser's element, the drift clock and late lyrics meet.  *)
(* RoomSync shows which playbacks a page gets to know; here any may come.  *)
(*                                                                         *)
(* Abstracted: of a position only whether the element is within 2.25 s of  *)
(* the room's clock (sync.ts needsHardSeek).  Flags that are only shown    *)
(* (audioLoading, audioError, autoplayBlocked, currentTime, volume, the    *)
(* media session's metadata) and the preloaded next track, which no code   *)
(* reads back, are left out.  A seek before the metadata is accepted by    *)
(* the element, as current browsers do.                                    *)
(***************************************************************************)
EXTENDS FiniteSets, Naturals

CONSTANTS
  Tracks,
  NoTrack

ASSUME PlayerAssumption == NoTrack \notin Tracks

VARIABLES
  playback,      \* [track, status] of snapshot.value.playback
  canManage,     \* owner or administrator
  isListening,
  player,        \* audio, loadedTrackID and pendingSeek, see Players
  lyrics,        \* the track whose lyrics are shown, NoTrack if none
  lyricRequests, \* tracks whose lyrics have been asked for
  commands,      \* commands the page waits for
  busy,
  ahead,         \* history: play was pressed and no playback applied since
  late           \* history: lyrics came in after the track had gone

vars == <<playback, canManage, isListening, player, lyrics, lyricRequests,
          commands, busy, ahead, late>>
page == <<playback, canManage, isListening>>
words == <<lyrics, lyricRequests, late>>
asking == <<commands, busy>>

Playbacks == {s \in [track : Tracks \union {NoTrack}, status : {"stopped", "playing", "paused"}] :
                s.track = NoTrack <=> s.status = "stopped"}

\* made: there is an element.  src and ready are the element's source and how
\* far it is loaded; near: within the tolerance of the room's clock; loaded is
\* loadedTrackID, which outlives the element.
Players == [made : BOOLEAN, src : Tracks \union {NoTrack},
            ready : {"empty", "loading", "metadata", "canplay", "failed"},
            paused : BOOLEAN, near : BOOLEAN,
            loaded : Tracks \union {NoTrack}, pendingSeek : BOOLEAN]

Removed(p) == [p EXCEPT !.made = FALSE, !.src = NoTrack, !.ready = "empty",
                        !.paused = TRUE, !.near = FALSE]

Commands == {"play", "pause", "seek", "next"}
Wanted == isListening /\ playback.status = "playing"
Running == player.made /\ ~player.paused
Audible == Running /\ player.src = playback.track /\ player.ready = "canplay"

Init ==
  /\ playback = [track |-> NoTrack, status |-> "stopped"]
  /\ canManage \in BOOLEAN
  /\ isListening = FALSE
  /\ player = Removed([made |-> FALSE, src |-> NoTrack, ready |-> "empty", paused |-> TRUE,
                       near |-> FALSE, loaded |-> NoTrack, pendingSeek |-> FALSE])
  /\ lyrics = NoTrack /\ lyricRequests = {}
  /\ commands = {} /\ busy = FALSE
  /\ ahead = FALSE /\ late = FALSE

-----------------------------------------------------------------------------
(* The element *)

EnsureAudio(p) == [p EXCEPT !.made = TRUE]

\* Setting currentTime of an element that could play makes it fetch again.
SeekAudio(p) ==
  IF ~p.made THEN p
  ELSE [p EXCEPT !.near = TRUE, !.pendingSeek = FALSE,
                 !.ready = IF @ = "canplay" THEN "metadata" ELSE @]

\* A new source stops the element and is positioned when its metadata is there.
Load(p, track) ==
  [p EXCEPT !.src = track, !.ready = "loading", !.paused = TRUE, !.near = FALSE,
            !.loaded = track, !.pendingSeek = TRUE]

NoSource(p) == [p EXCEPT !.src = NoTrack, !.ready = "empty", !.paused = TRUE,
                         !.near = FALSE, !.loaded = NoTrack]

\* Fault: whoever asks for a start gets one, in a paused room too.
SafePlayAnyway(p, status, granted) == [p EXCEPT !.paused = @ /\ ~(p.made /\ granted)]

\* play() in a page with a user gesture; granted is the browser's decision.
SafePlay(p, status, granted) ==
  [p EXCEPT !.paused = @ /\ ~(p.made /\ status = "playing" /\ isListening /\ granted)]

NeedsHardSeek(p, moved) == moved \/ ~p.near

\* moved: the room's position jumped, by a seek.
ApplyAudioPlayback(p, next, force, moved, granted) ==
  LET q == EnsureAudio(p)
      r == IF q.loaded # next.track THEN Load(q, next.track)
           ELSE IF force \/ NeedsHardSeek(q, moved) THEN SeekAudio(q)
           ELSE q
  IN IF next.track = NoTrack THEN NoSource(q)
     ELSE IF next.status = "playing" /\ isListening THEN SafePlay(r, next.status, granted)
     ELSE [r EXCEPT !.paused = TRUE]

\* Fault: lyrics are fetched only while there are none.
AskLyricsOnce(next) ==
  LET changed == next.track # NoTrack /\ player.loaded # next.track /\ lyrics = NoTrack IN
  /\ lyricRequests' = IF changed THEN lyricRequests \union {next.track} ELSE lyricRequests
  /\ lyrics' = IF next.track = NoTrack THEN NoTrack ELSE lyrics
  /\ late' = (late /\ ~changed /\ next.track # NoTrack)

\* The words of a track are asked for when it is loaded, and dropped with it.
AskLyrics(next) ==
  LET changed == next.track # NoTrack /\ player.loaded # next.track IN
  /\ lyricRequests' = IF changed THEN lyricRequests \union {next.track} ELSE lyricRequests
  /\ lyrics' = IF next.track = NoTrack THEN NoTrack ELSE lyrics
  /\ late' = (late /\ ~changed /\ next.track # NoTrack)

\* A playback event, or with everything TRUE a snapshot, is applied.
Apply(next, snapshot, moved) ==
  /\ playback' = next
  /\ \E granted \in BOOLEAN :
       player' = ApplyAudioPlayback(player, next,
         snapshot \/ playback.track # next.track \/ playback.status # next.status, moved, granted)
  /\ AskLyrics(next)
  /\ ahead' = FALSE
  /\ UNCHANGED <<canManage, isListening>>

\* applyPlaybackEvent and applySnapshot: pushed by the gateway, or fetched.
Receive ==
  /\ \E next \in Playbacks, snapshot, moved \in BOOLEAN : Apply(next, snapshot, moved)
  /\ UNCHANGED asking

\* Events of the element.  The seek after loading goes to where the room was
\* when the track was loaded; the room may have moved on since.
LoadedMetadata ==
  /\ player.ready = "loading"
  /\ \E near \in IF playback.status = "playing" THEN BOOLEAN ELSE {TRUE} :
       player' = [player EXCEPT !.ready = "metadata", !.near = near, !.pendingSeek = FALSE]
  /\ UNCHANGED <<page, words, asking, ahead>>

\* Fault: the element's readiness is noted, playing is left to the next event.
CanPlayNoted ==
  /\ player.ready = "metadata"
  /\ player' = [player EXCEPT !.ready = "canplay"]
  /\ UNCHANGED <<page, words, asking, ahead>>

CanPlay ==
  /\ player.ready = "metadata"
  /\ \E granted \in BOOLEAN :
       player' = SafePlay([player EXCEPT !.ready = "canplay"], playback.status, granted)
  /\ UNCHANGED <<page, words, asking, ahead>>

\* The element waits for data, or the source cannot be loaded at all.
Starves ==
  /\ player.ready \in {"loading", "metadata", "canplay"}
  /\ \/ player.ready = "canplay" /\ player' = [player EXCEPT !.ready = "metadata"]
     \/ player' = [player EXCEPT !.ready = "failed"]
  /\ UNCHANGED <<page, words, asking, ahead>>

\* The browser or the system pauses the element; the page only takes note.
Interrupted ==
  /\ Running
  /\ player' = [player EXCEPT !.paused = TRUE]
  /\ UNCHANGED <<page, words, asking, ahead>>

\* Only one of the room and the element moves: they part.
Part ==
  /\ player.made /\ player.near
  /\ (playback.status = "playing") # (Running /\ player.ready = "canplay")
  /\ player' = [player EXCEPT !.near = FALSE]
  /\ UNCHANGED <<page, words, asking, ahead>>

DriftTick ==
  /\ player.made /\ Wanted /\ NeedsHardSeek(player, FALSE)
  /\ player' = SeekAudio(player)
  /\ UNCHANGED <<page, words, asking, ahead>>

-----------------------------------------------------------------------------
(* The listener *)

StartListening ==
  /\ isListening' = TRUE
  /\ \E granted \in BOOLEAN :
       LET p == SeekAudio(player) IN
       player' = [p EXCEPT !.paused = @ /\ ~(p.made /\ playback.status = "playing" /\ granted)]
  /\ UNCHANGED <<playback, canManage, words, asking, ahead>>

StopListening ==
  /\ isListening' = FALSE
  /\ player' = Removed(player)
  /\ ahead' = FALSE
  /\ UNCHANGED <<playback, canManage, words, asking>>

Ask(name) ==
  /\ name \notin commands
  /\ commands' = commands \union {name}
  /\ busy' = TRUE

\* What the panel's buttons wait for: those beside the main one not for an answer.
MainButton == playback.track # NoTrack /\ ~busy
SideButtons == playback.track # NoTrack /\ canManage

\* A manager's play starts the element within the gesture.
TogglePlayback ==
  /\ MainButton
  /\ \/ ~canManage /\ IF isListening THEN StopListening ELSE StartListening
     \/ /\ canManage /\ playback.status = "playing"
        /\ Ask("pause")
        /\ UNCHANGED <<page, player, words, ahead>>
     \/ /\ canManage /\ playback.status # "playing"
        /\ isListening' = TRUE
        /\ \E granted \in BOOLEAN :
             player' = [player EXCEPT !.paused = @ /\ ~(granted /\ player.src # NoTrack)]
        /\ ahead' = (ahead \/ player.src # NoTrack)
        /\ Ask("play")
        /\ UNCHANGED <<playback, canManage, words>>

SeekOrNext ==
  /\ SideButtons
  /\ \E name \in {"seek", "next"} : Ask(name)
  /\ UNCHANGED <<page, player, words, ahead>>

\* The media session's keys work while a track is loaded.
MediaKey ==
  /\ playback.track # NoTrack
  /\ \/ StartListening
     \/ StopListening

\* What the gateway may answer a command with.
Outcomes(name) ==
  {s \in Playbacks :
     CASE name = "play" -> s = [playback EXCEPT !.status = "playing"]
       [] name = "pause" -> s = [playback EXCEPT !.status = "paused"]
       [] name = "seek" -> s = playback
       [] name = "next" -> s.track # playback.track}

\* It is carried out, the playback had changed (then a snapshot is fetched), or
\* it fails.
CommandAnswered(name) ==
  /\ name \in commands
  /\ commands' = commands \ {name}
  /\ busy' = FALSE
  /\ \/ \E next \in Outcomes(name) : Apply(next, FALSE, name = "seek")
     \/ \E next \in Playbacks, moved \in BOOLEAN : Apply(next, TRUE, moved)
     \/ UNCHANGED <<page, player, words, ahead>>

\* Lyrics are shown whatever the page plays when they come.
LoadLyrics(track) ==
  /\ track \in lyricRequests
  /\ lyricRequests' = lyricRequests \ {track}
  /\ lyrics' = track
  /\ late' = (player.loaded # track)
  /\ UNCHANGED <<page, player, asking, ahead>>

Next ==
  \/ Receive
  \/ LoadedMetadata \/ CanPlay \/ Starves \/ Interrupted \/ Part \/ DriftTick
  \/ TogglePlayback \/ SeekOrNext \/ MediaKey
  \/ \E name \in Commands : CommandAnswered(name)
  \/ \E track \in Tracks : LoadLyrics(track)

Spec == Init /\ [][Next]_vars

\* The element loads what it can, time passes, the interval timer fires, and
\* a browser that was given a gesture does not refuse to play every time.  Nobody
\* has to press anything and no answer has to come.
FairSpec ==
  /\ Spec
  /\ WF_vars(LoadedMetadata) /\ WF_vars(CanPlay)
  /\ WF_vars(Part) /\ WF_vars(DriftTick)
  /\ SF_vars(CanPlay /\ ~player'.paused)

-----------------------------------------------------------------------------
(* Properties *)

TypeOK ==
  /\ playback \in Playbacks
  /\ canManage \in BOOLEAN /\ isListening \in BOOLEAN
  /\ player \in Players
  /\ lyrics \in Tracks \union {NoTrack} /\ lyricRequests \subseteq Tracks
  /\ commands \subseteq Commands /\ busy \in BOOLEAN
  /\ ahead \in BOOLEAN /\ late \in BOOLEAN

\* Whatever order events, answers, presses and the element's own events come in,
\* the element has the room's track or none, and makes a sound only for a
\* listener of a playing room, or ahead of the answer to the listener's own play.
SoundFollowsRoom ==
  /\ player.loaded = playback.track
  /\ player.src \in {NoTrack, playback.track}
  /\ Running => isListening /\ (playback.status = "playing" \/ ahead)

\* Type correctness and SoundFollowsRoom, which make an inductive invariant.
PlayerInv == TypeOK /\ SoundFollowsRoom

\* When no request for lyrics is open the words shown are those of the loaded
\* track, unless an answer that had been overtaken by a change came in last.
OnlyLateLyricsMislead ==
  lyricRequests = {} /\ ~late => lyrics = player.loaded

\* Somebody who listens to a playing room with a source the browser can load
\* hears it again and again, whatever stalls or pauses the element: the drift
\* clock seeks, the seek makes the element ready again, and ready makes it play.
ListenerHears ==
  <>[](Wanted /\ player.src = playback.track /\ player.ready # "failed") => []<>Audible

\* README.md:252 has a silent listener press the button once.  After a stop the
\* page has no element, loadedTrackID still names the track, and so neither the
\* press nor a later event gives the new element a source.
StartListeningIsEnough == <>[](Wanted /\ player.ready # "failed") => []<>Audible

=============================================================================
