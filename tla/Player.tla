-------------------------------- MODULE Player --------------------------------
(***************************************************************************)
(* The audio player of the search page (frontend/app/stores/player.ts),    *)
(* the one YouTube player it drives for clips of YouTube                   *)
(* (composables/useYoutubeSegmentPlayer.ts), and the expansion of a        *)
(* sentence by its neighbours, whose joined audio takes the place of the   *)
(* sentence's own (composables/useSegmentConcatenation.ts).                *)
(*                                                                         *)
(* A step is a turn of the event loop.  Two flags decide what follows the  *)
(* end of a clip and may be changed at any time, so that any of the three  *)
(* may follow.  Volume, speed, positions within a clip and what is counted *)
(* are left out, and YouTube plays what it is told to once it is there.    *)
(***************************************************************************)
EXTENDS Naturals, Sequences

CONSTANTS
    Clips,       \* search results, each with the audio of one sentence
    YouTube,     \* those that play on YouTube
    Lists,       \* lists that are played
    MaxBlobs     \* bound: expansions that are built

NoClip == [clip |-> "none"]

ASSUME PlayerAssumption ==
    /\ NoClip \notin Clips /\ YouTube \subseteq Clips /\ Lists \subseteq Seq(Clips)
    /\ MaxBlobs \in Nat

VARIABLES
    playlist, currentIndex,   \* index 0 is none; one past the list is out of range
    isPlaying,
    currentAudio,   \* the audio element: what it is on, and whether it sounds
    prefetched,     \* what the element ahead is on
    plays,          \* play() promises and waits for data that have not settled
    yt,             \* the YouTube player
    blob,           \* the joined audio of each clip; 0 is none
    blobs,          \* object URLs made so far
    revoked,        \* those that do not resolve any more
    expansion,      \* activeConcatenation
    building,       \* the expansion under way
    stray           \* history: has the button been put out of step with the sound?

player    == <<playlist, currentIndex, isPlaying, currentAudio, prefetched, plays, stray>>
expanding == <<blob, blobs, revoked, expansion, building>>
plvars    == <<player, yt, expanding>>

NoAudio == [audio |-> "none"]
Sources == [of : Clips, blob : 0 .. MaxBlobs]
Plays   == [stage : {"wait", "play"}, current : BOOLEAN]

PlayerTypeOK ==
    /\ playlist \in Lists \cup {<<>>} /\ currentIndex \in 0 .. Len(playlist) + 1
    /\ isPlaying \in BOOLEAN
    /\ currentAudio \in [source : Sources, sounds : BOOLEAN] \cup {NoAudio}
    /\ prefetched \in Sources \cup {NoAudio} /\ plays \subseteq Plays
    /\ yt \in [ready : BOOLEAN, active : Clips \cup {NoClip}, pending : BOOLEAN,
               sounds : BOOLEAN]
    /\ blob \in [Clips -> 0 .. MaxBlobs]
    /\ blobs \in 0 .. MaxBlobs /\ revoked \subseteq 1 .. blobs
    /\ expansion \in Clips \cup {NoClip}
    /\ building \in [of : Clips, stage : {"context", "audio"}, gone : BOOLEAN] \cup {NoClip}
    /\ stray \in BOOLEAN

PlayerInit ==
    /\ playlist = <<>> /\ currentIndex = 0 /\ isPlaying = FALSE
    /\ currentAudio = NoAudio /\ prefetched = NoAudio /\ plays = {}
    /\ yt = [ready |-> FALSE, active |-> NoClip, pending |-> FALSE, sounds |-> FALSE]
    /\ blob = [c \in Clips |-> 0] /\ blobs = 0 /\ revoked = {}
    /\ expansion = NoClip /\ building = NoClip /\ stray = FALSE

ClipAt(list, i) == IF i \in DOMAIN list THEN list[i] ELSE NoClip
currentResult == ClipAt(playlist, currentIndex)

resolveAudioSource(c) == [of |-> c, blob |-> blob[c]]

\* An element is played whatever it is on (a mutant).
neverStale == FALSE

\* The element is not on what the current result plays by now.
isCurrentAudioStale == currentAudio.source # resolveAudioSource(currentResult)

-----------------------------------------------------------------------------
\* The YouTube player.

ytPlay(c) ==
    [yt EXCEPT !.active = c, !.pending = ~yt.ready, !.sounds = yt.ready]

\* play, resume and restart reach a player that is ready only.
ytResume == [yt EXCEPT !.sounds = yt.ready]
ytPause  == [yt EXCEPT !.sounds = FALSE]

\* What waits for the player is not forgotten (a mutant).
hideOnly == [yt EXCEPT !.active = NoClip, !.sounds = FALSE]

\* hide and stop.
ytStop == [yt EXCEPT !.active = NoClip, !.pending = FALSE, !.sounds = FALSE]

-----------------------------------------------------------------------------
\* Playing.

\* Nobody takes a fresh token (a mutant).
SameToken == plays

\* playbackToken is raised: what has not settled is of the past.
FreshToken == {[p EXCEPT !.current = FALSE] : p \in plays}

\* The guard of started and failed, and of the wait: has nothing come after it?
latest(p) == p.current

\* An element that is buffered is played at once; any other is held, and silent, until
\* it is or the wait is over.
Begins(stage) == plays' = FreshToken \cup {[stage |-> stage, current |-> TRUE]}

\* startAudio, of the element there is.
startAudio ==
    \E stage \in {"play", "wait"} :
      /\ Begins(stage)
      /\ currentAudio' = [currentAudio EXCEPT !.sounds = @ /\ stage = "play"]

\* The clip after this one is prefetched, unless it is of YouTube or expanded.
prefetchNext(list, i) ==
    LET c == ClipAt(list, i + 1)
    IN  IF c \in Clips \ YouTube /\ blob[c] = 0 THEN resolveAudioSource(c) ELSE NoAudio

\* playCurrent, for the i-th of the list, with the YouTube player as y.  Where there is
\* no clip that player is left alone.
playCurrent(list, i, y) ==
    LET c == ClipAt(list, i) IN
    /\ playlist' = list /\ currentIndex' = i
    /\ CASE c = NoClip ->
              /\ currentAudio' = NoAudio /\ plays' = FreshToken /\ isPlaying' = FALSE
              /\ yt' = y /\ stray' = (y.sounds \/ y.pending) /\ UNCHANGED prefetched
         [] c \in YouTube ->
              /\ currentAudio' = NoAudio /\ plays' = FreshToken /\ isPlaying' = TRUE
              /\ yt' = ytPlay(c) /\ prefetched' = prefetchNext(list, i) /\ stray' = FALSE
         [] c \in Clips \ YouTube ->
              /\ \E stage \in {"play", "wait"} : Begins(stage)
              /\ currentAudio' = [source |-> resolveAudioSource(c), sounds |-> FALSE]
              /\ yt' = ytStop /\ prefetched' = prefetchNext(list, i)
              /\ stray' = FALSE /\ UNCHANGED isPlaying

setPlaylist(list, i) == playCurrent(list, i, yt) /\ UNCHANGED expanding

Here == <<playlist, currentIndex, prefetched>>
OnYouTube == currentResult \in YouTube

\* What is there goes on, or from its start.
OnWith ==
    /\ IF OnYouTube THEN yt' = ytResume /\ plays' = FreshToken /\ UNCHANGED currentAudio
       ELSE startAudio /\ UNCHANGED yt
    /\ isPlaying' = TRUE /\ UNCHANGED Here

play ==
    IF (OnYouTube /\ yt.active = currentResult)
       \/ (~OnYouTube /\ currentAudio # NoAudio /\ ~isCurrentAudioStale)
      THEN OnWith /\ UNCHANGED stray
      ELSE playCurrent(playlist, currentIndex, yt)

\* A YouTube player that is not there yet cannot be paused, and will play.
pause ==
    /\ OnYouTube \/ currentAudio # NoAudio
    /\ plays' = FreshToken /\ isPlaying' = FALSE
    /\ IF OnYouTube THEN yt' = ytPause /\ stray' = (stray \/ yt.pending) /\ UNCHANGED currentAudio
       ELSE currentAudio' = [currentAudio EXCEPT !.sounds = FALSE] /\ UNCHANGED <<yt, stray>>
    /\ UNCHANGED Here

togglePlay ==
    /\ currentIndex # 0 /\ (IF isPlaying THEN pause ELSE play)
    /\ UNCHANGED expanding

\* A YouTube clip goes on though it has ended: then nobody looks for its end.
restart ==
    /\ currentResult # NoClip
    /\ IF OnYouTube \/ (currentAudio # NoAudio /\ ~isCurrentAudioStale)
         THEN OnWith /\ stray' = (stray \/ (OnYouTube /\ yt.active # currentResult))
         ELSE playCurrent(playlist, currentIndex, yt)
    /\ UNCHANGED expanding

\* The next clip; after the last one there is none, which is said whatever sounds.
Advance(audio, y) ==
    IF currentIndex \in 1 .. Len(playlist) - 1
      THEN playCurrent(playlist, currentIndex + 1, y)
      ELSE /\ isPlaying' = FALSE /\ currentAudio' = audio /\ yt' = y
           /\ stray' = (stray \/ (audio # NoAudio /\ audio.sounds) \/ y.sounds \/ y.pending)
           /\ UNCHANGED <<Here, plays>>

next == currentIndex # 0 /\ Advance(currentAudio, yt) /\ UNCHANGED expanding

prev ==
    /\ currentIndex > 1 /\ playCurrent(playlist, currentIndex - 1, yt)
    /\ UNCHANGED expanding

hidePlayer ==
    /\ currentIndex # 0
    /\ playlist' = <<>> /\ currentIndex' = 0 /\ isPlaying' = FALSE /\ stray' = FALSE
    /\ currentAudio' = NoAudio /\ prefetched' = NoAudio /\ plays' = FreshToken
    /\ yt' = ytStop /\ UNCHANGED expanding

-----------------------------------------------------------------------------
\* What the browser and YouTube have to say.

\* Enough is buffered, or the wait is over.
whenPlayable(p) ==
    /\ p \in plays /\ p.stage = "wait"
    /\ plays' = (plays \ {p}) \cup (IF latest(p) THEN {[p EXCEPT !.stage = "play"]} ELSE {})
    /\ UNCHANGED <<Here, isPlaying, currentAudio, stray, yt, expanding>>

\* The promise of play() is settled: started or failed.
PlaySettles(p, ok) ==
    /\ p \in plays /\ p.stage = "play" /\ plays' = plays \ {p}
    /\ isPlaying' = IF latest(p) THEN ok ELSE isPlaying
    /\ currentAudio' = IF p.current THEN [currentAudio EXCEPT !.sounds = ok] ELSE currentAudio
    /\ UNCHANGED <<Here, stray, yt, expanding>>

\* handleEnded: the same again, the next one, or nothing more.
handleEnded(audio, y) ==
    \/ playCurrent(playlist, currentIndex, y)
    \/ Advance(audio, y)
    \/ /\ isPlaying' = FALSE /\ currentAudio' = audio /\ yt' = y
       /\ UNCHANGED <<Here, plays, stray>>

AudioEnds ==
    /\ currentAudio # NoAudio /\ currentAudio.sounds /\ ~\E p \in plays : p.current
    /\ handleEnded([currentAudio EXCEPT !.sounds = FALSE], yt)
    /\ UNCHANGED expanding

\* finishClip, which tells the store of a clip that was played.
finishClip ==
    /\ yt.sounds /\ UNCHANGED expanding
    /\ IF yt.active # NoClip THEN handleEnded(currentAudio, ytStop)
       ELSE yt' = ytStop /\ UNCHANGED player

\* onReady: what waits for the player is played.
onReady ==
    /\ ~yt.ready
    /\ yt' = [yt EXCEPT !.ready = TRUE, !.pending = FALSE, !.sounds = @ \/ yt.pending]
    /\ UNCHANGED <<player, expanding>>

-----------------------------------------------------------------------------
\* Expanding a sentence.

\* releaseIfSource: nothing holds the source any more.
releaseIfSource(source) ==
    /\ prefetched' = IF prefetched = source THEN NoAudio ELSE prefetched
    /\ IF currentAudio # NoAudio /\ currentAudio.source = source
         THEN currentAudio' = NoAudio /\ plays' = FreshToken /\ isPlaying' = FALSE
         ELSE UNCHANGED <<currentAudio, plays, isPlaying>>
    /\ UNCHANGED <<playlist, currentIndex, stray>>

\* revertActiveConcatenation.
Reverts ==
    IF expansion # NoClip /\ blob[expansion] # 0
      THEN /\ releaseIfSource(resolveAudioSource(expansion))
           /\ revoked' = revoked \cup {blob[expansion]}
           /\ blob' = [blob EXCEPT ![expansion] = 0]
      ELSE UNCHANGED <<player, revoked, blob>>

\* By the reader, or because the card is edited or leaves the list.
revertActiveConcatenation ==
    /\ expansion # NoClip /\ expansion' = NoClip
    /\ Reverts /\ UNCHANGED <<yt, blobs, building>>

\* One expansion at a time, across the pages that are left and come to as well.
loadNextSegment(c) ==
    /\ building = NoClip /\ blobs < MaxBlobs
    /\ building' = [of |-> c, stage |-> "context", gone |-> FALSE]
    /\ UNCHANGED <<player, yt, blob, blobs, revoked, expansion>>

\* The neighbours are there, or there are none, or the page is not there any more.
ContextArrives ==
    /\ building # NoClip /\ building.stage = "context"
    /\ \/ /\ ~building.gone /\ Reverts
          /\ expansion' = building.of /\ building' = [building EXCEPT !.stage = "audio"]
       \/ building' = NoClip /\ UNCHANGED <<player, blob, revoked, expansion>>
    /\ UNCHANGED <<yt, blobs>>

\* The audio is attached whatever has become of its expansion (a mutant).
ifThePageIsThere(b) == ~b.gone

\* The expansion the audio was built for is still the one that is shown.
isStillExpanded(b) == ~b.gone /\ expansion = b.of

\* attachExpandedAudio.
AudioIsBuilt ==
    /\ building # NoClip /\ building.stage = "audio" /\ building' = NoClip
    /\ \/ /\ blobs' = blobs + 1
          /\ IF isStillExpanded(building)
               THEN blob' = [blob EXCEPT ![building.of] = blobs'] /\ UNCHANGED revoked
               ELSE revoked' = revoked \cup {blobs'} /\ UNCHANGED blob
       \/ UNCHANGED <<blobs, blob, revoked>>
    /\ UNCHANGED <<player, yt, expansion>>

\* The page is left (onScopeDispose).
PageIsLeft ==
    /\ expansion' = NoClip /\ Reverts
    /\ building' = IF building = NoClip THEN NoClip ELSE [building EXCEPT !.gone = TRUE]
    /\ UNCHANGED <<yt, blobs>>

PlayerNext ==
    \/ \E list \in Lists : \E i \in 1 .. Len(list) + 1 : setPlaylist(list, i)
    \/ togglePlay \/ restart \/ next \/ prev \/ hidePlayer
    \/ \E p \in plays : whenPlayable(p) \/ \E ok \in BOOLEAN : PlaySettles(p, ok)
    \/ AudioEnds \/ finishClip \/ onReady
    \/ \E c \in Clips : loadNextSegment(c)
    \/ revertActiveConcatenation \/ ContextArrives \/ AudioIsBuilt \/ PageIsLeft

PlayerSpec == PlayerInit /\ [][PlayerNext]_plvars

-----------------------------------------------------------------------------
\* Properties.

AudioSounds == currentAudio # NoAudio /\ currentAudio.sounds
OnItsWay == yt.pending \/ \E p \in plays : p.current

\* The audio element and the YouTube player never sound together, and when the player is
\* closed nothing sounds or is about to, whatever was still on its way.
OneVoice ==
    /\ ~(AudioSounds /\ (yt.sounds \/ yt.pending))
    /\ currentIndex = 0 => ~AudioSounds /\ ~yt.sounds /\ ~OnItsWay

\* When nothing is under way the button shows what is to be heard: no pause over
\* silence, no play over sound.  Four things put it out of step: next on the last clip,
\* pause before the YouTube player is there, restart of a YouTube clip that has ended,
\* and a list played from beyond its end.
ButtonTellsTheTruth ==
    ~stray /\ ~OnItsWay => (isPlaying <=> AudioSounds \/ yt.sounds)

\* No element is on an address that does not resolve any more, and every object URL that
\* still does is that of the expansion on the page, whatever is dropped while it is
\* being built.
BlobsAreReleased ==
    /\ currentAudio # NoAudio => currentAudio.source.blob \notin revoked
    /\ prefetched # NoAudio => prefetched.blob \notin revoked
    /\ \A n \in (1 .. blobs) \ revoked : expansion # NoClip /\ blob[expansion] = n

\* A sentence that was expanded, or put back, since it last sounded is heard as it is
\* shown when it is played again.
ExpansionIsHeard ==
    [][(\E p \in plays' : p.current) /\ (\A p \in plays : ~p.current)
       => currentAudio'.source = resolveAudioSource(currentResult)']_plvars

\* There is never a pause button over silence.  It does not hold.
PauseMeansSound == isPlaying => AudioSounds \/ yt.sounds \/ OnItsWay
=============================================================================
