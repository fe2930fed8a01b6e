---------------------------- MODULE Player_proofs ----------------------------
(***************************************************************************)
(* That one voice is heard at a time, and that nothing is played from an   *)
(* address that has been released, for any lists, clips and expansions.    *)
(*                                                                         *)
(* The element and the YouTube player are never both in hand: whoever      *)
(* takes one drops the other in the same turn, and a promise that is of    *)
(* the present belongs to an element that is there.  An element is on what *)
(* its clip plays now, or on the clip's own audio, so that putting an      *)
(* expansion back finds every element that is on it.                       *)
(***************************************************************************)
EXTENDS Player, TLAPS

YtStates == [ready : BOOLEAN, active : Clips \cup {NoClip}, pending : BOOLEAN,
             sounds : BOOLEAN]
Elements == [source : Sources, sounds : BOOLEAN]
Builds   == [of : Clips, stage : {"context", "audio"}, gone : BOOLEAN]

\* A source is the clip's own audio, or the joined audio it has now.
Fits(s) == s.blob = 0 \/ s.blob = blob[s.of]

PlayerOK ==
    /\ playlist \in Lists \cup {<<>>} /\ currentIndex \in 0 .. Len(playlist) + 1
    /\ isPlaying \in BOOLEAN /\ stray \in BOOLEAN /\ plays \subseteq Plays
    /\ currentAudio \in Elements \cup {NoAudio} /\ prefetched \in Sources \cup {NoAudio}
    /\ yt \in YtStates
    /\ currentAudio # NoAudio => Fits(currentAudio.source) /\ ~yt.sounds /\ ~yt.pending
    /\ prefetched # NoAudio => Fits(prefetched)
    /\ OnYouTube => currentAudio = NoAudio
    /\ (\E p \in plays : p.current) => currentAudio # NoAudio
    /\ currentIndex = 0 => currentAudio = NoAudio /\ ~yt.sounds /\ ~yt.pending

\* At most one joined audio is there, that of the expansion, and none while the next
\* one is being built.
BlobsOK ==
    /\ blob \in [Clips -> 0 .. MaxBlobs] /\ blobs \in 0 .. MaxBlobs
    /\ revoked \subseteq 1 .. blobs /\ expansion \in Clips \cup {NoClip}
    /\ building \in Builds \cup {NoClip}
    /\ \A c \in Clips : blob[c] # 0 =>
         c = expansion /\ blob[c] \in 1 .. blobs /\ blob[c] \notin revoked
    /\ \A n \in (1 .. blobs) \ revoked : expansion # NoClip /\ blob[expansion] = n
    /\ building # NoClip => blobs < MaxBlobs
    /\ building # NoClip /\ building.stage = "audio" => \A c \in Clips : blob[c] = 0

PlayerInv == PlayerOK /\ BlobsOK

LEMMA InitIsOK == PlayerInit => PlayerInv
<1> SUFFICES ASSUME PlayerInit
             PROVE  PlayerInv
  OBVIOUS
<1>1. yt \in YtStates
  BY DEF PlayerInit, YtStates
<1>2. ~OnYouTube
  BY PlayerAssumption DEF PlayerInit, OnYouTube, currentResult, ClipAt
<1>3. PlayerOK
  <2>1. playlist = <<>> /\ currentIndex = 0 /\ 0 \in 0 .. Len(playlist) + 1
    BY DEF PlayerInit
  <2>2. /\ plays = {} /\ currentAudio = NoAudio /\ prefetched = NoAudio
        /\ isPlaying = FALSE /\ stray = FALSE /\ ~yt.sounds /\ ~yt.pending
    BY DEF PlayerInit
  <2>3. QED
    BY <1>1, <1>2, <2>1, <2>2 DEF PlayerOK
<1>4. BlobsOK
  BY PlayerAssumption DEF PlayerInit, BlobsOK
<1>5. QED
  BY <1>3, <1>4 DEF PlayerInv

-----------------------------------------------------------------------------
\* What the operators of the player come to.

LEMMA ClipOfList ==
    ASSUME NEW list \in Lists \cup {<<>>}, NEW i \in Nat
    PROVE  /\ list \in Seq(Clips)
           /\ ClipAt(list, i) \in Clips \cup {NoClip}
           /\ ClipAt(list, i) # NoClip => i \in 1 .. Len(list)
<1>1. list \in Seq(Clips)
  <2>1. <<>> \in Seq(Clips)
    OBVIOUS
  <2>2. QED
    BY <2>1, PlayerAssumption
<1>2. QED
  BY <1>1 DEF ClipAt

LEMMA SourceOfClip ==
    ASSUME BlobsOK, NEW c \in Clips
    PROVE  resolveAudioSource(c) \in Sources /\ Fits(resolveAudioSource(c))
BY DEF BlobsOK, resolveAudioSource, Sources, Fits

LEMMA TokensOfPlays ==
    ASSUME plays \subseteq Plays
    PROVE  FreshToken \subseteq Plays /\ \A p \in FreshToken : ~p.current
BY DEF FreshToken, Plays

LEMMA BegunPlays ==
    ASSUME plays \subseteq Plays, NEW stage \in {"play", "wait"}, Begins(stage)
    PROVE  plays' \subseteq Plays
<1>1. [stage |-> stage, current |-> TRUE] \in Plays
  BY DEF Plays
<1>2. plays' = FreshToken \cup {[stage |-> stage, current |-> TRUE]}
  BY DEF Begins
<1>3. QED
  BY <1>1, <1>2, TokensOfPlays

LEMMA TypesOfYt ==
    ASSUME NEW c \in Clips, yt \in YtStates
    PROVE  /\ ytPlay(c) \in YtStates /\ ytResume \in YtStates
           /\ ytPause \in YtStates /\ ~ytPause.sounds /\ ytPause.pending = yt.pending
           /\ ytStop \in YtStates /\ ~ytStop.sounds /\ ~ytStop.pending
<1>1. (~yt.ready) \in BOOLEAN /\ yt.ready \in BOOLEAN
  BY DEF YtStates
<1>2. ytPlay(c) \in YtStates
  BY <1>1 DEF ytPlay, YtStates
<1>3. ytResume \in YtStates
  BY <1>1 DEF ytResume, YtStates
<1>4. ytPause \in YtStates /\ ~ytPause.sounds /\ ytPause.pending = yt.pending
  BY DEF ytPause, YtStates
<1>5. ytStop \in YtStates /\ ~ytStop.sounds /\ ~ytStop.pending
  BY DEF ytStop, YtStates
<1>6. QED
  BY <1>2, <1>3, <1>4, <1>5

LEMMA TypeOfPrefetch ==
    ASSUME BlobsOK, NEW list \in Lists \cup {<<>>}, NEW i \in Nat
    PROVE  LET s == prefetchNext(list, i) IN
           s \in Sources \cup {NoAudio} /\ (s # NoAudio => Fits(s))
<1> DEFINE c == ClipAt(list, i + 1)
<1>1. CASE c \in Clips \ YouTube /\ blob[c] = 0
  BY <1>1, SourceOfClip DEF prefetchNext
<1>2. CASE ~(c \in Clips \ YouTube /\ blob[c] = 0)
  BY <1>2 DEF prefetchNext
<1>3. QED
  BY <1>1, <1>2

\* A clip of a list is played, or there is none at that place.
LEMMA PlayingIsOK ==
    ASSUME PlayerInv, UNCHANGED blob, NEW list \in Lists \cup {<<>>},
           NEW i \in 1 .. Len(list) + 1, NEW y \in YtStates, playCurrent(list, i, y)
    PROVE  PlayerOK'
<1> DEFINE c == ClipAt(list, i)
<1>1. /\ list \in Seq(Clips) /\ c \in Clips \cup {NoClip} /\ i \in Nat
      /\ i \in 0 .. Len(list) + 1 /\ i # 0
  <2>1. list \in Seq(Clips)
    BY ClipOfList
  <2>2. i \in Nat /\ i \in 0 .. Len(list) + 1 /\ i # 0
    BY <2>1
  <2>3. QED
    BY <2>1, <2>2, ClipOfList
<1>2. /\ playlist' = list /\ currentIndex' = i /\ currentResult' = c
  BY DEF playCurrent, currentResult
<1>3. \A s : Fits(s)' <=> Fits(s)
  BY DEF Fits
<1>4. /\ FreshToken \subseteq Plays /\ \A p \in FreshToken : ~p.current
  BY TokensOfPlays DEF PlayerInv, PlayerOK
<1>5. prefetchNext(list, i) \in Sources \cup {NoAudio}
      /\ (prefetchNext(list, i) # NoAudio => Fits(prefetchNext(list, i)))
  BY <1>1, TypeOfPrefetch DEF PlayerInv
<1>6. CASE c = NoClip
  <2>1. /\ currentAudio' = NoAudio /\ plays' = FreshToken /\ isPlaying' = FALSE
        /\ yt' = y /\ stray' = (y.sounds \/ y.pending) /\ prefetched' = prefetched
    BY <1>6, PlayerAssumption DEF playCurrent
  <2>2. stray' \in BOOLEAN
    BY <2>1
  <2>3. QED
    BY <1>1, <1>2, <1>3, <1>4, <2>1, <2>2 DEF PlayerInv, PlayerOK
<1>7. CASE c \in YouTube
  <2>1. /\ currentAudio' = NoAudio /\ plays' = FreshToken /\ isPlaying' = TRUE
        /\ yt' = ytPlay(c) /\ prefetched' = prefetchNext(list, i) /\ stray' = FALSE
    BY <1>7, PlayerAssumption DEF playCurrent
  <2>2. yt' \in YtStates
    BY <1>7, <2>1, TypesOfYt, PlayerAssumption DEF PlayerInv, PlayerOK
  <2>3. QED
    BY <1>1, <1>2, <1>3, <1>4, <1>5, <2>1, <2>2 DEF PlayerOK
<1>8. CASE c \in Clips \ YouTube
  <2>1. /\ \E stage \in {"play", "wait"} : Begins(stage)
        /\ currentAudio' = [source |-> resolveAudioSource(c), sounds |-> FALSE]
        /\ yt' = ytStop /\ prefetched' = prefetchNext(list, i)
        /\ stray' = FALSE /\ isPlaying' = isPlaying
    BY <1>8, PlayerAssumption DEF playCurrent
  <2>2. yt' \in YtStates /\ ~yt'.sounds /\ ~yt'.pending
    BY <1>8, <2>1, TypesOfYt DEF PlayerInv, PlayerOK
  <2>3. plays' \subseteq Plays
    BY <2>1, BegunPlays DEF PlayerInv, PlayerOK
  <2>4. /\ currentAudio' \in Elements /\ currentAudio' # NoAudio
        /\ Fits(currentAudio'.source)
    BY <1>8, <2>1, SourceOfClip DEF PlayerInv, Elements, NoAudio
  <2>5. ~OnYouTube'
    BY <1>2, <1>8 DEF OnYouTube
  <2>6. isPlaying' \in BOOLEAN
    BY <2>1 DEF PlayerInv, PlayerOK
  <2>7. QED
    BY <1>1, <1>2, <1>3, <1>5, <2>1, <2>2, <2>3, <2>4, <2>5, <2>6 DEF PlayerOK
<1>9. QED
  BY <1>1, <1>6, <1>7, <1>8

\* The element and the YouTube player as a clip that ended leaves them, or goes on.
LEMMA StandingIsOK ==
    ASSUME PlayerInv, UNCHANGED <<blob, Here>>, currentIndex # 0,
           NEW audio \in Elements \cup {NoAudio}, NEW y \in YtStates,
           audio # NoAudio => Fits(audio.source) /\ ~y.sounds /\ ~y.pending,
           audio = NoAudio <=> currentAudio = NoAudio,
           currentAudio' = audio, yt' = y, isPlaying' \in BOOLEAN, stray' \in BOOLEAN,
           plays' \subseteq Plays,
           (\E p \in plays' : p.current) => currentAudio # NoAudio
    PROVE  PlayerOK'
<1>1. /\ UNCHANGED <<playlist, currentIndex, prefetched>>
  BY DEF Here
<1>2. OnYouTube' <=> OnYouTube
  BY <1>1 DEF OnYouTube, currentResult
<1>3. \A s : Fits(s)' <=> Fits(s)
  BY DEF Fits
<1>4. QED
  BY <1>1, <1>2, <1>3 DEF PlayerInv, PlayerOK

LEMMA AdvancingIsOK ==
    ASSUME PlayerInv, UNCHANGED blob, currentIndex # 0,
           NEW audio \in Elements \cup {NoAudio}, NEW y \in YtStates,
           audio # NoAudio => Fits(audio.source) /\ ~y.sounds /\ ~y.pending,
           audio = NoAudio <=> currentAudio = NoAudio, Advance(audio, y)
    PROVE  PlayerOK'
<1>1. playlist \in Lists \cup {<<>>} /\ currentIndex \in 0 .. Len(playlist) + 1
      /\ plays \subseteq Plays
  BY DEF PlayerInv, PlayerOK
<1>2. CASE currentIndex \in 1 .. Len(playlist) - 1
  <2>1. currentIndex + 1 \in 1 .. Len(playlist) + 1
    BY <1>1, <1>2, ClipOfList
  <2>2. playCurrent(playlist, currentIndex + 1, y)
    BY <1>2 DEF Advance
  <2>3. QED
    BY <1>1, <2>1, <2>2, PlayingIsOK
<1>3. CASE currentIndex \notin 1 .. Len(playlist) - 1
  <2>1. /\ isPlaying' = FALSE /\ currentAudio' = audio /\ yt' = y /\ UNCHANGED <<Here, plays>>
        /\ stray' \in BOOLEAN
    BY <1>3 DEF Advance
  <2>2. (\E p \in plays' : p.current) => currentAudio # NoAudio
    BY <2>1 DEF PlayerInv, PlayerOK
  <2>3. QED
    BY <1>1, <2>1, <2>2, StandingIsOK
<1>4. QED
  BY <1>2, <1>3

\* What follows the end of a clip.
LEMMA EndingIsOK ==
    ASSUME PlayerInv, UNCHANGED blob, currentIndex # 0,
           NEW audio \in Elements \cup {NoAudio}, NEW y \in YtStates,
           audio # NoAudio => Fits(audio.source) /\ ~y.sounds /\ ~y.pending,
           audio = NoAudio <=> currentAudio = NoAudio, handleEnded(audio, y)
    PROVE  PlayerOK'
<1>1. playlist \in Lists \cup {<<>>} /\ currentIndex \in 0 .. Len(playlist) + 1
      /\ plays \subseteq Plays /\ stray \in BOOLEAN
  BY DEF PlayerInv, PlayerOK
<1>2. CASE playCurrent(playlist, currentIndex, y)
  <2>1. currentIndex \in 1 .. Len(playlist) + 1
    BY <1>1, ClipOfList
  <2>2. QED
    BY <1>1, <1>2, <2>1, PlayingIsOK
<1>3. CASE Advance(audio, y)
  BY <1>3, AdvancingIsOK
<1>4. CASE /\ isPlaying' = FALSE /\ currentAudio' = audio /\ yt' = y
           /\ UNCHANGED <<Here, plays, stray>>
  <2>1. (\E p \in plays' : p.current) => currentAudio # NoAudio
    BY <1>4 DEF PlayerInv, PlayerOK
  <2>2. QED
    BY <1>1, <1>4, <2>1, StandingIsOK
<1>5. QED
  BY <1>2, <1>3, <1>4 DEF handleEnded

LEMMA GoingOnIsOK ==
    ASSUME PlayerInv, UNCHANGED blob, currentIndex # 0,
           OnYouTube \/ currentAudio # NoAudio, OnWith, stray' \in BOOLEAN
    PROVE  PlayerOK'
<1>1. /\ plays \subseteq Plays /\ currentAudio \in Elements \cup {NoAudio} /\ yt \in YtStates
      /\ currentAudio # NoAudio => Fits(currentAudio.source) /\ ~yt.sounds /\ ~yt.pending
      /\ OnYouTube => currentAudio = NoAudio
  BY DEF PlayerInv, PlayerOK
<1>2. isPlaying' = TRUE /\ UNCHANGED Here
  BY DEF OnWith
<1>3. CASE OnYouTube
  <2>1. yt' = ytResume /\ plays' = FreshToken /\ currentAudio' = currentAudio
    BY <1>3 DEF OnWith
  <2>2. ytResume \in YtStates
    <3>1. yt.ready \in BOOLEAN
      BY <1>1 DEF YtStates
    <3>2. QED
      BY <1>1, <3>1 DEF ytResume, YtStates
  <2>3. plays' \subseteq Plays /\ ~\E p \in plays' : p.current
    BY <1>1, <2>1, TokensOfPlays
  <2>4. QED
    BY <1>1, <1>2, <1>3, <2>1, <2>2, <2>3, StandingIsOK
<1>4. CASE ~OnYouTube
  <2>1. startAudio /\ yt' = yt /\ currentAudio # NoAudio
    BY <1>4 DEF OnWith
  <2>2. PICK stage \in {"play", "wait"} :
          /\ Begins(stage)
          /\ currentAudio' = [currentAudio EXCEPT !.sounds = @ /\ stage = "play"]
    BY <2>1 DEF startAudio
  <2>3. plays' \subseteq Plays
    BY <1>1, <2>2, BegunPlays
  <2>4. /\ currentAudio' \in Elements /\ currentAudio'.source = currentAudio.source
        /\ currentAudio' # NoAudio
    <3> DEFINE sounds == currentAudio.sounds /\ stage = "play"
    <3>1. sounds \in BOOLEAN /\ currentAudio \in Elements
      BY <1>1, <2>1
    <3>2. currentAudio' = [currentAudio EXCEPT !.sounds = sounds]
      BY <2>2
    <3> HIDE DEF sounds
    <3>3. QED
      BY <3>1, <3>2 DEF Elements, NoAudio
  <2>5. QED
    BY <1>1, <1>2, <2>1, <2>3, <2>4, StandingIsOK
<1>5. QED
  BY <1>3, <1>4

-----------------------------------------------------------------------------
\* Every step keeps the invariant.

\* The reader at the player.
LEMMA ReaderIsOK ==
    ASSUME PlayerInv, UNCHANGED expanding,
           \/ \E list \in Lists : \E i \in 1 .. Len(list) + 1 : setPlaylist(list, i)
           \/ togglePlay \/ restart \/ next \/ prev \/ hidePlayer
    PROVE  PlayerOK'
<1>0. /\ playlist \in Lists \cup {<<>>} /\ currentIndex \in 0 .. Len(playlist) + 1
      /\ playlist \in Seq(Clips)
      /\ plays \subseteq Plays /\ stray \in BOOLEAN /\ yt \in YtStates
      /\ currentAudio \in Elements \cup {NoAudio}
      /\ currentAudio # NoAudio => Fits(currentAudio.source) /\ ~yt.sounds /\ ~yt.pending
      /\ OnYouTube => currentAudio = NoAudio
  BY ClipOfList DEF PlayerInv, PlayerOK
<1>2. UNCHANGED blob
  BY DEF expanding
<1>3. ASSUME currentIndex # 0, playCurrent(playlist, currentIndex, yt)
      PROVE  PlayerOK'
  <2>1. currentIndex \in 1 .. Len(playlist) + 1
    BY <1>0, <1>3
  <2>2. QED
    BY <1>0, <1>2, <1>3, <2>1, PlayingIsOK
<1>4. ASSUME NEW list \in Lists, NEW i \in 1 .. Len(list) + 1, setPlaylist(list, i)
      PROVE  PlayerOK'
  BY <1>0, <1>2, <1>4, PlayingIsOK DEF setPlaylist
<1>5. CASE togglePlay
  <2>1. currentIndex # 0 /\ (IF isPlaying THEN pause ELSE play)
    BY <1>5 DEF togglePlay
  <2>2. CASE pause
    <3>1. /\ OnYouTube \/ currentAudio # NoAudio
          /\ plays' = FreshToken /\ isPlaying' = FALSE /\ UNCHANGED Here
      BY <2>2 DEF pause
    <3>2. plays' \subseteq Plays /\ ~\E p \in plays' : p.current
      BY <1>0, <3>1, TokensOfPlays
    <3>3. CASE OnYouTube
      <4>1. yt' = ytPause /\ stray' = (stray \/ yt.pending) /\ currentAudio' = currentAudio
        BY <2>2, <3>3 DEF pause
      <4>2. ytPause \in YtStates /\ stray' \in BOOLEAN
        BY <1>0, <4>1 DEF ytPause, YtStates
      <4>3. QED
        BY <1>0, <1>2, <2>1, <3>1, <3>2, <3>3, <4>1, <4>2, StandingIsOK
    <3>4. CASE ~OnYouTube
      <4>1. /\ currentAudio' = [currentAudio EXCEPT !.sounds = FALSE]
            /\ UNCHANGED <<yt, stray>> /\ currentAudio \in Elements
        BY <1>0, <2>2, <3>1, <3>4 DEF pause
      <4>2. /\ currentAudio' \in Elements /\ currentAudio'.source = currentAudio.source
            /\ currentAudio' # NoAudio /\ currentAudio # NoAudio
        <5>1. currentAudio \in Elements
          BY <4>1
        <5>2. PICK ok \in BOOLEAN : currentAudio' = [currentAudio EXCEPT !.sounds = ok]
          BY <4>1
        <5>3. QED
          BY <5>1, <5>2 DEF Elements, NoAudio
      <4>3. QED
        BY <1>0, <1>2, <2>1, <3>1, <3>2, <4>1, <4>2, StandingIsOK
    <3>5. QED
      BY <3>3, <3>4
  <2>3. CASE play
    <3>1. CASE playCurrent(playlist, currentIndex, yt)
      BY <1>3, <2>1, <3>1
    <3>2. CASE /\ OnWith /\ UNCHANGED stray
               /\ OnYouTube \/ currentAudio # NoAudio
      BY <1>0, <1>2, <2>1, <3>2, GoingOnIsOK
    <3>3. QED
      BY <2>3, <3>1, <3>2 DEF play
  <2>4. QED
    BY <2>1, <2>2, <2>3
<1>6. CASE restart
  <2>1. currentIndex # 0
    <3>1. currentIndex \in DOMAIN playlist
      BY <1>6 DEF restart, currentResult, ClipAt
    <3>2. QED
      BY <1>0, <3>1
  <2>2. CASE playCurrent(playlist, currentIndex, yt)
    BY <1>3, <2>1, <2>2
  <2>3. CASE /\ OnYouTube \/ currentAudio # NoAudio
             /\ OnWith /\ stray' = (stray \/ (OnYouTube /\ yt.active # currentResult))
    BY <1>2, <2>1, <2>3, GoingOnIsOK
  <2>4. QED
    BY <1>6, <2>2, <2>3 DEF restart
<1>7. CASE next
  BY <1>0, <1>2, <1>7, AdvancingIsOK DEF next
<1>8. CASE prev
  <2>1. currentIndex - 1 \in 1 .. Len(playlist) + 1
    BY <1>0, <1>8 DEF prev
  <2>2. QED
    BY <1>0, <1>2, <1>8, <2>1, PlayingIsOK DEF prev
<1>9. CASE hidePlayer
  <2>1. /\ playlist' = <<>> /\ currentIndex' = 0 /\ isPlaying' = FALSE /\ stray' = FALSE
        /\ currentAudio' = NoAudio /\ prefetched' = NoAudio /\ plays' = FreshToken
        /\ yt' = ytStop
    BY <1>9 DEF hidePlayer
  <2>2. plays' \subseteq Plays /\ ~\E p \in plays' : p.current
    BY <1>0, <2>1, TokensOfPlays
  <2>3. yt' \in YtStates /\ ~yt'.sounds /\ ~yt'.pending
    BY <1>0, <2>1 DEF ytStop, YtStates
  <2>4. currentIndex' \in 0 .. Len(playlist') + 1
    BY <2>1
  <2>5. QED
    BY <2>1, <2>2, <2>3, <2>4 DEF PlayerOK
<1>10. QED
  BY <1>4, <1>5, <1>6, <1>7, <1>8, <1>9

\* What the browser and YouTube have to say.
LEMMA AnswersAreOK ==
    ASSUME PlayerInv, UNCHANGED expanding,
           \/ \E p \in plays : whenPlayable(p) \/ \E ok \in BOOLEAN : PlaySettles(p, ok)
           \/ AudioEnds \/ finishClip \/ onReady
    PROVE  PlayerOK'
<1>0. /\ plays \subseteq Plays /\ stray \in BOOLEAN /\ isPlaying \in BOOLEAN
      /\ yt \in YtStates /\ currentAudio \in Elements \cup {NoAudio}
      /\ currentAudio # NoAudio => Fits(currentAudio.source) /\ ~yt.sounds /\ ~yt.pending
      /\ (\E p \in plays : p.current) => currentAudio # NoAudio
      /\ currentIndex = 0 => currentAudio = NoAudio /\ ~yt.sounds /\ ~yt.pending
  BY DEF PlayerInv, PlayerOK
<1>2. UNCHANGED blob
  BY DEF expanding
<1>3. ASSUME NEW p \in plays, whenPlayable(p)
      PROVE  PlayerOK'
  <2>1. /\ plays' = (plays \ {p}) \cup
                    (IF p.current THEN {[p EXCEPT !.stage = "play"]} ELSE {})
        /\ UNCHANGED <<Here, isPlaying, currentAudio, stray, yt>>
    BY <1>3 DEF whenPlayable, latest
  <2>2. [p EXCEPT !.stage = "play"] \in Plays
    BY <1>0 DEF Plays
  <2>3. plays' \subseteq Plays
    BY <1>0, <2>1, <2>2
  <2>4. (\E q \in plays' : q.current) => currentAudio # NoAudio
    BY <1>0, <2>1
  <2>5. UNCHANGED <<playlist, currentIndex, prefetched>>
    BY <2>1 DEF Here
  <2>6. (OnYouTube' <=> OnYouTube) /\ \A s : Fits(s)' <=> Fits(s)
    BY <1>2, <2>5 DEF OnYouTube, currentResult, Fits
  <2>7. QED
    BY <2>1, <2>3, <2>4, <2>5, <2>6 DEF PlayerInv, PlayerOK
<1>4. ASSUME NEW p \in plays, NEW ok \in BOOLEAN, PlaySettles(p, ok)
      PROVE  PlayerOK'
  <2>1. /\ plays' = plays \ {p} /\ isPlaying' \in BOOLEAN
        /\ currentAudio' = IF p.current THEN [currentAudio EXCEPT !.sounds = ok]
                           ELSE currentAudio
        /\ UNCHANGED <<Here, stray, yt>>
    BY <1>0, <1>4 DEF PlaySettles, latest
  <2>2. CASE p.current
    <3>1. currentAudio \in Elements /\ currentAudio' = [currentAudio EXCEPT !.sounds = ok]
      BY <1>0, <2>1, <2>2
    <3>2. /\ currentAudio' \in Elements /\ currentAudio'.source = currentAudio.source
          /\ currentAudio' # NoAudio /\ currentAudio # NoAudio
      BY <3>1 DEF Elements, NoAudio
    <3>3. /\ currentIndex # 0 /\ plays' \subseteq Plays /\ stray' \in BOOLEAN
          /\ Fits(currentAudio'.source) /\ ~yt.sounds /\ ~yt.pending
      BY <1>0, <2>1, <3>2
    <3>4. PICK audio \in Elements : audio = currentAudio'
      BY <3>2
    <3>5. /\ yt' = yt /\ UNCHANGED Here /\ isPlaying' \in BOOLEAN
          /\ audio # NoAudio /\ currentAudio # NoAudio /\ Fits(audio.source)
      BY <2>1, <3>2, <3>3, <3>4
    <3>6. QED
      BY <1>0, <1>2, <3>3, <3>4, <3>5, StandingIsOK
  <2>3. CASE ~p.current
    <3>1. UNCHANGED <<playlist, currentIndex, prefetched, stray, yt, currentAudio>>
      BY <2>1, <2>3 DEF Here
    <3>2. (OnYouTube' <=> OnYouTube) /\ \A s : Fits(s)' <=> Fits(s)
      BY <1>2, <3>1 DEF OnYouTube, currentResult, Fits
    <3>3. QED
      BY <2>1, <3>1, <3>2 DEF PlayerInv, PlayerOK
  <2>4. QED
    BY <2>2, <2>3
<1>5. CASE AudioEnds
  <2> DEFINE audio == [currentAudio EXCEPT !.sounds = FALSE]
  <2>1. /\ currentAudio # NoAudio /\ currentAudio \in Elements /\ handleEnded(audio, yt)
        /\ currentIndex # 0
    BY <1>0, <1>5 DEF AudioEnds
  <2>2. audio \in Elements /\ audio.source = currentAudio.source /\ audio # NoAudio
    BY <2>1 DEF Elements, NoAudio
  <2> HIDE DEF audio
  <2>3. QED
    BY <1>0, <1>2, <2>1, <2>2, EndingIsOK
<1>6. CASE finishClip
  <2>1. yt.sounds /\ currentIndex # 0 /\ currentAudio = NoAudio
    BY <1>0, <1>6 DEF finishClip
  <2>2. ytStop \in YtStates
    BY <1>0 DEF ytStop, YtStates
  <2>3. CASE handleEnded(currentAudio, ytStop)
    BY <1>0, <1>2, <2>1, <2>2, <2>3, EndingIsOK
  <2>4. CASE yt' = ytStop /\ UNCHANGED player
    BY <1>0, <1>2, <2>1, <2>2, <2>4, StandingIsOK DEF player, Here
  <2>5. QED
    BY <1>6, <2>3, <2>4 DEF finishClip
<1>7. CASE onReady
  <2>1. /\ UNCHANGED player
        /\ yt' = [yt EXCEPT !.ready = TRUE, !.pending = FALSE, !.sounds = @ \/ yt.pending]
    BY <1>7 DEF onReady
  <2> DEFINE sounds == yt.sounds \/ yt.pending
  <2>2. sounds \in BOOLEAN /\ yt' = [yt EXCEPT !.ready = TRUE, !.pending = FALSE,
                                               !.sounds = sounds]
    BY <1>0, <2>1 DEF YtStates
  <2>3. sounds => currentAudio = NoAudio /\ currentIndex # 0
    BY <1>0
  <2> HIDE DEF sounds
  <2>4. yt' \in YtStates /\ ~yt'.pending /\ (yt'.sounds => sounds)
    BY <1>0, <2>2 DEF YtStates
  <2>5. UNCHANGED <<playlist, currentIndex, prefetched, plays, isPlaying, stray, currentAudio>>
    BY <2>1 DEF player
  <2>6. (OnYouTube' <=> OnYouTube) /\ \A s : Fits(s)' <=> Fits(s)
    BY <1>2, <2>5 DEF OnYouTube, currentResult, Fits
  <2>7. QED
    BY <2>3, <2>4, <2>5, <2>6 DEF PlayerInv, PlayerOK
<1>8. QED
  BY <1>3, <1>4, <1>5, <1>6, <1>7

\* Putting an expansion back leaves no joined audio, and nothing that is on one.
LEMMA RevertIsOK ==
    ASSUME PlayerInv, Reverts, UNCHANGED <<yt, blobs>>
    PROVE  /\ PlayerOK' /\ blob' \in [Clips -> 0 .. MaxBlobs]
           /\ \A c \in Clips : blob'[c] = 0
           /\ revoked' = 1 .. blobs
<1>0. /\ blob \in [Clips -> 0 .. MaxBlobs] /\ blobs \in 0 .. MaxBlobs
      /\ revoked \subseteq 1 .. blobs /\ expansion \in Clips \cup {NoClip}
      /\ \A c \in Clips : blob[c] # 0 =>
           c = expansion /\ blob[c] \in 1 .. blobs /\ blob[c] \notin revoked
      /\ \A n \in (1 .. blobs) \ revoked : expansion # NoClip /\ blob[expansion] = n
  BY DEF PlayerInv, BlobsOK
<1>1. CASE expansion # NoClip /\ blob[expansion] # 0
  <2> DEFINE source == resolveAudioSource(expansion)
  <2>1. /\ releaseIfSource(source) /\ revoked' = revoked \cup {blob[expansion]}
        /\ blob' = [blob EXCEPT ![expansion] = 0]
    BY <1>1 DEF Reverts
  <2>2. blob' \in [Clips -> 0 .. MaxBlobs] /\ \A c \in Clips : blob'[c] = 0
    BY <1>0, <1>1, <2>1, PlayerAssumption
  <2>3. revoked' = 1 .. blobs
    <3>1. blob[expansion] \in 1 .. blobs
      BY <1>0, <1>1
    <3>2. \A n \in (1 .. blobs) \ revoked : n = blob[expansion]
      BY <1>0
    <3>3. QED
      BY <1>0, <2>1, <3>1, <3>2
  <2>4. \A s \in Sources : Fits(s) /\ s # source => s.blob = 0
    BY <1>0, <1>1 DEF Fits, Sources, resolveAudioSource
  <2>5. /\ prefetched' = IF prefetched = source THEN NoAudio ELSE prefetched
        /\ IF currentAudio # NoAudio /\ currentAudio.source = source
             THEN currentAudio' = NoAudio /\ plays' = FreshToken /\ isPlaying' = FALSE
             ELSE UNCHANGED <<currentAudio, plays, isPlaying>>
        /\ UNCHANGED <<playlist, currentIndex, stray, yt>>
    BY <2>1 DEF releaseIfSource
  <2>6. prefetched' \in Sources \cup {NoAudio} /\ (prefetched # NoAudio => Fits(prefetched))'
    <3>1. prefetched' # NoAudio =>
            prefetched' = prefetched /\ prefetched \in Sources /\ prefetched.blob = 0
      BY <2>4, <2>5 DEF PlayerInv, PlayerOK
    <3>2. QED
      BY <3>1 DEF Fits
  <2>7. OnYouTube' <=> OnYouTube
    BY <2>5 DEF OnYouTube, currentResult
  <2>8. CASE currentAudio # NoAudio /\ currentAudio.source = source
    <3>1. plays' \subseteq Plays /\ ~\E p \in plays' : p.current
      BY <2>5, <2>8, TokensOfPlays DEF PlayerInv, PlayerOK
    <3>2. QED
      BY <2>2, <2>3, <2>5, <2>6, <2>7, <2>8, <3>1 DEF PlayerInv, PlayerOK
  <2>9. CASE ~(currentAudio # NoAudio /\ currentAudio.source = source)
    <3>1. (currentAudio # NoAudio => Fits(currentAudio.source))'
      <4>1. currentAudio # NoAudio => currentAudio.source \in Sources /\ Fits(currentAudio.source)
        BY DEF PlayerInv, PlayerOK, Elements
      <4>2. currentAudio # NoAudio => currentAudio'.source.blob = 0
        BY <2>4, <2>5, <2>9, <4>1
      <4>3. currentAudio' = currentAudio
        BY <2>5, <2>9
      <4>4. QED
        BY <4>2, <4>3 DEF Fits
    <3>2. QED
      BY <2>2, <2>3, <2>5, <2>6, <2>7, <2>9, <3>1 DEF PlayerInv, PlayerOK
  <2>10. QED
    BY <2>8, <2>9
<1>2. CASE ~(expansion # NoClip /\ blob[expansion] # 0)
  <2>1. UNCHANGED <<player, revoked, blob, yt>>
    BY <1>2 DEF Reverts
  <2>2. \A c \in Clips : blob[c] = 0
    BY <1>0, <1>2, PlayerAssumption
  <2>3. revoked = 1 .. blobs
    <3>1. (1 .. blobs) \ revoked = {}
      <4>1. \A n \in 1 .. blobs : n # 0
        BY <1>0, PlayerAssumption
      <4>2. QED
        BY <1>0, <1>2, <4>1
    <3>2. QED
      BY <1>0, <3>1
  <2>4. UNCHANGED <<playlist, currentIndex, isPlaying, currentAudio, prefetched, plays, stray,
                    yt, blob>>
    BY <2>1 DEF player
  <2>5. (OnYouTube' <=> OnYouTube) /\ \A s : Fits(s)' <=> Fits(s)
    BY <2>4 DEF OnYouTube, currentResult, Fits
  <2>6. PlayerOK'
    BY <2>4, <2>5 DEF PlayerInv, PlayerOK
  <2>7. QED
    BY <1>0, <2>1, <2>2, <2>3, <2>6
<1>3. QED
  BY <1>1, <1>2

\* Expanding a sentence, and what becomes of it.
LEMMA ExpandingIsOK ==
    ASSUME PlayerInv,
           \/ \E c \in Clips : loadNextSegment(c)
           \/ revertActiveConcatenation \/ ContextArrives \/ AudioIsBuilt \/ PageIsLeft
    PROVE  PlayerInv'
<1>0. /\ blob \in [Clips -> 0 .. MaxBlobs] /\ blobs \in 0 .. MaxBlobs
      /\ revoked \subseteq 1 .. blobs /\ expansion \in Clips \cup {NoClip}
      /\ building \in Builds \cup {NoClip}
      /\ \A c \in Clips : blob[c] # 0 =>
           c = expansion /\ blob[c] \in 1 .. blobs /\ blob[c] \notin revoked
      /\ \A n \in (1 .. blobs) \ revoked : expansion # NoClip /\ blob[expansion] = n
      /\ building # NoClip => blobs < MaxBlobs
      /\ building # NoClip /\ building.stage = "audio" => \A c \in Clips : blob[c] = 0
  BY DEF PlayerInv, BlobsOK
<1>1. ASSUME Reverts, UNCHANGED <<yt, blobs>>, expansion' \in Clips \cup {NoClip},
             building' \in Builds \cup {NoClip}, building' # NoClip => building # NoClip
      PROVE  PlayerInv'
  <2>1. /\ PlayerOK' /\ blob' \in [Clips -> 0 .. MaxBlobs]
        /\ \A c \in Clips : blob'[c] = 0
        /\ revoked' = 1 .. blobs /\ blobs' = blobs
    BY <1>1, RevertIsOK
  <2>2. (1 .. blobs') \ revoked' = {} /\ revoked' \subseteq 1 .. blobs'
    BY <2>1
  <2>3. BlobsOK'
    BY <1>0, <1>1, <2>1, <2>2 DEF BlobsOK
  <2>4. QED
    BY <2>1, <2>3 DEF PlayerInv
<1>2. ASSUME UNCHANGED <<player, yt, blob>>
      PROVE  PlayerOK'
  <2>1. UNCHANGED <<playlist, currentIndex, isPlaying, currentAudio, prefetched, plays, stray,
                    yt, blob>>
    BY <1>2 DEF player
  <2>2. (OnYouTube' <=> OnYouTube) /\ \A s : Fits(s)' <=> Fits(s)
    BY <2>1 DEF OnYouTube, currentResult, Fits
  <2>3. QED
    BY <2>1, <2>2 DEF PlayerInv, PlayerOK
<1>3. ASSUME NEW c \in Clips, loadNextSegment(c)
      PROVE  PlayerInv'
  <2>1. /\ building' = [of |-> c, stage |-> "context", gone |-> FALSE]
        /\ UNCHANGED <<player, yt, blob, blobs, revoked, expansion>> /\ blobs < MaxBlobs
    BY <1>3 DEF loadNextSegment
  <2>2. building' \in Builds /\ building'.stage # "audio"
    BY <2>1 DEF Builds
  <2>3. BlobsOK'
    BY <1>0, <2>1, <2>2 DEF BlobsOK
  <2>4. QED
    BY <1>2, <2>1, <2>3 DEF PlayerInv
<1>4. CASE revertActiveConcatenation
  BY <1>0, <1>1, <1>4 DEF revertActiveConcatenation
<1>5. CASE ContextArrives
  <2>1. UNCHANGED <<yt, blobs>> /\ building # NoClip /\ building \in Builds
    BY <1>0, <1>5 DEF ContextArrives
  <2>2. CASE /\ Reverts /\ expansion' = building.of
             /\ building' = [building EXCEPT !.stage = "audio"]
    <3>1. expansion' \in Clips /\ building' \in Builds
      BY <2>1, <2>2 DEF Builds
    <3>2. QED
      BY <1>1, <2>1, <2>2, <3>1
  <2>3. CASE building' = NoClip /\ UNCHANGED <<player, blob, revoked, expansion>>
    <3>1. BlobsOK'
      BY <1>0, <2>1, <2>3 DEF BlobsOK
    <3>2. QED
      BY <1>2, <2>1, <2>3, <3>1 DEF PlayerInv
  <2>4. QED
    BY <1>5, <2>2, <2>3 DEF ContextArrives
<1>6. CASE AudioIsBuilt
  <2>1. /\ building # NoClip /\ building.stage = "audio" /\ building' = NoClip
        /\ UNCHANGED <<player, yt, expansion>> /\ building \in Builds
        /\ \A c \in Clips : blob[c] = 0
    BY <1>0, <1>6 DEF AudioIsBuilt
  <2>2. revoked = 1 .. blobs
    <3>1. \A n \in 1 .. blobs : n # 0
      BY <1>0, PlayerAssumption
    <3>2. QED
      BY <1>0, <2>1, <3>1
  <2>3. CASE UNCHANGED <<blobs, blob, revoked>>
    <3>1. BlobsOK'
      BY <1>0, <2>1, <2>3 DEF BlobsOK
    <3>2. QED
      BY <1>2, <2>1, <2>3, <3>1 DEF PlayerInv
  <2>4. CASE /\ blobs' = blobs + 1
             /\ isStillExpanded(building)
             /\ blob' = [blob EXCEPT ![building.of] = blobs'] /\ UNCHANGED revoked
    <3>1. building.of \in Clips /\ expansion = building.of
      BY <2>1, <2>4 DEF Builds, isStillExpanded
    <3>2. /\ blobs + 1 \in 1 .. MaxBlobs /\ blobs + 1 \notin 1 .. blobs
          /\ 1 .. blobs + 1 = (1 .. blobs) \cup {blobs + 1}
      BY <1>0, <2>1, PlayerAssumption
    <3>3. /\ blob'[expansion] = blobs + 1 /\ blob' \in [Clips -> 0 .. MaxBlobs]
          /\ \A c \in Clips : c # expansion => blob'[c] = 0
      BY <1>0, <2>1, <2>4, <3>1, <3>2
    <3>4. \A c \in Clips : blob'[c] # 0 =>
            c = expansion /\ blob'[c] \in 1 .. blobs' /\ blob'[c] \notin revoked'
      BY <2>2, <2>4, <3>2, <3>3
    <3>5. \A n \in (1 .. blobs') \ revoked' : expansion # NoClip /\ blob'[expansion] = n
      BY <2>2, <2>4, <3>1, <3>2, <3>3, PlayerAssumption
    <3>6. BlobsOK'
      BY <1>0, <2>1, <2>2, <2>4, <3>2, <3>3, <3>4, <3>5 DEF BlobsOK
    <3>7. \A s : s \in Sources /\ Fits(s) => Fits(s)'
      BY <2>1 DEF Fits, Sources
    <3>8. PlayerOK'
      <4>1. UNCHANGED <<playlist, currentIndex, isPlaying, currentAudio, prefetched, plays,
                        stray, yt>>
        BY <2>1 DEF player
      <4>2. OnYouTube' <=> OnYouTube
        BY <4>1 DEF OnYouTube, currentResult
      <4>3. currentAudio # NoAudio => currentAudio.source \in Sources
        BY DEF PlayerInv, PlayerOK, Elements
      <4>4. QED
        BY <3>7, <4>1, <4>2, <4>3 DEF PlayerInv, PlayerOK
    <3>9. QED
      BY <3>6, <3>8 DEF PlayerInv
  <2>5. CASE /\ blobs' = blobs + 1
             /\ revoked' = revoked \cup {blobs'} /\ UNCHANGED blob
    <3>1. blobs' \in 0 .. MaxBlobs /\ (1 .. blobs') \ revoked' = {}
          /\ revoked' \subseteq 1 .. blobs'
      BY <1>0, <2>1, <2>2, <2>5, PlayerAssumption
    <3>2. BlobsOK'
      BY <1>0, <2>1, <2>5, <3>1 DEF BlobsOK
    <3>3. QED
      BY <1>2, <2>1, <2>5, <3>2 DEF PlayerInv
  <2>6. QED
    BY <1>6, <2>3, <2>4, <2>5 DEF AudioIsBuilt
<1>7. CASE PageIsLeft
  <2>1. building' \in Builds \cup {NoClip}
    <3>1. building # NoClip => [building EXCEPT !.gone = TRUE] \in Builds
      BY <1>0 DEF Builds
    <3>2. QED
      BY <1>7, <3>1 DEF PageIsLeft
  <2>2. QED
    BY <1>1, <1>7, <2>1 DEF PageIsLeft
<1>8. QED
  BY <1>3, <1>4, <1>5, <1>6, <1>7

LEMMA PlayerInvHolds == PlayerSpec => []PlayerInv
<1>1. ASSUME PlayerInv, UNCHANGED expanding
      PROVE  BlobsOK'
  <2>1. UNCHANGED <<blob, blobs, revoked, expansion, building>>
    BY <1>1 DEF expanding
  <2>2. QED
    BY <1>1, <2>1 DEF PlayerInv, BlobsOK
<1>2. PlayerInv /\ [PlayerNext]_plvars => PlayerInv'
  <2> SUFFICES ASSUME PlayerInv, [PlayerNext]_plvars
               PROVE  PlayerInv'
    OBVIOUS
  <2>1. CASE \/ \E list \in Lists : \E i \in 1 .. Len(list) + 1 : setPlaylist(list, i)
             \/ togglePlay \/ restart \/ next \/ prev \/ hidePlayer
    <3>1. UNCHANGED expanding
      BY <2>1 DEF setPlaylist, togglePlay, restart, next, prev, hidePlayer
    <3>2. QED
      BY <1>1, <2>1, <3>1, ReaderIsOK DEF PlayerInv
  <2>2. CASE \/ \E p \in plays : whenPlayable(p) \/ \E ok \in BOOLEAN : PlaySettles(p, ok)
             \/ AudioEnds \/ finishClip \/ onReady
    <3>1. UNCHANGED expanding
      BY <2>2 DEF whenPlayable, PlaySettles, AudioEnds, finishClip, onReady
    <3>2. QED
      BY <1>1, <2>2, <3>1, AnswersAreOK DEF PlayerInv
  <2>3. CASE \/ \E c \in Clips : loadNextSegment(c)
             \/ revertActiveConcatenation \/ ContextArrives \/ AudioIsBuilt \/ PageIsLeft
    BY <2>3, ExpandingIsOK
  <2>4. CASE UNCHANGED plvars
    <3>1. UNCHANGED <<player, yt, expanding>>
      BY <2>4 DEF plvars
    <3>2. UNCHANGED <<playlist, currentIndex, isPlaying, currentAudio, prefetched, plays,
                      stray, yt, blob>>
      BY <3>1 DEF player, expanding
    <3>3. (OnYouTube' <=> OnYouTube) /\ \A s : Fits(s)' <=> Fits(s)
      BY <3>2 DEF OnYouTube, currentResult, Fits
    <3>4. PlayerOK'
      BY <3>2, <3>3 DEF PlayerInv, PlayerOK
    <3>5. QED
      BY <1>1, <3>1, <3>4 DEF PlayerInv
  <2>5. QED
    BY <2>1, <2>2, <2>3, <2>4 DEF PlayerNext
<1>3. QED
  BY <1>2, InitIsOK, PTL DEF PlayerSpec

-----------------------------------------------------------------------------
\* The element and the YouTube player are never heard together, and a player that is
\* closed is silent and stays so, whatever promise of play() is still to settle.
THEOREM OneVoiceAtATime == PlayerSpec => []OneVoice
<1>1. PlayerInv => OneVoice
  BY DEF PlayerInv, PlayerOK, OneVoice, AudioSounds, OnItsWay
<1>2. QED
  BY <1>1, PlayerInvHolds, PTL

\* Nothing is on an object URL that was released, and every one that was not is that of
\* the expansion on the page.
THEOREM BlobsDoNotLeak == PlayerSpec => []BlobsAreReleased
<1>1. ASSUME PlayerInv, NEW s \in Sources, Fits(s)
      PROVE  s.blob \notin revoked
  <2>1. s.of \in Clips /\ blobs \in Nat /\ revoked \subseteq 1 .. blobs
    BY <1>1, PlayerAssumption DEF Sources, PlayerInv, BlobsOK
  <2>2. CASE blob[s.of] # 0
    BY <1>1, <2>1, <2>2 DEF Fits, PlayerInv, BlobsOK
  <2>3. CASE s.blob = 0
    BY <2>1, <2>3
  <2>4. QED
    BY <1>1, <2>2, <2>3 DEF Fits
<1>2. PlayerInv => BlobsAreReleased
  <2> SUFFICES ASSUME PlayerInv
               PROVE  BlobsAreReleased
    OBVIOUS
  <2>1. currentAudio # NoAudio => currentAudio.source.blob \notin revoked
    BY <1>1 DEF PlayerInv, PlayerOK, Elements
  <2>2. prefetched # NoAudio => prefetched.blob \notin revoked
    BY <1>1 DEF PlayerInv, PlayerOK
  <2>3. QED
    BY <2>1, <2>2 DEF BlobsAreReleased, PlayerInv, BlobsOK
<1>3. QED
  BY <1>2, PlayerInvHolds, PTL
-----------------------------------------------------------------------------
\* The button.  A YouTube player that is not there yet holds what it was told last, and
\* will play it unless the reader was shown a pause for it; one that sounds without a
\* clip has been restarted after its end, which is what puts the button out of step.

YtKept(y) ==
    /\ y.active # NoClip /\ ~y.ready => y.pending
    /\ y.pending => y.active # NoClip

ButtonInv ==
    /\ ButtonTellsTheTruth /\ YtKept(yt)
    /\ yt.sounds /\ yt.active = NoClip => stray
    /\ yt.pending /\ ~stray => isPlaying

LEMMA YtOperators ==
    ASSUME NEW c \in Clips, yt \in YtStates, YtKept(yt)
    PROVE  /\ YtKept(ytPlay(c)) /\ ytPlay(c).active # NoClip
           /\ ytPlay(c).sounds \/ ytPlay(c).pending
           /\ YtKept(ytResume) /\ ytResume.sounds = yt.ready
           /\ ytResume.active = yt.active /\ ytResume.pending = yt.pending
           /\ YtKept(ytPause) /\ YtKept(ytStop)
<1>1. c # NoClip
  BY PlayerAssumption
<1>2. ytPlay(c).active = c /\ ytPlay(c).pending = ~yt.ready /\ ytPlay(c).sounds = yt.ready
      /\ ytPlay(c).ready = yt.ready
  BY DEF ytPlay, YtStates
<1>3. ytResume.active = yt.active /\ ytResume.pending = yt.pending
      /\ ytResume.ready = yt.ready /\ ytResume.sounds = yt.ready
  BY DEF ytResume, YtStates
<1>4. ytPause.active = yt.active /\ ytPause.pending = yt.pending /\ ytPause.ready = yt.ready
  BY DEF ytPause, YtStates
<1>5. ytStop.active = NoClip /\ ytStop.pending = FALSE
  BY DEF ytStop, YtStates
<1>6. QED
  BY <1>1, <1>2, <1>3, <1>4, <1>5 DEF YtKept

LEMMA BegunIsCurrent ==
    ASSUME NEW stage \in {"play", "wait"}, Begins(stage)
    PROVE  \E p \in plays' : p.current
<1> DEFINE begun == [stage |-> stage, current |-> TRUE]
<1>1. begun \in plays' /\ begun.current
  BY DEF Begins
<1> HIDE DEF begun
<1>2. QED
  BY <1>1

\* A clip that is played sets the button right.
LEMMA PlayingSetsTheButton ==
    ASSUME PlayerInv, YtKept(yt), NEW list \in Lists \cup {<<>>}, NEW i \in Nat,
           NEW y \in YtStates, YtKept(y), playCurrent(list, i, y)
    PROVE  ButtonInv'
<1> DEFINE c == ClipAt(list, i)
<1>1. plays \subseteq Plays /\ yt \in YtStates
  BY DEF PlayerInv, PlayerOK
<1>2. \A p \in FreshToken : ~p.current
  BY <1>1, TokensOfPlays
<1>3. CASE c = NoClip
  <2>1. /\ currentAudio' = NoAudio /\ plays' = FreshToken /\ isPlaying' = FALSE
        /\ yt' = y /\ stray' = (y.sounds \/ y.pending)
    BY <1>3, PlayerAssumption DEF playCurrent
  <2>2. ButtonTellsTheTruth'
    BY <1>2, <2>1 DEF ButtonTellsTheTruth, AudioSounds, OnItsWay
  <2>3. QED
    BY <2>1, <2>2 DEF ButtonInv, YtKept
<1>4. CASE c \in YouTube
  <2>1. /\ currentAudio' = NoAudio /\ isPlaying' = TRUE /\ yt' = ytPlay(c)
    BY <1>4, PlayerAssumption DEF playCurrent
  <2>2. /\ YtKept(ytPlay(c)) /\ ytPlay(c).active # NoClip
        /\ ytPlay(c).sounds \/ ytPlay(c).pending
    BY <1>1, <1>4, YtOperators, PlayerAssumption
  <2>3. ButtonTellsTheTruth'
    BY <2>1, <2>2 DEF ButtonTellsTheTruth, AudioSounds, OnItsWay
  <2>4. QED
    BY <2>1, <2>2, <2>3 DEF ButtonInv, YtKept
<1>5. CASE c \in Clips \ YouTube
  <2>1. (\E stage \in {"play", "wait"} : Begins(stage)) /\ yt' = ytStop
    BY <1>5, PlayerAssumption DEF playCurrent
  <2>2. ytStop.active = NoClip /\ ytStop.pending = FALSE /\ ytStop.sounds = FALSE
    BY <1>1 DEF ytStop, YtStates
  <2>3. \E p \in plays' : p.current
    BY <2>1, BegunIsCurrent
  <2>4. ButtonTellsTheTruth'
    BY <2>3 DEF ButtonTellsTheTruth, OnItsWay
  <2>5. QED
    BY <2>1, <2>2, <2>4 DEF ButtonInv, YtKept
<1>6. QED
  <2>1. c \in Clips \cup {NoClip}
    BY ClipOfList
  <2>2. QED
    BY <1>3, <1>4, <1>5, <2>1

\* What is there goes on.
LEMMA GoingOnSetsTheButton ==
    ASSUME PlayerInv, ButtonInv, OnYouTube \/ currentAudio # NoAudio, OnWith,
           stray' \in BOOLEAN, stray => stray',
           OnYouTube /\ yt.active = NoClip => stray'
    PROVE  ButtonInv'
<1>1. /\ plays \subseteq Plays /\ currentAudio \in Elements \cup {NoAudio} /\ yt \in YtStates
      /\ currentAudio # NoAudio => ~yt.sounds /\ ~yt.pending
      /\ OnYouTube => currentAudio = NoAudio /\ currentResult \in Clips
  BY PlayerAssumption DEF PlayerInv, PlayerOK, OnYouTube
<1>2. isPlaying' = TRUE
  BY DEF OnWith
<1>3. CASE OnYouTube
  <2>1. yt' = ytResume /\ plays' = FreshToken /\ currentAudio' = NoAudio
    BY <1>1, <1>3 DEF OnWith
  <2>2. /\ YtKept(ytResume) /\ ytResume.sounds = yt.ready
        /\ ytResume.active = yt.active /\ ytResume.pending = yt.pending
    BY <1>1, <1>3, YtOperators DEF ButtonInv
  <2>3. yt.active # NoClip => yt.ready \/ yt.pending
    BY DEF ButtonInv, YtKept
  <2>4. ButtonTellsTheTruth'
    BY <1>2, <1>3, <2>1, <2>2, <2>3 DEF ButtonTellsTheTruth, OnItsWay
  <2>5. QED
    BY <1>2, <1>3, <2>1, <2>2, <2>4 DEF ButtonInv, YtKept
<1>4. CASE ~OnYouTube
  <2>1. startAudio /\ yt' = yt /\ currentAudio # NoAudio
    BY <1>4 DEF OnWith
  <2>2. \E p \in plays' : p.current
    BY <2>1, BegunIsCurrent DEF startAudio
  <2>3. ButtonTellsTheTruth'
    BY <2>2 DEF ButtonTellsTheTruth, OnItsWay
  <2>4. QED
    BY <1>1, <1>2, <2>1, <2>3 DEF ButtonInv, YtKept
<1>5. QED
  BY <1>3, <1>4

LEMMA AdvancingSetsTheButton ==
    ASSUME PlayerInv, ButtonInv, NEW audio \in Elements \cup {NoAudio}, NEW y \in YtStates,
           YtKept(y), y.sounds /\ y.active = NoClip => stray, Advance(audio, y)
    PROVE  ButtonInv'
<1>1. playlist \in Lists \cup {<<>>} /\ currentIndex \in 0 .. Len(playlist) + 1
      /\ playlist \in Seq(Clips)
  BY ClipOfList DEF PlayerInv, PlayerOK
<1>2. CASE currentIndex \in 1 .. Len(playlist) - 1
  <2>1. currentIndex + 1 \in Nat
    BY <1>1
  <2>2. playCurrent(playlist, currentIndex + 1, y)
    BY <1>2 DEF Advance
  <2>3. QED
    BY <1>1, <2>1, <2>2, PlayingSetsTheButton DEF ButtonInv
<1>3. CASE currentIndex \notin 1 .. Len(playlist) - 1
  <2>1. /\ isPlaying' = FALSE /\ currentAudio' = audio /\ yt' = y
        /\ stray' = (stray \/ (audio # NoAudio /\ audio.sounds) \/ y.sounds \/ y.pending)
    BY <1>3 DEF Advance
  <2>2. ButtonTellsTheTruth'
    BY <2>1 DEF ButtonTellsTheTruth, AudioSounds
  <2>3. QED
    BY <2>1, <2>2 DEF ButtonInv, YtKept
<1>4. QED
  BY <1>2, <1>3

\* What ends is silent, and so is the other.
LEMMA EndingSetsTheButton ==
    ASSUME PlayerInv, ButtonInv, NEW audio \in Elements \cup {NoAudio}, NEW y \in YtStates,
           YtKept(y), ~y.sounds, ~y.pending, ~(audio # NoAudio /\ audio.sounds),
           handleEnded(audio, y)
    PROVE  ButtonInv'
<1>1. playlist \in Lists \cup {<<>>} /\ currentIndex \in 0 .. Len(playlist) + 1
      /\ playlist \in Seq(Clips)
  BY ClipOfList DEF PlayerInv, PlayerOK
<1>2. CASE playCurrent(playlist, currentIndex, y)
  <2>1. currentIndex \in Nat
    BY <1>1
  <2>2. QED
    BY <1>1, <1>2, <2>1, PlayingSetsTheButton DEF ButtonInv
<1>3. CASE Advance(audio, y)
  BY <1>3, AdvancingSetsTheButton
<1>4. CASE /\ isPlaying' = FALSE /\ currentAudio' = audio /\ yt' = y
           /\ UNCHANGED <<Here, plays, stray>>
  <2>1. ButtonTellsTheTruth'
    BY <1>4 DEF ButtonTellsTheTruth, AudioSounds
  <2>2. QED
    BY <1>4, <2>1 DEF ButtonInv, YtKept
<1>5. QED
  BY <1>2, <1>3, <1>4 DEF handleEnded
LEMMA ReaderSetsTheButton ==
    ASSUME PlayerInv, ButtonInv,
           \/ \E list \in Lists : \E i \in 1 .. Len(list) + 1 : setPlaylist(list, i)
           \/ togglePlay \/ restart \/ next \/ prev \/ hidePlayer
    PROVE  ButtonInv'
<1>0. /\ playlist \in Lists \cup {<<>>} /\ currentIndex \in 0 .. Len(playlist) + 1
      /\ playlist \in Seq(Clips) /\ yt \in YtStates /\ YtKept(yt) /\ stray \in BOOLEAN
      /\ plays \subseteq Plays /\ currentAudio \in Elements \cup {NoAudio}
      /\ currentAudio # NoAudio => ~yt.sounds /\ ~yt.pending
      /\ OnYouTube => currentAudio = NoAudio /\ currentResult \in Clips
  BY ClipOfList, PlayerAssumption DEF PlayerInv, PlayerOK, ButtonInv, OnYouTube
<1>1. ASSUME playCurrent(playlist, currentIndex, yt)
      PROVE  ButtonInv'
  <2>1. currentIndex \in Nat
    BY <1>0
  <2>2. QED
    BY <1>0, <1>1, <2>1, PlayingSetsTheButton
<1>2. ASSUME NEW list \in Lists, NEW i \in 1 .. Len(list) + 1, setPlaylist(list, i)
      PROVE  ButtonInv'
  <2>1. i \in Nat /\ playCurrent(list, i, yt)
    BY <1>2, PlayerAssumption DEF setPlaylist
  <2>2. QED
    BY <1>0, <2>1, PlayingSetsTheButton
<1>3. CASE togglePlay /\ pause
  <2>1. plays' = FreshToken /\ isPlaying' = FALSE /\ (OnYouTube \/ currentAudio # NoAudio)
    BY <1>3 DEF pause
  <2>2. CASE OnYouTube
    <3>1. yt' = ytPause /\ stray' = (stray \/ yt.pending) /\ currentAudio' = NoAudio
      BY <1>0, <1>3, <2>2 DEF pause
    <3>2. /\ ytPause.sounds = FALSE /\ ytPause.pending = yt.pending
          /\ YtKept(ytPause)
      BY <1>0, <2>2, YtOperators, TypesOfYt
    <3>3. ButtonTellsTheTruth'
      BY <2>1, <3>1, <3>2 DEF ButtonTellsTheTruth, AudioSounds
    <3>4. QED
      BY <3>1, <3>2, <3>3 DEF ButtonInv, YtKept
  <2>3. CASE ~OnYouTube
    <3>1. /\ currentAudio' = [currentAudio EXCEPT !.sounds = FALSE]
          /\ UNCHANGED <<yt, stray>> /\ currentAudio \in Elements
      BY <1>0, <1>3, <2>1, <2>3 DEF pause
    <3>2. currentAudio'.sounds = FALSE
      BY <3>1 DEF Elements
    <3>3. yt' = yt /\ stray' = stray /\ ~yt.sounds /\ ~yt.pending
      BY <1>0, <2>1, <2>3, <3>1
    <3>4. ButtonTellsTheTruth'
      BY <2>1, <3>2, <3>3 DEF ButtonTellsTheTruth, AudioSounds
    <3>5. QED
      BY <3>3, <3>4 DEF ButtonInv, YtKept
  <2>4. QED
    BY <2>2, <2>3
<1>4. CASE togglePlay /\ play
  <2>1. CASE playCurrent(playlist, currentIndex, yt)
    BY <1>1, <2>1
  <2>2. CASE /\ OnWith /\ UNCHANGED stray
             /\ \/ OnYouTube /\ yt.active = currentResult
                \/ ~OnYouTube /\ currentAudio # NoAudio
    <3>1. OnYouTube => yt.active # NoClip
      BY <1>0, <2>2, PlayerAssumption
    <3>2. QED
      BY <1>0, <2>2, <3>1, GoingOnSetsTheButton
  <2>3. QED
    BY <1>4, <2>1, <2>2 DEF play
<1>5. CASE restart
  <2>1. CASE playCurrent(playlist, currentIndex, yt)
    BY <1>1, <2>1
  <2>2. CASE /\ OnYouTube \/ currentAudio # NoAudio
             /\ OnWith /\ stray' = (stray \/ (OnYouTube /\ yt.active # currentResult))
    <3>1. currentResult # NoClip
      BY <1>5 DEF restart
    <3>2. /\ stray' \in BOOLEAN /\ (stray => stray')
          /\ (OnYouTube /\ yt.active = NoClip => stray')
      BY <2>2, <3>1
    <3>3. QED
      BY <2>2, <3>2, GoingOnSetsTheButton
  <2>3. QED
    BY <1>5, <2>1, <2>2 DEF restart
<1>6. CASE next
  <2>1. Advance(currentAudio, yt)
    BY <1>6 DEF next
  <2>2. yt.sounds /\ yt.active = NoClip => stray
    BY DEF ButtonInv
  <2>3. QED
    BY <1>0, <2>1, <2>2, AdvancingSetsTheButton
<1>7. CASE prev
  <2>1. currentIndex - 1 \in Nat
    BY <1>0, <1>7 DEF prev
  <2>2. playCurrent(playlist, currentIndex - 1, yt)
    BY <1>7 DEF prev
  <2>3. QED
    BY <1>0, <2>1, <2>2, PlayingSetsTheButton
<1>8. CASE hidePlayer
  <2>1. isPlaying' = FALSE /\ currentAudio' = NoAudio /\ yt' = ytStop
    BY <1>8 DEF hidePlayer
  <2>2. ytStop.active = NoClip /\ ytStop.pending = FALSE /\ ytStop.sounds = FALSE
    BY <1>0 DEF ytStop, YtStates
  <2>3. ButtonTellsTheTruth'
    BY <2>1, <2>2 DEF ButtonTellsTheTruth, AudioSounds
  <2>4. QED
    BY <2>1, <2>2, <2>3 DEF ButtonInv, YtKept
<1>9. QED
  BY <1>2, <1>3, <1>4, <1>5, <1>6, <1>7, <1>8 DEF togglePlay

LEMMA AnswersSetTheButton ==
    ASSUME PlayerInv, ButtonInv,
           \/ \E p \in plays : whenPlayable(p) \/ \E ok \in BOOLEAN : PlaySettles(p, ok)
           \/ AudioEnds \/ finishClip \/ onReady
    PROVE  ButtonInv'
<1>0. /\ yt \in YtStates /\ YtKept(yt) /\ plays \subseteq Plays /\ stray \in BOOLEAN
      /\ currentAudio \in Elements \cup {NoAudio}
      /\ currentAudio # NoAudio => ~yt.sounds /\ ~yt.pending
      /\ (\E p \in plays : p.current) => currentAudio # NoAudio
  BY DEF PlayerInv, PlayerOK, ButtonInv
<1>1. ASSUME NEW p \in plays, whenPlayable(p)
      PROVE  ButtonInv'
  <2>1. /\ plays' = (plays \ {p}) \cup
                    (IF p.current THEN {[p EXCEPT !.stage = "play"]} ELSE {})
        /\ UNCHANGED <<isPlaying, currentAudio, stray, yt>>
    BY <1>1 DEF whenPlayable, latest
  <2>2. (\E q \in plays : q.current) => \E q \in plays' : q.current
    <3>1. p.current => [p EXCEPT !.stage = "play"].current
      BY <1>0 DEF Plays
    <3>2. p.current => \E q \in plays' : q.current
      BY <2>1, <3>1
    <3>3. QED
      BY <2>1, <3>2
  <2>3. ButtonTellsTheTruth'
    BY <2>1, <2>2 DEF ButtonInv, ButtonTellsTheTruth, AudioSounds, OnItsWay
  <2>4. QED
    BY <2>1, <2>3 DEF ButtonInv, YtKept
<1>2. ASSUME NEW p \in plays, NEW ok \in BOOLEAN, PlaySettles(p, ok)
      PROVE  ButtonInv'
  <2>1. /\ plays' = plays \ {p} /\ stray' = stray /\ yt' = yt
        /\ isPlaying' = IF p.current THEN ok ELSE isPlaying
        /\ currentAudio' = IF p.current THEN [currentAudio EXCEPT !.sounds = ok]
                           ELSE currentAudio
    BY <1>2 DEF PlaySettles, latest
  <2>2. CASE p.current
    <3>1. currentAudio \in Elements /\ ~yt.sounds /\ ~yt.pending
      BY <1>0, <2>2 
    <3>2. currentAudio'.sounds = ok /\ currentAudio' # NoAudio
      BY <2>1, <2>2, <3>1 DEF Elements, NoAudio
    <3>3. ButtonTellsTheTruth'
      BY <2>1, <2>2, <3>1, <3>2 DEF ButtonTellsTheTruth, AudioSounds
    <3>4. QED
      BY <2>1, <3>1, <3>3 DEF ButtonInv, YtKept
  <2>3. CASE ~p.current
    <3>1. (\E q \in plays : q.current) => \E q \in plays' : q.current
      BY <2>1, <2>3
    <3>2. isPlaying' = isPlaying /\ currentAudio' = currentAudio
      BY <2>1, <2>3
    <3>3. ButtonTellsTheTruth'
      BY <2>1, <3>1, <3>2 DEF ButtonInv, ButtonTellsTheTruth, AudioSounds, OnItsWay
    <3>4. QED
      BY <2>1, <3>2, <3>3 DEF ButtonInv, YtKept
  <2>4. QED
    BY <2>2, <2>3
<1>3. CASE AudioEnds
  <2> DEFINE audio == [currentAudio EXCEPT !.sounds = FALSE]
  <2>1. currentAudio # NoAudio /\ currentAudio \in Elements /\ handleEnded(audio, yt)
    BY <1>0, <1>3 DEF AudioEnds
  <2>2. audio \in Elements /\ audio.sounds = FALSE
    BY <2>1 DEF Elements
  <2> HIDE DEF audio
  <2>3. QED
    BY <1>0, <2>1, <2>2, EndingSetsTheButton
<1>4. CASE finishClip
  <2>1. yt.sounds /\ currentAudio = NoAudio
    BY <1>0, <1>4 DEF finishClip
  <2>2. /\ ytStop \in YtStates /\ YtKept(ytStop) /\ ytStop.sounds = FALSE
        /\ ytStop.pending = FALSE /\ ytStop.active = NoClip
    BY <1>0 DEF ytStop, YtStates, YtKept
  <2>3. CASE handleEnded(currentAudio, ytStop)
    BY <1>0, <2>1, <2>2, <2>3, EndingSetsTheButton
  <2>4. CASE yt.active = NoClip /\ yt' = ytStop /\ UNCHANGED player
    <3>1. stray
      BY <2>1, <2>4 DEF ButtonInv
    <3>2. stray'
      BY <2>4, <3>1 DEF player
    <3>3. QED
      BY <2>2, <2>4, <3>2 DEF ButtonInv, ButtonTellsTheTruth, YtKept
  <2>5. QED
    BY <1>4, <2>3, <2>4 DEF finishClip
<1>5. CASE onReady
  <2> DEFINE sounds == yt.sounds \/ yt.pending
  <2>1. /\ UNCHANGED <<isPlaying, currentAudio, stray, plays>>
        /\ yt' = [yt EXCEPT !.ready = TRUE, !.pending = FALSE, !.sounds = sounds]
    <3>1. UNCHANGED player
      BY <1>5 DEF onReady
    <3>2. yt' = [yt EXCEPT !.ready = TRUE, !.pending = FALSE, !.sounds = @ \/ yt.pending]
      BY <1>5 DEF onReady
    <3>3. QED
      BY <1>0, <3>1, <3>2 DEF player, YtStates
  <2>2. sounds \in BOOLEAN
    BY <1>0 DEF YtStates
  <2> HIDE DEF sounds
  <2>3. /\ yt'.ready = TRUE /\ yt'.pending = FALSE /\ yt'.active = yt.active
        /\ yt'.sounds = sounds
    BY <1>0, <2>1, <2>2 DEF YtStates
  <2>4. sounds = (yt.sounds \/ yt.pending)
    BY DEF sounds
  <2>5. CASE yt.pending
    <3>1. currentAudio = NoAudio /\ yt'.sounds /\ yt.active # NoClip
      BY <1>0, <2>3, <2>4, <2>5 DEF YtKept
    <3>2. ~stray' => isPlaying'
      BY <2>1, <2>5 DEF ButtonInv
    <3>3. ButtonTellsTheTruth'
      BY <3>1, <3>2 DEF ButtonTellsTheTruth
    <3>4. QED
      BY <2>3, <3>1, <3>3 DEF ButtonInv, YtKept
  <2>6. CASE ~yt.pending
    <3>1. yt'.sounds <=> yt.sounds
      BY <2>3, <2>4, <2>6
    <3>2. ButtonTellsTheTruth'
      BY <2>1, <2>6, <3>1 DEF ButtonInv, ButtonTellsTheTruth, AudioSounds, OnItsWay
    <3>3. QED
      BY <2>1, <2>3, <3>1, <3>2 DEF ButtonInv, YtKept
  <2>7. QED
    BY <2>5, <2>6
<1>6. QED
  BY <1>1, <1>2, <1>3, <1>4, <1>5

\* An element that goes with its joined audio had been heard, and the button goes with it.
LEMMA ExpandingKeepsTheButton ==
    ASSUME PlayerInv, ButtonInv,
           \/ \E c \in Clips : loadNextSegment(c)
           \/ revertActiveConcatenation \/ ContextArrives \/ AudioIsBuilt \/ PageIsLeft
    PROVE  ButtonInv'
<1>0. /\ yt \in YtStates /\ plays \subseteq Plays
      /\ currentAudio # NoAudio => ~yt.sounds /\ ~yt.pending
  BY DEF PlayerInv, PlayerOK
<1>1. ASSUME UNCHANGED <<isPlaying, currentAudio, stray, plays, yt>>
      PROVE  ButtonInv'
  BY <1>1 DEF ButtonInv, ButtonTellsTheTruth, AudioSounds, OnItsWay, YtKept
<1>2. ASSUME UNCHANGED player, UNCHANGED yt
      PROVE  ButtonInv'
  BY <1>1, <1>2 DEF player
<1>3. ASSUME Reverts, UNCHANGED yt
      PROVE  ButtonInv'
  <2>1. CASE UNCHANGED player
    BY <1>2, <1>3, <2>1
  <2>2. CASE releaseIfSource(resolveAudioSource(expansion))
    <3>1. CASE UNCHANGED <<currentAudio, plays, isPlaying>>
      BY <1>1, <1>3, <2>2, <3>1 DEF releaseIfSource
    <3>2. CASE currentAudio # NoAudio /\ currentAudio' = NoAudio /\ isPlaying' = FALSE
      <4>1. yt' = yt /\ ~yt.sounds /\ ~yt.pending
        BY <1>0, <1>3, <3>2
      <4>2. ButtonTellsTheTruth'
        BY <3>2, <4>1 DEF ButtonTellsTheTruth, AudioSounds
      <4>3. QED
        BY <4>1, <4>2 DEF ButtonInv, YtKept
    <3>3. QED
      BY <2>2, <3>1, <3>2 DEF releaseIfSource
  <2>3. QED
    BY <1>3, <2>1, <2>2 DEF Reverts
<1>4. CASE \E c \in Clips : loadNextSegment(c)
  BY <1>2, <1>4 DEF loadNextSegment
<1>5. CASE revertActiveConcatenation
  BY <1>3, <1>5 DEF revertActiveConcatenation
<1>6. CASE ContextArrives
  BY <1>2, <1>3, <1>6 DEF ContextArrives
<1>7. CASE AudioIsBuilt
  BY <1>2, <1>7 DEF AudioIsBuilt
<1>8. CASE PageIsLeft
  BY <1>3, <1>8 DEF PageIsLeft
<1>9. QED
  BY <1>4, <1>5, <1>6, <1>7, <1>8

\* The button shows what is to be heard when nothing is under way, except after the four
\* things the model names.
THEOREM ButtonIsTrue == PlayerSpec => []ButtonTellsTheTruth
<1>1. PlayerInit => ButtonInv
  BY DEF PlayerInit, ButtonInv, ButtonTellsTheTruth, AudioSounds, YtKept
<1>2. PlayerInv /\ ButtonInv /\ [PlayerNext]_plvars => ButtonInv'
  <2> SUFFICES ASSUME PlayerInv, ButtonInv, [PlayerNext]_plvars
               PROVE  ButtonInv'
    OBVIOUS
  <2>1. CASE UNCHANGED plvars
    BY <2>1 DEF plvars, player, ButtonInv, ButtonTellsTheTruth, AudioSounds, OnItsWay, YtKept
  <2>2. QED
    BY <2>1, ReaderSetsTheButton, AnswersSetTheButton, ExpandingKeepsTheButton DEF PlayerNext
<1>3. ButtonInv => ButtonTellsTheTruth
  BY DEF ButtonInv
<1>4. QED
  BY <1>1, <1>2, <1>3, PlayerInvHolds, PTL DEF PlayerSpec
-----------------------------------------------------------------------------
\* What is begun is what the card shows.

HeardAsShown ==
    (\E p \in plays' : p.current) /\ (\A p \in plays : ~p.current)
      => currentAudio'.source = resolveAudioSource(currentResult)'

LEMMA PlayingIsHeardAsShown ==
    ASSUME PlayerInv, UNCHANGED blob, NEW list \in Lists \cup {<<>>}, NEW i \in Nat,
           NEW y, playCurrent(list, i, y)
    PROVE  HeardAsShown
<1> DEFINE c == ClipAt(list, i)
<1>1. currentResult' = c
  BY DEF playCurrent, currentResult
<1>2. \A p \in FreshToken : ~p.current
  BY TokensOfPlays DEF PlayerInv, PlayerOK
<1>3. CASE c = NoClip \/ c \in YouTube
  <2>1. plays' = FreshToken
    BY <1>3, PlayerAssumption DEF playCurrent
  <2>2. QED
    BY <1>2, <2>1 DEF HeardAsShown
<1>4. CASE c \in Clips \ YouTube
  <2>1. currentAudio' = [source |-> resolveAudioSource(c), sounds |-> FALSE]
    BY <1>4, PlayerAssumption DEF playCurrent
  <2>2. currentAudio'.source = [of |-> c, blob |-> blob'[c]]
    BY <2>1 DEF resolveAudioSource
  <2>3. QED
    BY <1>1, <2>2 DEF HeardAsShown, resolveAudioSource
<1>5. c \in Clips \cup {NoClip}
  BY ClipOfList
<1>6. QED
  BY <1>3, <1>4, <1>5

\* Nothing that was not under way is begun.
LEMMA NothingBegins ==
    ASSUME (\E p \in plays' : p.current) => (\E p \in plays : p.current)
    PROVE  HeardAsShown
BY DEF HeardAsShown

\* What goes on is on the source of its clip.
LEMMA GoingOnIsHeardAsShown ==
    ASSUME PlayerInv, UNCHANGED blob, OnWith,
           OnYouTube \/ (currentAudio # NoAudio /\ ~isCurrentAudioStale)
    PROVE  HeardAsShown
<1>1. CASE OnYouTube
  <2>1. plays' = FreshToken
    BY <1>1 DEF OnWith
  <2>2. QED
    BY <2>1, TokensOfPlays, NothingBegins DEF PlayerInv, PlayerOK
<1>2. CASE ~OnYouTube
  <2>1. /\ currentAudio \in Elements
        /\ currentAudio.source = resolveAudioSource(currentResult)
    BY <1>2 DEF PlayerInv, PlayerOK, isCurrentAudioStale
  <2>2. startAudio /\ UNCHANGED Here
    BY <1>2 DEF OnWith
  <2>3. PICK ok : currentAudio' = [currentAudio EXCEPT !.sounds = ok]
    BY <2>2 DEF startAudio
  <2>4. currentAudio'.source = currentAudio.source
    BY <2>1, <2>3 DEF Elements
  <2>5. UNCHANGED currentResult
    BY <2>2 DEF Here, currentResult
  <2>6. currentAudio'.source = resolveAudioSource(currentResult)'
    BY <2>1, <2>4, <2>5 DEF resolveAudioSource
  <2>7. QED
    BY <2>6 DEF HeardAsShown
<1>3. QED
  BY <1>1, <1>2

LEMMA EndingIsHeardAsShown ==
    ASSUME PlayerInv, UNCHANGED blob, NEW audio, NEW y,
           handleEnded(audio, y) \/ Advance(audio, y)
    PROVE  HeardAsShown
<1>0. /\ playlist \in Lists \cup {<<>>} /\ currentIndex \in Nat
  <2>1. playlist \in Lists \cup {<<>>} /\ currentIndex \in 0 .. Len(playlist) + 1
    BY DEF PlayerInv, PlayerOK
  <2>2. QED
    BY <2>1, ClipOfList
<1>1. CASE Advance(audio, y)
  <2>1. CASE currentIndex \in 1 .. Len(playlist) - 1
    BY <1>0, <1>1, <2>1, PlayingIsHeardAsShown DEF Advance
  <2>2. CASE currentIndex \notin 1 .. Len(playlist) - 1
    BY <1>1, <2>2, NothingBegins DEF Advance
  <2>3. QED
    BY <2>1, <2>2
<1>2. CASE playCurrent(playlist, currentIndex, y)
  BY <1>0, <1>2, PlayingIsHeardAsShown
<1>3. CASE UNCHANGED plays
  BY <1>3, NothingBegins
<1>4. QED
  BY <1>1, <1>2, <1>3 DEF handleEnded

LEMMA ReaderHearsWhatIsShown ==
    ASSUME PlayerInv, UNCHANGED expanding,
           \/ \E list \in Lists : \E i \in 1 .. Len(list) + 1 : setPlaylist(list, i)
           \/ togglePlay \/ restart \/ next \/ prev \/ hidePlayer
    PROVE  HeardAsShown
<1>0. /\ playlist \in Lists \cup {<<>>} /\ currentIndex \in Nat /\ plays \subseteq Plays
      /\ \A p \in FreshToken : ~p.current
  <2>1. /\ playlist \in Lists \cup {<<>>} /\ currentIndex \in 0 .. Len(playlist) + 1
        /\ plays \subseteq Plays
    BY DEF PlayerInv, PlayerOK
  <2>2. QED
    BY <2>1, ClipOfList, TokensOfPlays
<1>1. UNCHANGED blob
  BY DEF expanding
<1>2. ASSUME playCurrent(playlist, currentIndex, yt)
      PROVE  HeardAsShown
  BY <1>0, <1>1, <1>2, PlayingIsHeardAsShown
<1>3. ASSUME plays' = FreshToken
      PROVE  HeardAsShown
  BY <1>0, <1>3, NothingBegins
<1>4. ASSUME NEW list \in Lists, NEW i \in 1 .. Len(list) + 1, setPlaylist(list, i)
      PROVE  HeardAsShown
  <2>1. i \in Nat /\ playCurrent(list, i, yt)
    BY <1>4, PlayerAssumption DEF setPlaylist
  <2>2. QED
    BY <1>1, <2>1, PlayingIsHeardAsShown
<1>5. CASE togglePlay
  <2>1. CASE pause
    BY <1>3, <2>1 DEF pause
  <2>2. CASE play
    <3>1. CASE playCurrent(playlist, currentIndex, yt)
      BY <1>2, <3>1
    <3>2. CASE OnWith /\ (OnYouTube \/ (currentAudio # NoAudio /\ ~isCurrentAudioStale))
      BY <1>1, <3>2, GoingOnIsHeardAsShown
    <3>3. QED
      BY <2>2, <3>1, <3>2 DEF play
  <2>3. QED
    BY <1>5, <2>1, <2>2 DEF togglePlay
<1>6. CASE restart
  <2>1. CASE playCurrent(playlist, currentIndex, yt)
    BY <1>2, <2>1
  <2>2. CASE OnWith /\ (OnYouTube \/ (currentAudio # NoAudio /\ ~isCurrentAudioStale))
    BY <1>1, <2>2, GoingOnIsHeardAsShown
  <2>3. QED
    BY <1>6, <2>1, <2>2 DEF restart
<1>7. CASE next
  BY <1>1, <1>7, EndingIsHeardAsShown DEF next
<1>8. CASE prev
  <2>1. currentIndex - 1 \in Nat /\ playCurrent(playlist, currentIndex - 1, yt)
    BY <1>0, <1>8 DEF prev
  <2>2. QED
    BY <1>0, <1>1, <2>1, PlayingIsHeardAsShown
<1>9. CASE hidePlayer
  BY <1>3, <1>9 DEF hidePlayer
<1>10. QED
  BY <1>4, <1>5, <1>6, <1>7, <1>8, <1>9

LEMMA AnswersHearWhatIsShown ==
    ASSUME PlayerInv, UNCHANGED expanding,
           \/ \E p \in plays : whenPlayable(p) \/ \E ok \in BOOLEAN : PlaySettles(p, ok)
           \/ AudioEnds \/ finishClip \/ onReady
    PROVE  HeardAsShown
<1>1. UNCHANGED blob
  BY DEF expanding
<1>2. ASSUME NEW p \in plays, whenPlayable(p)
      PROVE  HeardAsShown
  <2>1. plays' = (plays \ {p}) \cup
                 (IF p.current THEN {[p EXCEPT !.stage = "play"]} ELSE {})
    BY <1>2 DEF whenPlayable, latest
  <2>2. (\E q \in plays' : q.current) => \E q \in plays : q.current
    BY <2>1
  <2>3. QED
    BY <2>2, NothingBegins
<1>3. ASSUME NEW p \in plays, NEW ok \in BOOLEAN, PlaySettles(p, ok)
      PROVE  HeardAsShown
  <2>1. plays' = plays \ {p}
    BY <1>3 DEF PlaySettles
  <2>2. QED
    BY <2>1, NothingBegins
<1>4. CASE AudioEnds
  BY <1>1, <1>4, EndingIsHeardAsShown DEF AudioEnds
<1>5. CASE finishClip
  <2>1. CASE handleEnded(currentAudio, ytStop)
    BY <1>1, <2>1, EndingIsHeardAsShown
  <2>2. CASE UNCHANGED player
    BY <2>2, NothingBegins DEF player
  <2>3. QED
    BY <1>5, <2>1, <2>2 DEF finishClip
<1>6. CASE onReady
  BY <1>6, NothingBegins DEF onReady, player
<1>7. QED
  BY <1>2, <1>3, <1>4, <1>5, <1>6

LEMMA ExpandingBeginsNothing ==
    ASSUME PlayerInv,
           \/ \E c \in Clips : loadNextSegment(c)
           \/ revertActiveConcatenation \/ ContextArrives \/ AudioIsBuilt \/ PageIsLeft
    PROVE  HeardAsShown
<1>1. ASSUME plays' = plays \/ plays' = FreshToken
      PROVE  HeardAsShown
  BY <1>1, TokensOfPlays, NothingBegins DEF PlayerInv, PlayerOK
<1>2. ASSUME UNCHANGED player
      PROVE  HeardAsShown
  BY <1>1, <1>2 DEF player
<1>3. ASSUME Reverts
      PROVE  HeardAsShown
  <2>1. CASE UNCHANGED player
    BY <1>2, <2>1
  <2>2. CASE releaseIfSource(resolveAudioSource(expansion))
    BY <1>1, <2>2 DEF releaseIfSource
  <2>3. QED
    BY <1>3, <2>1, <2>2 DEF Reverts
<1>4. QED
  BY <1>2, <1>3
  DEF loadNextSegment, revertActiveConcatenation, ContextArrives, AudioIsBuilt, PageIsLeft

\* A sentence that was expanded, or put back, since it last sounded is heard as its card
\* shows it when it is played again, in whatever way that comes about.
THEOREM ExpansionsAreHeard == PlayerSpec => ExpansionIsHeard
<1>1. PlayerInv /\ [PlayerNext]_plvars => [HeardAsShown]_plvars
  <2> SUFFICES ASSUME PlayerInv, PlayerNext
               PROVE  HeardAsShown
    OBVIOUS
  <2>1. CASE \/ \E list \in Lists : \E i \in 1 .. Len(list) + 1 : setPlaylist(list, i)
             \/ togglePlay \/ restart \/ next \/ prev \/ hidePlayer
    <3>1. UNCHANGED expanding
      BY <2>1 DEF setPlaylist, togglePlay, restart, next, prev, hidePlayer
    <3>2. QED
      BY <2>1, <3>1, ReaderHearsWhatIsShown
  <2>2. CASE \/ \E p \in plays : whenPlayable(p) \/ \E ok \in BOOLEAN : PlaySettles(p, ok)
             \/ AudioEnds \/ finishClip \/ onReady
    <3>1. UNCHANGED expanding
      BY <2>2 DEF whenPlayable, PlaySettles, AudioEnds, finishClip, onReady
    <3>2. QED
      BY <2>2, <3>1, AnswersHearWhatIsShown
  <2>3. QED
    BY <2>1, <2>2, ExpandingBeginsNothing DEF PlayerNext
<1>2. QED
  BY <1>1, PlayerInvHolds, PTL DEF PlayerSpec, ExpansionIsHeard, HeardAsShown
=============================================================================
