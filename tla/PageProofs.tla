------------------------------ MODULE PageProofs ------------------------------
(***************************************************************************)
(* Every handler of a page keeps its state well formed: typed, with one    *)
(* interval at most, which the script holds, with videoId the video in the *)
(* player, and never blocked without a timer.                              *)
(***************************************************************************)
EXTENDS Page, TLAPS

\* What every handler of a page keeps true.
Good(p) ==
    /\ p \in PageStates
    /\ OneInterval(p) /\ KnowsVideo(p) /\ BlockedWhileTimed(p)

\* setMyRank (wetube.ts 126-158) clears the interval of the old rank.
LEMMA GoodSetMyRank ==
    ASSUME NEW p, Good(p), NEW r \in AllRanks
    PROVE  Good(setMyRank(p, r))
<1> DEFINE q == setMyRank(p, r)
           beats == p.ytplayer /\ r >= Editor
<1>1. p \in PageStates /\ OneInterval(p) /\ KnowsVideo(p)
        /\ BlockedWhileTimed(p)
  BY DEF Good
<1>2. p.intervals = (IF p.videoHeartbeat THEN 1 ELSE 0)
  BY <1>1 DEF OneInterval
<1>3. (IF p.videoHeartbeat THEN p.intervals - 1 ELSE p.intervals) = 0
  BY <1>2
<1>4. beats \in BOOLEAN /\ (IF beats THEN 1 ELSE 0) \in Nat
  BY <1>1 DEF PageStates
<1>5. 0 + 1 = 1
  OBVIOUS
<1>6. q = [p EXCEPT !.myRank = r, !.videoHeartbeat = beats,
                    !.intervals = IF beats THEN 1 ELSE 0]
  BY <1>3, <1>5, Zenon DEF setMyRank
<1>7. q \in PageStates
  <2> HIDE DEF beats, q
  <2> QED BY <1>1, <1>6, <1>4 DEF PageStates
<1>8. /\ q.myRank = r /\ q.videoHeartbeat = beats /\ q.ytplayer = p.ytplayer
      /\ q.intervals = IF beats THEN 1 ELSE 0
      /\ q.player = p.player /\ q.videoId = p.videoId
      /\ q.echoBlock = p.echoBlock /\ q.unblocks = p.unblocks
  BY <1>1, <1>6 DEF PageStates
<1>9. OneInterval(q) /\ KnowsVideo(q) /\ BlockedWhileTimed(q)
  BY <1>1, <1>8 DEF OneInterval, KnowsVideo, BlockedWhileTimed
<1> QED BY <1>7, <1>9 DEF Good

\* What a handler does to the player only.
SameButPlayer(p, q) ==
    /\ q \in PageStates
    /\ q.myRank = p.myRank /\ q.videoHeartbeat = p.videoHeartbeat
    /\ q.intervals = p.intervals /\ q.ytplayer = p.ytplayer
    /\ q.echoBlock = p.echoBlock /\ q.unblocks = p.unblocks

\* What a handler does to nothing that Good is about.
Same(p, q) ==
    SameButPlayer(p, q) /\ q.player = p.player /\ q.videoId = p.videoId

\* A handler that does not touch what Good is about keeps it.
LEMMA GoodSame ==
    ASSUME NEW p, Good(p), NEW q, Same(p, q)
    PROVE  Good(q)
  BY DEF Good, Same, SameButPlayer, OneInterval, KnowsVideo,
         BlockedWhileTimed

\* A handler that gives the page a player with the video of videoId keeps it.
LEMMA GoodPlayer ==
    ASSUME NEW p, Good(p), NEW q, SameButPlayer(p, q),
           q.player \in Players, q.videoId = q.player.video
    PROVE  Good(q) /\ q.player # Nil /\ q.ytplayer = p.ytplayer
  BY NilAssumption
  DEF Good, SameButPlayer, OneInterval, KnowsVideo, BlockedWhileTimed

\* A player that is there is a player, and its video is known.
LEMMA PlayerThere ==
    ASSUME NEW p, Good(p), p.player # Nil
    PROVE  /\ p.player \in Players
           /\ p.videoId = p.player.video
           /\ p.player.at \in Second /\ p.player.state \in YTPlayerStates
  BY DEF Good, KnowsVideo, PageStates, Players

\* The player changes its state.
LEMMA GoodTurnTo ==
    ASSUME NEW p, Good(p), p.player # Nil, NEW s \in YTPlayerStates
    PROVE  Good(TurnTo(p, s)) /\ TurnTo(p, s).player # Nil
             /\ TurnTo(p, s).ytplayer = p.ytplayer
<1> DEFINE q == TurnTo(p, s)
<1>1. p \in PageStates /\ p.player \in Players /\ p.videoId = p.player.video
  BY PlayerThere DEF Good
<1>2. [p.player EXCEPT !.state = s] \in Players
        /\ [p.player EXCEPT !.state = s].video = p.player.video
  BY <1>1 DEF Players
<1>3. q = [p EXCEPT !.player = [p.player EXCEPT !.state = s], !.event = s]
  BY <1>1 DEF TurnTo, PageStates
<1>4. SameButPlayer(p, q) /\ q.player = [p.player EXCEPT !.state = s]
        /\ q.videoId = p.videoId
  <2> HIDE DEF q
  <2> QED BY <1>1, <1>2, <1>3 DEF PageStates, SameButPlayer
<1> HIDE DEF q
<1>5. Good(q) /\ q.player # Nil /\ q.ytplayer = p.ytplayer
  BY <1>1, <1>2, <1>4, GoodPlayer
<1> QED BY <1>5 DEF q

\* The player seeks.
LEMMA GoodSeekTo ==
    ASSUME NEW p, Good(p), p.player # Nil, NEW at \in Second
    PROVE  Good(seekTo(p, at)) /\ seekTo(p, at).player # Nil
             /\ seekTo(p, at).ytplayer = p.ytplayer
<1> DEFINE q == seekTo(p, at)
<1>1. p \in PageStates /\ p.player \in Players /\ p.videoId = p.player.video
  BY PlayerThere DEF Good
<1>2. [p.player EXCEPT !.at = at] \in Players
        /\ [p.player EXCEPT !.at = at].video = p.player.video
  BY <1>1 DEF Players
<1>3. q = [p EXCEPT !.player = [p.player EXCEPT !.at = at]]
  BY <1>1 DEF seekTo, PageStates
<1>4. SameButPlayer(p, q) /\ q.player = [p.player EXCEPT !.at = at]
        /\ q.videoId = p.videoId
  <2> HIDE DEF q
  <2> QED BY <1>1, <1>2, <1>3 DEF PageStates, SameButPlayer
<1> HIDE DEF q
<1>5. Good(q) /\ q.player # Nil /\ q.ytplayer = p.ytplayer
  BY <1>1, <1>2, <1>4, GoodPlayer
<1> QED BY <1>5 DEF q

\* A video is loaded together with the assignment of videoId.
LEMMA GoodLoad ==
    ASSUME NEW p, Good(p), p.player # Nil, NEW v \in Video, NEW at \in Second
    PROVE  LET q == loadVideoById([p EXCEPT !.videoId = v], v, at)
           IN  Good(q) /\ q.player # Nil /\ q.ytplayer = p.ytplayer
<1> DEFINE q == loadVideoById([p EXCEPT !.videoId = v], v, at)
           c == [p.player EXCEPT !.video = v, !.at = at]
           new == [c EXCEPT !.state = "BUFFERING"]
<1>1. p \in PageStates /\ p.player \in Players
  BY PlayerThere DEF Good
<1>2. c \in Players /\ c.video = v
  BY <1>1 DEF Players
<1>3. new \in Players /\ new.video = v /\ "BUFFERING" \in YTPlayerStates
  <2> HIDE DEF c
  <2> QED BY <1>2 DEF Players, YTPlayerStates
<1> DEFINE a == [p EXCEPT !.videoId = v]
           b == [a EXCEPT !.player.video = v, !.player.at = at]
<1>4. SameButPlayer(p, a) /\ a.player = p.player /\ a.videoId = v
  BY <1>1 DEF PageStates, SameButPlayer
<1> HIDE DEF a
<1>5. b = [a EXCEPT !.player = c]
  BY <1>4 DEF PageStates, SameButPlayer
<1> HIDE DEF b, c
<1>6. SameButPlayer(p, b) /\ b.player = c /\ b.videoId = v
  BY <1>4, <1>2, <1>5 DEF PageStates, SameButPlayer
<1>7. q = [b EXCEPT !.player.state = "BUFFERING", !.event = "BUFFERING"]
  BY DEF loadVideoById, TurnTo, a, b
<1> HIDE DEF q
<1>8. q = [b EXCEPT !.player = new, !.event = "BUFFERING"]
  BY <1>2, <1>6, <1>7 DEF PageStates, SameButPlayer
<1> HIDE DEF new
<1>9. SameButPlayer(p, q) /\ q.player = new /\ q.videoId = v
  BY <1>3, <1>6, <1>8 DEF PageStates, SameButPlayer
<1>10. Good(q) /\ q.player # Nil /\ q.ytplayer = p.ytplayer
  BY <1>3, <1>9, GoodPlayer
<1> QED BY <1>10 DEF q

\* initYouTube (wetube.ts 67-74) embeds the video that videoId names.
LEMMA GoodInitYouTube ==
    ASSUME NEW p, Good(p), NEW v \in Video
    PROVE  Good(initYouTube(p, v)) /\ initYouTube(p, v).player # Nil
             /\ initYouTube(p, v).ytplayer = p.ytplayer
<1> DEFINE q == initYouTube(p, v)
           new == [video |-> v, state |-> "UNSTARTED", at |-> 0]
<1>1. p \in PageStates
  BY DEF Good
<1>2. new \in Players /\ new.video = v
  BY PageAssumption DEF Players, YTPlayerStates
<1>3. q = [p EXCEPT !.videoId = v, !.player = new, !.event = Nil]
  BY DEF initYouTube
<1> HIDE DEF new, q
<1>4. SameButPlayer(p, q) /\ q.player = new /\ q.videoId = v
  BY <1>1, <1>2, <1>3 DEF PageStates, SameButPlayer
<1>5. Good(q) /\ q.player # Nil /\ q.ytplayer = p.ytplayer
  BY <1>2, <1>4, GoodPlayer
<1> QED BY <1>5 DEF q

\* The functions whenPlayerReady holds (wetube.ts 317-324).
LEMMA GoodReplay ==
    ASSUME NEW p, Good(p), p.player # Nil, NEW v \in VideoInstants
    PROVE  Good(Replay(p, v))
<1> DEFINE at == seekTo(p, v.SecondsElapsed)
<1>1. v.SecondsElapsed \in Second /\ v.State \in VideoStates
  BY DEF VideoInstants
<1>2. Good(at) /\ at.player # Nil
  BY <1>1, GoodSeekTo
<1> HIDE DEF at
<1>3. Good(pauseVideo(at)) /\ Good(playVideo(at)) /\ Good(stopVideo(at))
  BY <1>2, GoodTurnTo DEF pauseVideo, playVideo, stopVideo, YTPlayerStates
<1>4. Replay(p, v) \in {pauseVideo(at), playVideo(at), stopVideo(at), at}
  BY <1>1 DEF Replay, at, VideoStates
<1> QED BY <1>2, <1>3, <1>4

\* Adjust (wetube.ts 328-354).
LEMMA GoodAdjust ==
    ASSUME NEW p, Good(p), p.player # Nil, NEW v \in VideoInstants
    PROVE  Good(Adjust(p, v))
<1> DEFINE at == IF v.Id = p.videoId THEN seekTo(p, v.SecondsElapsed)
                 ELSE loadVideoById([p EXCEPT !.videoId = v.Id],
                                    v.Id, v.SecondsElapsed)
<1>1. v.SecondsElapsed \in Second /\ v.Id \in Video
  BY DEF VideoInstants
<1>2. Good(at) /\ at.player # Nil
  BY <1>1, GoodSeekTo, GoodLoad
<1> HIDE DEF at
<1>3. Good(pauseVideo(at)) /\ Good(playVideo(at)) /\ Good(stopVideo(at))
  BY <1>2, GoodTurnTo DEF pauseVideo, playVideo, stopVideo, YTPlayerStates
<1>4. Adjust(p, v) \in {pauseVideo(at), playVideo(at), stopVideo(at), at}
  BY DEF Adjust, at
<1> QED BY <1>2, <1>3, <1>4

\* The page whose player is ready, before whenPlayerReady is called.
Readied(p) ==
    LET beats == p.myRank >= Editor
    IN  [p EXCEPT !.ytplayer        = TRUE,
                  !.videoHeartbeat  = @ \/ beats,
                  !.intervals       = IF beats THEN @ + 1 ELSE @,
                  !.whenPlayerReady = Nil]

\* onYouTubePlayerReady (wetube.ts 76-87) starts the interval that setMyRank
\* could not start without a player.
LEMMA GoodReadied ==
    ASSUME NEW p, Good(p), ~p.ytplayer, p.player # Nil
    PROVE  Good(Readied(p)) /\ Readied(p).player # Nil
             /\ Readied(p).sent = p.sent
<1> DEFINE beats == p.myRank >= Editor
           q == Readied(p)
<1>1. p \in PageStates /\ OneInterval(p) /\ KnowsVideo(p)
        /\ BlockedWhileTimed(p)
  BY DEF Good
<1>2. p.videoHeartbeat = FALSE /\ p.intervals = 0 /\ beats \in BOOLEAN
  BY <1>1 DEF OneInterval, PageStates
<1>3. q = [p EXCEPT !.ytplayer = TRUE, !.videoHeartbeat = beats,
                    !.intervals = IF beats THEN 1 ELSE 0,
                    !.whenPlayerReady = Nil]
  <2>1. (p.videoHeartbeat \/ beats) = beats
    BY <1>2
  <2>2. (IF beats THEN p.intervals + 1 ELSE p.intervals)
          = (IF beats THEN 1 ELSE 0)
    BY <1>2
  <2> QED BY <2>1, <2>2, Zenon DEF Readied
<1>4. /\ q \in PageStates
      /\ q.ytplayer = TRUE /\ q.videoHeartbeat = beats
      /\ q.intervals = (IF beats THEN 1 ELSE 0) /\ q.myRank = p.myRank
      /\ q.player = p.player /\ q.videoId = p.videoId
      /\ q.echoBlock = p.echoBlock /\ q.unblocks = p.unblocks
      /\ q.sent = p.sent
  <2> HIDE DEF q, beats
  <2> QED BY <1>1, <1>2, <1>3 DEF PageStates
<1> HIDE DEF q
<1>5. q.videoHeartbeat = (q.ytplayer /\ q.myRank >= Editor)
  <2>1. beats = (TRUE /\ beats)
    BY <1>2
  <2> QED BY <1>4, <2>1, Zenon
<1>6. q.intervals = (IF q.videoHeartbeat THEN 1 ELSE 0)
  BY <1>4, Zenon
<1>7. Good(q) /\ q.player # Nil /\ q.sent = p.sent
  BY <1>1, <1>4, <1>5, <1>6
  DEF Good, OneInterval, KnowsVideo, BlockedWhileTimed
<1> QED BY <1>7 DEF q

\* What onYouTubePlayerReady does, in two parts: it marks the player ready
\* and replays the update that waited for it.
LEMMA ReadyIs ==
    ASSUME NEW p, Good(p)
    PROVE  /\ p.whenPlayerReady = Nil =>
                onYouTubePlayerReady(p) = Readied(p)
           /\ p.whenPlayerReady # Nil =>
                /\ p.whenPlayerReady \in VideoInstants
                /\ onYouTubePlayerReady(p)
                     = Replay(Readied(p), p.whenPlayerReady)
<1>1. p.whenPlayerReady # Nil => p.whenPlayerReady \in VideoInstants
  BY DEF Good, PageStates
<1>2. onYouTubePlayerReady(p) = IF p.whenPlayerReady = Nil THEN Readied(p)
                                ELSE Replay(Readied(p), p.whenPlayerReady)
  BY DEF onYouTubePlayerReady, Readied
<1> QED BY <1>1, <1>2

\* onYouTubePlayerReady (wetube.ts 76-87).
LEMMA GoodReady ==
    ASSUME NEW p, Good(p), ~p.ytplayer, p.player # Nil
    PROVE  Good(onYouTubePlayerReady(p))
  BY GoodReadied, ReadyIs, GoodReplay

\* Sending changes nothing but what was sent.
LEMMA GoodSendAll ==
    ASSUME NEW p, Good(p), NEW messages \in Seq(ToClient)
    PROVE  Good(SendAll(p, messages))
<1> DEFINE q == [p EXCEPT !.sent = @ \o messages]
<1>1. p \in PageStates /\ p.sent \o messages \in Seq(ToClient)
  BY DEF Good, PageStates
<1>2. Same(p, q)
  BY <1>1 DEF Same, SameButPlayer, PageStates
<1>3. SendAll(p, messages) \in {p, q}
  BY DEF SendAll
<1> HIDE DEF q
<1>4. Good(q)
  BY <1>2, GoodSame
<1> QED BY <1>3, <1>4

\* One message sent through the socket.
LEMMA GoodSend ==
    ASSUME NEW p, Good(p), NEW message \in ToClient
    PROVE  Good(Send(p, message))
<1>1. <<message>> \in Seq(ToClient)
  OBVIOUS
<1> QED BY <1>1, GoodSendAll DEF Send

\* sendVideoUpdate (wetube.ts 89-117).
LEMMA GoodReport ==
    ASSUME NEW p, Good(p), p.player # Nil, NEW s \in YTPlayerStates
    PROVE  Good(sendVideoUpdate(p, s))
<1> DEFINE v == [Id |-> p.videoId, State |-> wtState(s),
                 SecondsElapsed |-> p.player.at]
           message == [type |-> "VideoUpdateRequest", video |-> v]
<1>1. p.videoId \in Video /\ p.player.at \in Second
  BY PlayerThere DEF Good, PageStates
<1>2. wtState(s) \in VideoStates
  BY DEF wtState, VideoStates, YTPlayerStates
<1>3. v \in VideoInstants
  BY <1>1, <1>2 DEF VideoInstants
<1>4. message \in ToClient
  BY <1>3 DEF ToClient
<1>5. sendVideoUpdate(p, s) \in {p, Send(p, message)}
  BY DEF sendVideoUpdate
<1> HIDE DEF message
<1> QED BY <1>4, <1>5, GoodSend

\* The player's event is reported (wetube.ts 79).
LEMMA GoodStateChange ==
    ASSUME NEW p, Good(p), p.ytplayer, p.event # Nil
    PROVE  Good(onStateChange(p))
<1> DEFINE q == [p EXCEPT !.event = Nil]
<1>1. p \in PageStates /\ p.player # Nil /\ p.event \in YTPlayerStates
  BY DEF Good, PageStates, KnowsVideo
<1>2. Same(p, q)
  BY <1>1 DEF Same, SameButPlayer, PageStates
<1>3. onStateChange(p) = sendVideoUpdate(q, p.event)
  BY DEF onStateChange
<1> HIDE DEF q
<1>4. Good(q)
  BY <1>2, GoodSame
<1> QED BY <1>1, <1>2, <1>3, <1>4, GoodReport DEF Same

\* An interval reports the player (wetube.ts 80-82, 154-157): there is one
\* only if there is a player.
LEMMA GoodVideoHeartbeat ==
    ASSUME NEW p, Good(p), p.intervals > 0
    PROVE  Good(VideoHeartbeat(p))
<1>1. p.videoHeartbeat
  BY DEF Good, OneInterval
<1>2. p.ytplayer
  BY <1>1, Zenon DEF Good, OneInterval
<1>3. p.player # Nil /\ p.player.state \in YTPlayerStates
  BY <1>2, PlayerThere DEF Good, KnowsVideo
<1> QED BY <1>3, GoodReport DEF VideoHeartbeat

\* A two-second timer elapses (wetube.ts 313).
LEMMA GoodUnblock ==
    ASSUME NEW p, Good(p), p.unblocks > 0
    PROVE  Good(Unblock(p))
<1> DEFINE q == Unblock(p)
<1>1. p \in PageStates /\ p.unblocks - 1 \in Nat
  BY DEF Good, PageStates
<1>2. q \in PageStates /\ q.echoBlock = FALSE
        /\ q.myRank = p.myRank /\ q.videoHeartbeat = p.videoHeartbeat
        /\ q.intervals = p.intervals /\ q.ytplayer = p.ytplayer
        /\ q.player = p.player /\ q.videoId = p.videoId
  BY <1>1 DEF PageStates, Unblock
<1> HIDE DEF q
<1>3. Good(q)
  BY <1>2 DEF Good, OneInterval, KnowsVideo, BlockedWhileTimed
<1> QED BY <1>3 DEF q

\* selectNewVideo (wetube.ts 208-223).
LEMMA GoodSelect ==
    ASSUME NEW p, Good(p), NEW v \in Video
    PROVE  Good(selectNewVideo(p, v))
<1> DEFINE q == loadVideoById([p EXCEPT !.videoId = v], v, 0)
<1>1. p.ytplayer => Good(q)
  BY GoodLoad, PageAssumption DEF Good, KnowsVideo
<1>2. /\ selectNewVideo(p, v) \in {p, q}
      /\ ~p.ytplayer => selectNewVideo(p, v) = p
  BY DEF selectNewVideo
<1> HIDE DEF q
<1> QED BY <1>1, <1>2

\* The page that an update has blocked.
Blocked(p) == [p EXCEPT !.echoBlock = TRUE, !.unblocks = @ + 1]

\* VideoUpdate (wetube.ts 310-354): the block is set together with its timer.
LEMMA GoodBlocked ==
    ASSUME NEW p, Good(p)
    PROVE  Good(Blocked(p)) /\ Blocked(p).ytplayer = p.ytplayer
             /\ Blocked(p).sent = p.sent
<1> DEFINE q == Blocked(p)
<1>1. p \in PageStates /\ OneInterval(p) /\ KnowsVideo(p)
        /\ p.unblocks \in Nat /\ p.unblocks + 1 \in Nat
  BY DEF Good, PageStates
<1>2. q \in PageStates /\ q.echoBlock = TRUE /\ q.unblocks = p.unblocks + 1
        /\ q.myRank = p.myRank /\ q.videoHeartbeat = p.videoHeartbeat
        /\ q.intervals = p.intervals /\ q.ytplayer = p.ytplayer
        /\ q.player = p.player /\ q.videoId = p.videoId
        /\ q.sent = p.sent
  BY <1>1 DEF PageStates, Blocked
<1> HIDE DEF q
<1>3. Good(q)
  BY <1>1, <1>2 DEF Good, OneInterval, KnowsVideo, BlockedWhileTimed
<1> QED BY <1>2, <1>3 DEF q

\* handleVideoUpdate (wetube.ts 310-354), with a player or without one.
LEMMA GoodVideoUpdate ==
    ASSUME NEW p, Good(p), NEW message, message.video \in VideoInstants
    PROVE  Good(handleVideoUpdate(p, message))
<1> DEFINE v == message.video
           q == Blocked(p)
           r == initYouTube(q, v.Id)
           s == [r EXCEPT !.whenPlayerReady = v]
<1>1. Good(q) /\ q.ytplayer = p.ytplayer
  BY GoodBlocked
<1>2. handleVideoUpdate(p, message) = IF p.ytplayer THEN Adjust(q, v) ELSE s
  BY DEF handleVideoUpdate, Blocked
<1> HIDE DEF q
<1>3. p.ytplayer => Good(Adjust(q, v))
  BY <1>1, GoodAdjust DEF Good, KnowsVideo
<1>4. Good(r)
  BY <1>1, GoodInitYouTube DEF VideoInstants
<1> HIDE DEF r
<1>5. Same(r, s)
  BY <1>4 DEF Good, Same, SameButPlayer, PageStates
<1> HIDE DEF s
<1>6. Good(s)
  BY <1>4, <1>5, GoodSame
<1> QED BY <1>2, <1>3, <1>6

\* RosterUpdate (wetube.ts 355-368).
LEMMA GoodRosterUpdate ==
    ASSUME NEW p, Good(p), NEW message, message.roster \in Rosters
    PROVE  Good(handleRosterUpdate(p, message))
<1> DEFINE list == {elementFromPeer(peer) : peer \in message.roster.others}
           q == [p EXCEPT !.peerlist = list]
<1>1. \A peer \in message.roster.others :
          elementFromPeer(peer) \in [Id : Peer, class : Classes]
  <2> SUFFICES ASSUME NEW peer \in message.roster.others
               PROVE  elementFromPeer(peer) \in [Id : Peer, class : Classes]
    OBVIOUS
  <2>1. peer.Id \in Peer
    BY DEF Rosters
  <2> QED BY <2>1 DEF elementFromPeer, Classes
<1>2. list \in SUBSET [Id : Peer, class : Classes]
  BY <1>1
<1>3. message.roster.mine \in AllRanks
  BY DEF Rosters
<1> HIDE DEF list
<1>4. Same(p, q)
  BY <1>2 DEF Good, Same, SameButPlayer, PageStates
<1>5. handleRosterUpdate(p, message) \in
        {q, setMyRank(q, message.roster.mine)}
  BY DEF handleRosterUpdate, list
<1> HIDE DEF q
<1>6. Good(q)
  BY <1>4, GoodSame
<1> QED BY <1>3, <1>5, <1>6, GoodSetMyRank

-----------------------------------------------------------------------------
(* What the user and the script do besides.                                *)

\* A dialog is shown or hidden.
LEMMA GoodDialogs ==
    ASSUME NEW p, Good(p), NEW d \in Dialogs
    PROVE  Good(Show(p, d)) /\ Good(Hide(p, d))
<1> DEFINE q == Show(p, d)
           r == Hide(p, d)
<1>1. p \in PageStates /\ p.dialogs \cup {d} \in SUBSET Dialogs
        /\ p.dialogs \ {d} \in SUBSET Dialogs
  BY DEF Good, PageStates
<1>2. Same(p, q) /\ Same(p, r)
  BY <1>1 DEF Same, SameButPlayer, PageStates, Show, Hide
<1> HIDE DEF q, r
<1>3. Good(q) /\ Good(r)
  BY <1>2, GoodSame
<1> QED BY <1>3 DEF q, r

\* startNewSession (wetube.ts 160-172).
LEMMA GoodStart ==
    ASSUME NEW p, Good(p), NEW leader \in BOOLEAN
    PROVE  Good(startNewSession(p, leader))
<1> DEFINE q == IF leader THEN setMyRank(p, Director) ELSE p
           message == [type |-> "SessionInit", Leader |-> leader]
<1>1. Good(q)
  BY GoodSetMyRank DEF AllRanks, Ranks
<1>2. message \in ToClient
  BY DEF ToClient
<1>3. startNewSession(p, leader) = Send(q, message)
  BY DEF startNewSession
<1> HIDE DEF q, message
<1> QED BY <1>1, <1>2, <1>3, GoodSend

\* respondToInvitation (wetube.ts 174-186).
LEMMA GoodRespond ==
    ASSUME NEW p, Good(p), NEW accept \in BOOLEAN
    PROVE  Good(respondToInvitation(p, accept))
<1> DEFINE q == Hide(p, "invitation_response")
           r == Show(q, "wait_for_invitation")
           message == [type     |-> "InvitationResponse",
                       Accepted |-> accept,
                       Random   |-> p.currentInvitation.Random]
<1>1. Good(q)
  BY GoodDialogs DEF Dialogs
<1>2. respondToInvitation(p, accept) =
        IF p.currentInvitation = Nil THEN q ELSE Send(r, message)
  BY DEF respondToInvitation
<1> HIDE DEF q
<1>3. Good(r)
  BY <1>1, GoodDialogs DEF Dialogs
<1> HIDE DEF r
<1>4. p.currentInvitation # Nil => p.currentInvitation.Random \in Invitation
  BY DEF Good, PageStates, Invitations
<1>5. p.currentInvitation # Nil => message \in ToClient
  BY <1>4 DEF ToClient
<1> HIDE DEF message
<1> QED BY <1>1, <1>2, <1>3, <1>5, GoodSend

\* sendInvitation (wetube.ts 188-193).
LEMMA GoodSendInvitation ==
    ASSUME NEW p, Good(p)
    PROVE  Good(sendInvitation(p))
<1> DEFINE q == Hide(p, "invitation")
           r == [q EXCEPT !.titles = @ + 1]
<1>1. Good(q)
  BY GoodDialogs DEF Dialogs
<1>2. sendInvitation(p) \in {p, r}
  BY DEF sendInvitation
<1> HIDE DEF q
<1>3. q \in PageStates /\ q.titles + 1 \in Nat
  BY <1>1 DEF Good, PageStates
<1>4. Same(q, r)
  BY <1>3 DEF Same, SameButPlayer, PageStates
<1> HIDE DEF r
<1> QED BY <1>1, <1>2, <1>4, GoodSame

\* The title of the video arrives (wetube.ts 193-206).
LEMMA GoodTitle ==
    ASSUME NEW p, Good(p), p.titles > 0
    PROVE  Good(TitleArrives(p))
<1> DEFINE q == [p EXCEPT !.titles = @ - 1]
<1>1. p \in PageStates /\ p.titles - 1 \in Nat
  BY DEF Good, PageStates
<1>2. Same(p, q)
  BY <1>1 DEF Same, SameButPlayer, PageStates
<1>3. [type |-> "InvitationRequest"] \in ToClient
  BY DEF ToClient
<1>4. TitleArrives(p) = Send(q, [type |-> "InvitationRequest"])
  BY DEF TitleArrives
<1> HIDE DEF q
<1>5. Good(q)
  BY <1>2, GoodSame
<1> QED BY <1>3, <1>4, <1>5, GoodSend

\* The loss of the client (wetube.ts 225-229, 405-409).
LEMMA GoodLoss ==
    ASSUME NEW p, Good(p)
    PROVE  Good(onClientTimeout(p)) /\ Good(onerror(p))
<1> DEFINE q == onClientTimeout(p)
           r == onerror(p)
<1>1. p \in PageStates
  BY DEF Good
<1>2. Same(p, q)
  BY <1>1 DEF Same, SameButPlayer, PageStates, onClientTimeout
<1>3. Same(p, r)
  BY <1>1 DEF Same, SameButPlayer, PageStates, onerror
<1> HIDE DEF q, r
<1>4. Good(q) /\ Good(r)
  BY <1>2, <1>3, GoodSame
<1> QED BY <1>4 DEF q, r

\* showPeerInfoWindow (wetube.ts 253-273).
LEMMA GoodPeerInfo ==
    ASSUME NEW p, Good(p), NEW peer \in Peer
    PROVE  Good(showPeerInfoWindow(p, peer))
<1> DEFINE q == Show(p, "peer_info")
           r == [q EXCEPT !.info = peer, !.submitters = Append(@, peer)]
<1>1. Good(q)
  BY GoodDialogs DEF Dialogs
<1>2. showPeerInfoWindow(p, peer) = r
  BY DEF showPeerInfoWindow
<1> HIDE DEF q
<1>3. q \in PageStates /\ Append(q.submitters, peer) \in Seq(Peer)
  BY <1>1 DEF Good, PageStates
<1>4. Same(q, r)
  BY <1>3 DEF Same, SameButPlayer, PageStates
<1> HIDE DEF r
<1> QED BY <1>1, <1>2, <1>4, GoodSame

\* The form of a change of rank is submitted (wetube.ts 264-271).
LEMMA GoodSubmit ==
    ASSUME NEW p, Good(p), NEW rank \in Ranks
    PROVE  Good(submitRankChange(p, rank))
<1> DEFINE messages == [i \in DOMAIN p.submitters |->
                          [type    |-> "RankChangeRequest",
                           PeerId  |-> p.submitters[i],
                           NewRank |-> rank]]
           q == SendAll(p, messages)
<1>1. p.submitters \in Seq(Peer)
  BY DEF Good, PageStates
<1>2. \A i \in 1..Len(p.submitters) : messages[i] \in ToClient
  BY <1>1 DEF ToClient
<1>3. messages \in Seq(ToClient)
  <2>3. DOMAIN p.submitters = 1..Len(p.submitters)
    BY <1>1
  <2>1. messages \in [1..Len(p.submitters) -> ToClient]
    BY <1>2, <2>3, Zenon
  <2>2. Len(p.submitters) \in Nat
    BY <1>1
  <2> HIDE DEF messages
  <2> QED BY <2>1, <2>2
<1>4. submitRankChange(p, rank) = Hide(q, "peer_info")
  BY DEF submitRankChange
<1> HIDE DEF messages
<1>5. Good(q)
  BY <1>3, GoodSendAll
<1> HIDE DEF q
<1> QED BY <1>4, <1>5, GoodDialogs DEF Dialogs

\* The heartbeat of the page (wetube.ts 396-401).
LEMMA GoodBeat ==
    ASSUME NEW p, Good(p)
    PROVE  Good(SendHeartbeat(p))
<1>1. [type |-> "Heartbeat"] \in ToClient
  BY DEF ToClient
<1> QED BY <1>1, GoodSend DEF SendHeartbeat

\* The end of the session (wetube.ts 425-428).
LEMMA GoodEnd ==
    ASSUME NEW p, Good(p)
    PROVE  Good(endSession(p))
<1> DEFINE q == IF p.ytplayer THEN stopVideo(p) ELSE p
<1>1. Good(q)
  BY GoodTurnTo DEF stopVideo, YTPlayerStates, Good, KnowsVideo
<1>2. [type |-> "EndSession"] \in ToClient
  BY DEF ToClient
<1>3. endSession(p) = Send(q, [type |-> "EndSession"])
  BY DEF endSession
<1> HIDE DEF q
<1> QED BY <1>1, <1>2, <1>3, GoodSend

-----------------------------------------------------------------------------
(* Messages of the client.                                                 *)

\* The page before its first message (wetube.ts 5-16, 385-387).
LEMMA GoodNewPage ==
    Good(NewPage) /\ Good([NewPage EXCEPT !.socket = "open",
                                          !.heartbeat = TRUE,
                                          !.timeout   = TRUE])
<1> DEFINE q == [NewPage EXCEPT !.socket = "open", !.heartbeat = TRUE,
                                !.timeout = TRUE]
<1>1. NewPage \in PageStates
  BY PageAssumption DEF NewPage, PageStates, AllRanks, Unknown
<1>2. Good(NewPage)
  <2>1. OneInterval(NewPage)
    BY DEF NewPage, OneInterval, Unknown, Editor
  <2>2. KnowsVideo(NewPage) /\ BlockedWhileTimed(NewPage)
    BY DEF NewPage, KnowsVideo, BlockedWhileTimed
  <2> QED BY <1>1, <2>1, <2>2 DEF Good
<1>3. Same(NewPage, q)
  BY <1>1 DEF Same, SameButPlayer, PageStates
<1> HIDE DEF q
<1>4. Good(q)
  BY <1>2, <1>3, GoodSame
<1> QED BY <1>2, <1>4 DEF q

\* The window is closed: what the page has sent may still be read.
LEMMA GoodClosed ==
    ASSUME NEW p, Good(p)
    PROVE  Good([NewPage EXCEPT !.socket = "closed", !.sent = p.sent])
<1> DEFINE q == [NewPage EXCEPT !.socket = "closed", !.sent = p.sent]
<1>1. NewPage \in PageStates /\ p.sent \in Seq(ToClient)
  BY GoodNewPage DEF Good, PageStates
<1>2. Same(NewPage, q)
  BY <1>1 DEF Same, SameButPlayer, PageStates
<1> HIDE DEF q
<1>3. Good(q)
  BY <1>2, GoodSame, GoodNewPage
<1> QED BY <1>3 DEF q

\* The client reads what the page has sent.
LEMMA GoodRead ==
    ASSUME NEW p, Good(p), p.sent # <<>>
    PROVE  Good([p EXCEPT !.sent = Tail(@)]) /\ Head(p.sent) \in ToClient
<1> DEFINE q == [p EXCEPT !.sent = Tail(@)]
<1>1. p \in PageStates /\ Tail(p.sent) \in Seq(ToClient)
        /\ Head(p.sent) \in ToClient
  BY DEF Good, PageStates
<1>2. Same(p, q)
  BY <1>1 DEF Same, SameButPlayer, PageStates
<1> HIDE DEF q
<1>3. Good(q)
  BY <1>2, GoodSame
<1> QED BY <1>1, <1>3 DEF q

\* BrowserConnectAck (wetube.ts 390-418).
LEMMA GoodConnectAck ==
    ASSUME NEW p, Good(p), NEW message
    PROVE  Good(handleBrowserConnectAck(p, message))
<1> DEFINE q == [p EXCEPT !.socket = "open", !.heartbeat = TRUE,
                          !.timeout = TRUE]
           r == [p EXCEPT !.socket = "rejected"]
<1>1. p \in PageStates
  BY DEF Good
<1>2. Same(p, q)
  BY <1>1 DEF Same, SameButPlayer, PageStates
<1>3. Same(p, r)
  BY <1>1 DEF Same, SameButPlayer, PageStates
<1>4. handleBrowserConnectAck(p, message) \in {Show(q, "session_type"), r}
  BY DEF handleBrowserConnectAck
<1> HIDE DEF q, r
<1>5. Good(q) /\ Good(r)
  BY <1>2, <1>3, GoodSame
<1>6. Good(Show(q, "session_type"))
  BY <1>5, GoodDialogs DEF Dialogs
<1> QED BY <1>4, <1>5, <1>6

\* Invitation (wetube.ts 277-285).
LEMMA GoodInvitation ==
    ASSUME NEW p, Good(p), NEW message, message.invitation \in Invitations
    PROVE  Good(handleInvitation(p, message))
<1> DEFINE q == Hide(p, "wait_for_invitation")
           r == [q EXCEPT !.currentInvitation = message.invitation]
<1>1. Good(q)
  BY GoodDialogs DEF Dialogs
<1>2. handleInvitation(p, message) \in {q, Show(r, "invitation_response")}
  BY DEF handleInvitation
<1> HIDE DEF q
<1>3. Same(q, r)
  BY <1>1 DEF Good, Same, SameButPlayer, PageStates
<1> HIDE DEF r
<1>4. Good(r)
  BY <1>1, <1>3, GoodSame
<1>5. Good(Show(r, "invitation_response"))
  BY <1>4, GoodDialogs DEF Dialogs
<1> QED BY <1>1, <1>2, <1>5

\* JoinConfirmation (wetube.ts 286-297).
LEMMA GoodJoinConfirmation ==
    ASSUME NEW p, Good(p), NEW message
    PROVE  Good(handleJoinConfirmation(p, message))
<1> DEFINE q == setMyRank(p, p.currentInvitation.RankOffered)
           r == initYouTube(q, p.videoId)
<1>1. p.videoId \in Video
        /\ (p.currentInvitation # Nil =>
              p.currentInvitation.RankOffered \in AllRanks)
  BY DEF Good, PageStates, Invitations, AllRanks
<1>2. handleJoinConfirmation(p, message)
        \in {p, Hide(r, "wait_for_invitation")}
        /\ (p.currentInvitation = Nil =>
              handleJoinConfirmation(p, message) = p)
  BY DEF handleJoinConfirmation
<1>3. p.currentInvitation # Nil => Good(q)
  BY <1>1, GoodSetMyRank
<1> HIDE DEF q
<1>4. p.currentInvitation # Nil => Good(r)
  BY <1>1, <1>3, GoodInitYouTube
<1> HIDE DEF r
<1> QED BY <1>2, <1>4, GoodDialogs DEF Dialogs

\* SessionOk (wetube.ts 298-305).
LEMMA GoodSessionOk ==
    ASSUME NEW p, Good(p)
    PROVE  Good(handleSessionOk(p))
<1> DEFINE q == Hide(p, "session_type")
<1>1. Good(q) /\ p.videoId \in Video
  BY GoodDialogs DEF Dialogs, Good, PageStates
<1>2. handleSessionOk(p) \in
        {initYouTube(q, p.videoId), Show(q, "wait_for_invitation")}
  BY DEF handleSessionOk
<1> HIDE DEF q
<1>3. Good(initYouTube(q, p.videoId)) /\ Good(Show(q, "wait_for_invitation"))
  BY <1>1, GoodInitYouTube, GoodDialogs DEF Dialogs
<1> QED BY <1>2, <1>3

\* HeartbeatAck (wetube.ts 306-309).
LEMMA GoodHeartbeatAck ==
    ASSUME NEW p, Good(p)
    PROVE  Good(handleHeartbeatAck(p))
<1> DEFINE q == handleHeartbeatAck(p)
<1>1. Same(p, q)
  BY DEF Good, Same, SameButPlayer, PageStates, handleHeartbeatAck
<1> HIDE DEF q
<1>2. Good(q)
  BY <1>1, GoodSame
<1> QED BY <1>2 DEF q

\* handleMessage (wetube.ts 275-383) and the handler of the first message.
LEMMA GoodMessage ==
    ASSUME NEW p, Good(p), NEW message \in ToPage
    PROVE  Good(onmessage(p, message))
<1>0. onmessage(p, message)
        \in {handleBrowserConnectAck(p, message), handleMessage(p, message)}
  BY DEF onmessage
<1>1. Good(handleMessage(p, message))
  <2>1. CASE message.type = "Invitation"
    <3>1. message.invitation \in Invitations
      BY <2>1 DEF ToPage
    <3> QED BY <2>1, <3>1, GoodInvitation DEF handleMessage
  <2>2. CASE message.type = "JoinConfirmation"
    BY <2>2, GoodJoinConfirmation DEF handleMessage
  <2>3. CASE message.type = "SessionOk"
    BY <2>3, GoodSessionOk DEF handleMessage
  <2>4. CASE message.type = "HeartbeatAck"
    BY <2>4, GoodHeartbeatAck DEF handleMessage
  <2>5. CASE message.type = "VideoUpdate"
    <3>1. message.video \in VideoInstants
      BY <2>5 DEF ToPage
    <3> QED BY <2>5, <3>1, GoodVideoUpdate DEF handleMessage
  <2>6. CASE message.type = "RosterUpdate"
    <3>1. message.roster \in Rosters
      BY <2>6 DEF ToPage
    <3> QED BY <2>6, <3>1, GoodRosterUpdate DEF handleMessage
  <2>7. CASE message.type \notin {"Invitation", "JoinConfirmation",
                                  "SessionOk", "HeartbeatAck",
                                  "VideoUpdate", "RosterUpdate"}
    BY <2>7 DEF handleMessage
  <2> QED BY <2>1, <2>2, <2>3, <2>4, <2>5, <2>6, <2>7
<1> QED BY <1>0, <1>1, GoodConnectAck
=============================================================================
