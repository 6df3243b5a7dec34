--------------------------------- MODULE Page ---------------------------------
(***************************************************************************)
(* The browser page of a client (ts/wetube.ts).  A page runs one handler   *)
(* at a time, so each handler is a function from the state of the page     *)
(* before it to the state after it; Browser and VideoSync decide when they *)
(* run.  A page is a record of the script's variables, and of what the     *)
(* script has set up in the browser:                                       *)
(*   intervals   the intervals that call sendVideoUpdate; videoHeartbeat   *)
(*               says whether the script holds a handle of one;            *)
(*   unblocks    the two-second timers that will set echoBlock to false;   *)
(*   titles      the requests for a title that have not been answered;     *)
(*   submitters  the submit handlers added to #rank_change_form, each      *)
(*               named by the peer it sends a request about;               *)
(*   dialogs     the dialogs on display, and info, the peer that the one   *)
(*               with the peer's information shows;                        *)
(*   peerlist    the entries of #peerlist, with the class that shows rank; *)
(*   player      the embedded YouTube player, and event, the state it is   *)
(*               to report to sendVideoUpdate: changes that follow each    *)
(*               other before a report are reported as one;                *)
(*   sent        what was sent through the socket and is not read yet.     *)
(* Names, texts, titles and layout are left out.  A position in a video is *)
(* the one extrapolated to the present, so a playing player stays at its.  *)
(***************************************************************************)
EXTENDS Naturals, Sequences

CONSTANTS
    Video,         \* The ids of videos
    DefaultVideo,  \* The video of a new page
    Second,        \* Positions in a video
    Peer,          \* The ids of the other members
    Invitation,    \* The Random of the invitations that may arrive
    Nil            \* null

ASSUME PageAssumption ==
    /\ DefaultVideo \in Video
    /\ Second \subseteq Nat /\ 0 \in Second
    /\ Nil \notin Video \cup Peer

Unknown  == 0
Viewer   == 1
Editor   == 2
Director == 3
Ranks    == {Viewer, Editor, Director}
AllRanks == {Unknown} \cup Ranks

VideoStates == {"Unstarted", "Playing", "Paused", "Ended"}

YTPlayerStates ==
    {"UNSTARTED", "ENDED", "PLAYING", "PAUSED", "BUFFERING", "CUED"}

VideoInstants == [Id : Video, State : VideoStates, SecondsElapsed : Second]

Invitations == [RankOffered : Ranks, Random : Invitation]

\* A roster as the page uses it: its own rank, and the entries of others.
Rosters == [mine : AllRanks, others : SUBSET [Id : Peer, Rank : AllRanks]]

ToClient ==
    [type : {"Heartbeat", "InvitationRequest", "EndSession"}]
      \cup [type : {"SessionInit"}, Leader : BOOLEAN]
      \cup [type : {"InvitationResponse"}, Accepted : BOOLEAN,
            Random : Invitation]
      \cup [type : {"VideoUpdateRequest"}, video : VideoInstants]
      \cup [type : {"RankChangeRequest"}, PeerId : Peer, NewRank : Ranks]

ToPage ==
    [type : {"SessionOk", "HeartbeatAck", "Error"}]
      \cup [type : {"BrowserConnectAck", "JoinConfirmation"},
            Success : BOOLEAN]
      \cup [type : {"Invitation"}, invitation : Invitations]
      \cup [type : {"VideoUpdate"}, video : VideoInstants]
      \cup [type : {"RosterUpdate"}, roster : Rosters]

Dialogs ==
    {"session_type", "wait_for_invitation", "invitation_response",
     "invitation", "peer_info"}

Classes == {"director", "editor", "viewer", "none"}

Players == [video : Video, state : YTPlayerStates, at : Second]

PageStates ==
    [ socket            : {"connecting", "open", "rejected", "closed"},
      myRank            : AllRanks,
      videoId           : Video,
      currentInvitation : Invitations \cup {Nil},
      videoHeartbeat    : BOOLEAN,
      intervals         : Nat,
      heartbeat         : BOOLEAN,
      timeout           : BOOLEAN,
      ytplayer          : BOOLEAN,
      whenPlayerReady   : VideoInstants \cup {Nil},
      echoBlock         : BOOLEAN,
      unblocks          : Nat,
      titles            : Nat,
      submitters        : Seq(Peer),
      dialogs           : SUBSET Dialogs,
      info              : Peer \cup {Nil},
      peerlist          : SUBSET [Id : Peer, class : Classes],
      player            : Players \cup {Nil},
      event             : YTPlayerStates \cup {Nil},
      sent              : Seq(ToClient) ]

ASSUME NilAssumption ==
    Nil \notin Players \cup Invitations \cup VideoInstants \cup YTPlayerStates

\* The page when its script has run and its socket is connecting.
NewPage ==
    [ socket |-> "connecting", myRank |-> Unknown, videoId |-> DefaultVideo,
      currentInvitation |-> Nil, videoHeartbeat |-> FALSE, intervals |-> 0,
      heartbeat |-> FALSE, timeout |-> FALSE, ytplayer |-> FALSE,
      whenPlayerReady |-> Nil, echoBlock |-> FALSE, unblocks |-> 0,
      titles |-> 0, submitters |-> <<>>, dialogs |-> {}, info |-> Nil,
      peerlist |-> {}, player |-> Nil, event |-> Nil, sent |-> <<>> ]

Show(p, dialog) == [p EXCEPT !.dialogs = @ \cup {dialog}]
Hide(p, dialog) == [p EXCEPT !.dialogs = @ \ {dialog}]

\* socket.send: what is sent through a closed socket is dropped.
SendAll(p, messages) ==
    IF p.socket = "open" THEN [p EXCEPT !.sent = @ \o messages] ELSE p

Send(p, message) == SendAll(p, <<message>>)

-----------------------------------------------------------------------------
(* The YouTube player.  To play it has to buffer first.                    *)

TurnTo(p, state) == [p EXCEPT !.player.state = state, !.event = state]

seekTo(p, at)  == [p EXCEPT !.player.at = at]
playVideo(p)   == TurnTo(p, "BUFFERING")
pauseVideo(p)  == TurnTo(p, "PAUSED")
stopVideo(p)   == TurnTo(p, "CUED")

loadVideoById(p, video, at) ==
    TurnTo([p EXCEPT !.player.video = video, !.player.at = at], "BUFFERING")

-----------------------------------------------------------------------------
(* The player and its reports.                                             *)

\* A player that is embedded takes the place of the one before it.
initYouTube(p, vid) ==
    [p EXCEPT !.videoId = vid,
              !.player  = [video |-> vid, state |-> "UNSTARTED", at |-> 0],
              !.event   = Nil]

\* The player becomes what an update says, as far as whenPlayerReady goes.
Replay(p, v) ==
    LET at == seekTo(p, v.SecondsElapsed)
    IN  CASE v.State = "Paused"    -> pauseVideo(at)
          [] v.State = "Playing"   -> playVideo(at)
          [] v.State = "Ended"     -> stopVideo(at)
          [] v.State = "Unstarted" -> at

\* Mutant of onYouTubePlayerReady: the interval is left to setMyRank.
onYouTubePlayerReady_NoInterval(p) ==
    LET ready == [p EXCEPT !.ytplayer = TRUE, !.whenPlayerReady = Nil]
    IN  IF p.whenPlayerReady = Nil THEN ready
        ELSE Replay(ready, p.whenPlayerReady)

onYouTubePlayerReady(p) ==
    LET beats == p.myRank >= Editor
        ready == [p EXCEPT !.ytplayer        = TRUE,
                           !.videoHeartbeat  = @ \/ beats,
                           !.intervals       = IF beats THEN @ + 1 ELSE @,
                           !.whenPlayerReady = Nil]
    IN  IF p.whenPlayerReady = Nil THEN ready
        ELSE Replay(ready, p.whenPlayerReady)

\* Mutant of wtState: without the default, the state of a player that has
\* not started is undefined.
wtState_NoDefault(ytState) ==
    CASE ytState = "PLAYING"                    -> "Playing"
      [] ytState \in {"BUFFERING", "PAUSED"}    -> "Paused"
      [] ytState = "ENDED"                      -> "Ended"
      [] ytState = "CUED"                       -> "Unstarted"
      [] OTHER                                  -> Nil

\* The state that is sent for a state of the player.
wtState(ytState) ==
    CASE ytState = "PLAYING"                    -> "Playing"
      [] ytState \in {"BUFFERING", "PAUSED"}    -> "Paused"
      [] ytState = "ENDED"                      -> "Ended"
      [] ytState \in {"CUED", "UNSTARTED"}      -> "Unstarted"

sendVideoUpdate(p, ytState) ==
    IF ~p.echoBlock /\ p.myRank >= Editor
    THEN Send(p, [type  |-> "VideoUpdateRequest",
                  video |-> [Id             |-> p.videoId,
                             State          |-> wtState(ytState),
                             SecondsElapsed |-> p.player.at]])
    ELSE p

\* The player reports its change of state.
onStateChange(p) == sendVideoUpdate([p EXCEPT !.event = Nil], p.event)

\* An interval of sendVideoUpdate elapses.
VideoHeartbeat(p) == sendVideoUpdate(p, p.player.state)

\* A timer of the update handler elapses.
Unblock(p) == [p EXCEPT !.echoBlock = FALSE, !.unblocks = @ - 1]

-----------------------------------------------------------------------------
(* What the user and the script's timers do.                               *)

\* Mutant of setMyRank: the interval of the old rank goes on.
setMyRank_KeepsInterval(p, newRank) ==
    LET beats == p.ytplayer /\ newRank >= Editor
    IN  [p EXCEPT !.myRank         = newRank,
                  !.videoHeartbeat = beats,
                  !.intervals      = IF beats THEN @ + 1 ELSE @]

setMyRank(p, newRank) ==
    LET beats   == p.ytplayer /\ newRank >= Editor
        cleared == IF p.videoHeartbeat THEN p.intervals - 1 ELSE p.intervals
    IN  [p EXCEPT !.myRank         = newRank,
                  !.videoHeartbeat = beats,
                  !.intervals      = IF beats THEN cleared + 1 ELSE cleared]

startNewSession(p, leader) ==
    Send(IF leader THEN setMyRank(p, Director) ELSE p,
         [type |-> "SessionInit", Leader |-> leader])

respondToInvitation(p, accept) ==
    LET hidden == Hide(p, "invitation_response")
    IN  IF p.currentInvitation = Nil THEN hidden
        ELSE Send(Show(hidden, "wait_for_invitation"),
                  [type     |-> "InvitationResponse",
                   Accepted |-> accept,
                   Random   |-> p.currentInvitation.Random])

\* The invitation is sent when the title of the video has arrived.
sendInvitation(p) ==
    IF p.myRank < Director THEN p
    ELSE [Hide(p, "invitation") EXCEPT !.titles = @ + 1]

TitleArrives(p) ==
    Send([p EXCEPT !.titles = @ - 1], [type |-> "InvitationRequest"])

\* Mutant of selectNewVideo: videoId is left to the update of the leader.
selectNewVideo_KeepsId(p, newVideoId) ==
    IF p.ytplayer /\ p.myRank >= Editor
    THEN loadVideoById(p, newVideoId, 0)
    ELSE p

selectNewVideo(p, newVideoId) ==
    IF p.ytplayer /\ p.myRank >= Editor
    THEN loadVideoById([p EXCEPT !.videoId = newVideoId], newVideoId, 0)
    ELSE p

\* The interval of sendVideoUpdate is not cleared.
onClientTimeout(p) ==
    [p EXCEPT !.timeout = FALSE, !.heartbeat = FALSE, !.socket = "closed"]

\* The entry of a peer shows its rank as of when the list was made.
elementFromPeer(peer) ==
    [ Id    |-> peer.Id,
      class |-> CASE peer.Rank = Director -> "director"
                  [] peer.Rank = Editor   -> "editor"
                  [] peer.Rank = Viewer   -> "viewer"
                  [] OTHER                -> "none" ]

\* The entry of a peer is clicked.
showPeerInfoWindow(p, peer) ==
    [Show(p, "peer_info") EXCEPT !.info       = peer,
                                 !.submitters = Append(@, peer)]

\* #rank_change_form is submitted: every handler that was added runs.
submitRankChange(p, newRank) ==
    Hide(SendAll(p, [i \in DOMAIN p.submitters |->
                       [type    |-> "RankChangeRequest",
                        PeerId  |-> p.submitters[i],
                        NewRank |-> newRank]]),
         "peer_info")

SendHeartbeat(p) == Send(p, [type |-> "Heartbeat"])

endSession(p) ==
    Send(IF p.ytplayer THEN stopVideo(p) ELSE p, [type |-> "EndSession"])

-----------------------------------------------------------------------------
(* Messages of the client.                                                 *)

\* The first message says whether the client has taken this page.
handleBrowserConnectAck(p, message) ==
    IF message.Success
    THEN Show([p EXCEPT !.socket    = "open",
                        !.heartbeat = TRUE,
                        !.timeout   = TRUE], "session_type")
    ELSE [p EXCEPT !.socket = "rejected"]

handleInvitation(p, message) ==
    LET hidden == Hide(p, "wait_for_invitation")
    IN  IF p.myRank = Unknown
        THEN Show([hidden EXCEPT !.currentInvitation = message.invitation],
                  "invitation_response")
        ELSE hidden

\* Without an invitation the handler would end with an exception.
handleJoinConfirmation(p, message) ==
    IF /\ p.myRank = Unknown
       /\ message.Success
       /\ p.currentInvitation # Nil
    THEN Hide(initYouTube(setMyRank(p, p.currentInvitation.RankOffered),
                          p.videoId),
              "wait_for_invitation")
    ELSE p

handleSessionOk(p) ==
    LET hidden == Hide(p, "session_type")
    IN  IF p.myRank = Director THEN initYouTube(hidden, p.videoId)
        ELSE Show(hidden, "wait_for_invitation")

\* Mutant of handleHeartbeatAck: the timer is not started again.
handleHeartbeatAck_NoTimer(p) == [p EXCEPT !.timeout = FALSE]

handleHeartbeatAck(p) == [p EXCEPT !.timeout = TRUE]

\* Mutant of Adjust: the position is taken only when a video is loaded.
Adjust_NoSeek(p, v) ==
    LET at    == IF v.Id = p.videoId THEN p
                 ELSE loadVideoById([p EXCEPT !.videoId = v.Id],
                                    v.Id, v.SecondsElapsed)
        state == at.player.state
    IN  CASE v.State = "Unstarted" /\ state = "PLAYING" -> pauseVideo(at)
          [] v.State = "Paused"    /\ state # "PAUSED"  -> pauseVideo(at)
          [] v.State = "Playing"   /\ state # "PLAYING" -> playVideo(at)
          [] v.State = "Ended"                          -> stopVideo(at)
          [] OTHER                                      -> at

\* A player that is ready seeks or loads, then changes its state.
Adjust(p, v) ==
    LET at    == IF v.Id = p.videoId THEN seekTo(p, v.SecondsElapsed)
                 ELSE loadVideoById([p EXCEPT !.videoId = v.Id],
                                    v.Id, v.SecondsElapsed)
        state == at.player.state
    IN  CASE v.State = "Unstarted" /\ state = "PLAYING" -> pauseVideo(at)
          [] v.State = "Paused"    /\ state # "PAUSED"  -> pauseVideo(at)
          [] v.State = "Playing"   /\ state # "PLAYING" -> playVideo(at)
          [] v.State = "Ended"                          -> stopVideo(at)
          [] OTHER                                      -> at

\* Mutant of handleVideoUpdate: a player that is not ready returns before
\* the timer is set.
handleVideoUpdate_NoTimer(p, message) ==
    LET v       == message.video
        blocked == [p EXCEPT !.echoBlock = TRUE]
    IN  IF p.ytplayer
        THEN Adjust([blocked EXCEPT !.unblocks = @ + 1], v)
        ELSE [initYouTube(blocked, v.Id) EXCEPT !.whenPlayerReady = v]

handleVideoUpdate(p, message) ==
    LET v       == message.video
        blocked == [p EXCEPT !.echoBlock = TRUE, !.unblocks = @ + 1]
    IN  IF p.ytplayer THEN Adjust(blocked, v)
        ELSE [initYouTube(blocked, v.Id) EXCEPT !.whenPlayerReady = v]

\* The list is made anew, and the page takes the rank of its own entry.
handleRosterUpdate(p, message) ==
    LET listed == [p EXCEPT !.peerlist =
                     {elementFromPeer(peer) : peer \in message.roster.others}]
    IN  IF message.roster.mine # p.myRank
        THEN setMyRank(listed, message.roster.mine)
        ELSE listed

\* An Error is only logged.
handleMessage(p, message) ==
    CASE message.type = "Invitation"       -> handleInvitation(p, message)
      [] message.type = "JoinConfirmation" ->
                                         handleJoinConfirmation(p, message)
      [] message.type = "SessionOk"        -> handleSessionOk(p)
      [] message.type = "HeartbeatAck"     -> handleHeartbeatAck(p)
      [] message.type = "VideoUpdate"      -> handleVideoUpdate(p, message)
      [] message.type = "RosterUpdate"     -> handleRosterUpdate(p, message)
      [] OTHER                             -> p  \* Error, and the default

\* The first message goes to a handler of its own.
onmessage(p, message) ==
    IF p.socket = "connecting" THEN handleBrowserConnectAck(p, message)
    ELSE handleMessage(p, message)

onerror(p) ==
    [p EXCEPT !.heartbeat = FALSE, !.timeout = FALSE, !.socket = "closed"]

-----------------------------------------------------------------------------
(* Properties of a page.                                                   *)

\* Exactly one interval reports the player when it is ready and the user may
\* edit, none otherwise, and the script holds its handle: whatever the order
\* in which the player gets ready and ranks come and go, no interval is lost
\* to the script and none runs twice (wetube.ts 80-82, 150-157).
OneInterval(p) ==
    /\ p.videoHeartbeat = (p.ytplayer /\ p.myRank >= Editor)
    /\ p.intervals = (IF p.videoHeartbeat THEN 1 ELSE 0)

\* The id that updates are compared with and that reports carry is that of
\* the video in the player (wetube.ts 73, 214-215, 315-332).
KnowsVideo(p) ==
    /\ p.player # Nil => p.videoId = p.player.video
    /\ p.ytplayer => p.player # Nil

\* While the reports of the player are blocked, a timer that will let them
\* through again is running (wetube.ts 312-313).
BlockedWhileTimed(p) == p.echoBlock => p.unblocks > 0
=============================================================================
