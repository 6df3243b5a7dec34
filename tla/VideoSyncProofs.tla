---------------------------- MODULE VideoSyncProofs ----------------------------
(***************************************************************************)
(* In a session of any size, with any videos, users, timers and changes of *)
(* rank, every page stays well formed: it knows the video in its player,   *)
(* and it is never blocked without a timer.                                *)
(***************************************************************************)
EXTENDS VideoSync, PageProofs

-----------------------------------------------------------------------------
(* What a page sends when it has joined: only reports of its player.       *)

Requests == [type : {"VideoUpdateRequest"}, video : VideoInstants]

\* A page in a session, whose queue to the leader holds reports only.
Reporting(p) == Good(p) /\ p.sent \in Seq(Requests)

\* The operators that send nothing.
LEMMA SentBasics ==
    ASSUME NEW p, Good(p), NEW s, NEW v, NEW at
    PROVE  /\ TurnTo(p, s).sent = p.sent
           /\ seekTo(p, at).sent = p.sent
           /\ initYouTube(p, v).sent = p.sent
           /\ setMyRank(p, s).sent = p.sent
           /\ Unblock(p).sent = p.sent
<1>1. p \in PageStates
  BY DEF Good
<1>2. TurnTo(p, s).sent = p.sent
  BY <1>1 DEF TurnTo, PageStates
<1>3. seekTo(p, at).sent = p.sent
  BY <1>1 DEF seekTo, PageStates
<1>4. initYouTube(p, v).sent = p.sent
  BY <1>1 DEF initYouTube, PageStates
<1>5. setMyRank(p, s).sent = p.sent
  BY <1>1 DEF setMyRank, PageStates
<1>6. Unblock(p).sent = p.sent
  BY <1>1 DEF Unblock, PageStates
<1> QED BY <1>2, <1>3, <1>4, <1>5, <1>6

\* Loading another video sends nothing either.
LEMMA SentLoad ==
    ASSUME NEW p, Good(p), NEW v, NEW at
    PROVE  loadVideoById([p EXCEPT !.videoId = v], v, at).sent = p.sent
<1> DEFINE a == [p EXCEPT !.videoId = v]
           b == [a EXCEPT !.player.video = v, !.player.at = at]
           F == {"socket", "myRank", "videoId", "player", "event", "sent"}
<1>1. F \subseteq DOMAIN p
  BY DEF Good, PageStates
<1>2. F \subseteq DOMAIN a /\ a.sent = p.sent
  BY <1>1
<1> HIDE DEF a
<1>3. F \subseteq DOMAIN b /\ b.sent = p.sent
  BY <1>2
<1> HIDE DEF b
<1>4. TurnTo(b, "BUFFERING").sent = b.sent
  BY <1>3 DEF TurnTo
<1>5. loadVideoById(a, v, at) = TurnTo(b, "BUFFERING")
  BY DEF loadVideoById, b
<1> QED BY <1>3, <1>4, <1>5 DEF a

\* The player adjusts to an update, or replays one, without a report.
LEMMA SentAdjust ==
    ASSUME NEW p, Good(p), p.player # Nil, NEW v \in VideoInstants
    PROVE  Replay(p, v).sent = p.sent /\ Adjust(p, v).sent = p.sent
<1>1. v.SecondsElapsed \in Second /\ v.Id \in Video /\ v.State \in VideoStates
  BY DEF VideoInstants
<1>2. \A q : Good(q) /\ q.sent = p.sent =>
        /\ pauseVideo(q).sent = p.sent
        /\ playVideo(q).sent = p.sent
        /\ stopVideo(q).sent = p.sent
  BY SentBasics DEF pauseVideo, playVideo, stopVideo
<1>3. Replay(p, v).sent = p.sent
  <2> DEFINE at == seekTo(p, v.SecondsElapsed)
  <2>1. Good(at) /\ at.sent = p.sent
    BY <1>1, GoodSeekTo, SentBasics
  <2> HIDE DEF at
  <2>2. Replay(p, v) \in {pauseVideo(at), playVideo(at), stopVideo(at), at}
    BY <1>1 DEF Replay, at, VideoStates
  <2> QED BY <1>2, <2>1, <2>2
<1>4. Adjust(p, v).sent = p.sent
  <2> DEFINE at == IF v.Id = p.videoId THEN seekTo(p, v.SecondsElapsed)
                   ELSE loadVideoById([p EXCEPT !.videoId = v.Id],
                                      v.Id, v.SecondsElapsed)
  <2>1. Good(at) /\ at.sent = p.sent
    BY <1>1, GoodSeekTo, GoodLoad, SentBasics, SentLoad
  <2> HIDE DEF at
  <2>2. Adjust(p, v) \in {pauseVideo(at), playVideo(at), stopVideo(at), at}
    BY DEF Adjust, at
  <2> QED BY <1>2, <2>1, <2>2
<1> QED BY <1>3, <1>4

\* onYouTubePlayerReady (wetube.ts 76-87).
LEMMA ReportingReady ==
    ASSUME NEW p, Reporting(p), ~p.ytplayer, p.player # Nil
    PROVE  Reporting(onYouTubePlayerReady(p))
  BY GoodReadied, ReadyIs, GoodReplay, SentAdjust DEF Reporting

\* sendVideoUpdate (wetube.ts 89-117) sends a report, or nothing.
LEMMA ReportingReport ==
    ASSUME NEW p, Reporting(p), p.player # Nil, NEW s \in YTPlayerStates
    PROVE  Reporting(sendVideoUpdate(p, s))
<1> DEFINE v == [Id |-> p.videoId, State |-> wtState(s),
                 SecondsElapsed |-> p.player.at]
           message == [type |-> "VideoUpdateRequest", video |-> v]
<1>1. p.videoId \in Video /\ p.player.at \in Second /\ Good(p)
  BY PlayerThere DEF Reporting, Good, PageStates
<1>2. wtState(s) \in VideoStates
  BY DEF wtState, VideoStates, YTPlayerStates
<1>3. message \in Requests
  BY <1>1, <1>2 DEF VideoInstants, Requests
<1>4. sendVideoUpdate(p, s)
        \in {p, [p EXCEPT !.sent = @ \o <<message>>]}
  BY DEF sendVideoUpdate, Send, SendAll
<1> HIDE DEF message
<1>5. [p EXCEPT !.sent = @ \o <<message>>].sent = p.sent \o <<message>>
  BY <1>1 DEF Good, PageStates
<1>6. p.sent \o <<message>> \in Seq(Requests)
  BY <1>3 DEF Reporting
<1>7. sendVideoUpdate(p, s).sent \in Seq(Requests)
  BY <1>4, <1>5, <1>6 DEF Reporting
<1> QED BY <1>1, <1>7, GoodReport DEF Reporting

\* onStateChange reports the state that the player has turned to.
LEMMA ReportingStateChange ==
    ASSUME NEW p, Reporting(p), p.ytplayer, p.event # Nil
    PROVE  Reporting(onStateChange(p))
<1> DEFINE q == [p EXCEPT !.event = Nil]
<1>1. p \in PageStates /\ p.player # Nil /\ p.event \in YTPlayerStates
        /\ Good(p)
  BY DEF Reporting, Good, PageStates, KnowsVideo
<1>2. Same(p, q) /\ q.sent = p.sent
  BY <1>1 DEF Same, SameButPlayer, PageStates
<1>3. onStateChange(p) = sendVideoUpdate(q, p.event)
  BY DEF onStateChange
<1> HIDE DEF q
<1>4. Reporting(q) /\ q.player # Nil
  BY <1>1, <1>2, GoodSame DEF Reporting, Same
<1> QED BY <1>1, <1>3, <1>4, ReportingReport

\* The interval reports a player that is there.
LEMMA ReportingVideoHeartbeat ==
    ASSUME NEW p, Reporting(p), p.intervals > 0
    PROVE  Reporting(VideoHeartbeat(p))
<1>1. p.videoHeartbeat /\ Good(p)
  BY DEF Reporting, Good, OneInterval
<1>2. p.ytplayer
  BY <1>1, Zenon DEF Good, OneInterval
<1>3. p.player # Nil /\ p.player.state \in YTPlayerStates
  BY <1>1, <1>2, PlayerThere DEF Good, KnowsVideo
<1> QED BY <1>3, ReportingReport DEF VideoHeartbeat

\* The player and its user; a timer (wetube.ts 208-223, 313).
LEMMA ReportingPlayer ==
    ASSUME NEW p, Reporting(p)
    PROVE  /\ p.ytplayer => \A s \in YTPlayerStates : Reporting(TurnTo(p, s))
           /\ p.ytplayer => \A at \in Second : Reporting(seekTo(p, at))
           /\ \A v \in Video : Reporting(selectNewVideo(p, v))
           /\ p.unblocks > 0 => Reporting(Unblock(p))
<1>1. p.ytplayer => p.player # Nil
  BY DEF Reporting, Good, KnowsVideo
<1>2. \A v \in Video : Reporting(selectNewVideo(p, v))
  BY SentLoad, GoodSelect DEF selectNewVideo, Reporting
<1> QED BY <1>1, <1>2, GoodTurnTo, GoodSeekTo, GoodUnblock, SentBasics
        DEF Reporting

\* VideoUpdate (wetube.ts 310-354).
LEMMA ReportingVideoUpdate ==
    ASSUME NEW p, Reporting(p), NEW v \in VideoInstants
    PROVE  Reporting(handleMessage(p, [type |-> "VideoUpdate", video |-> v]))
<1> DEFINE message == [type |-> "VideoUpdate", video |-> v]
           q == Blocked(p)
           r == initYouTube(q, v.Id)
           s == [r EXCEPT !.whenPlayerReady = v]
<1>1. message.type = "VideoUpdate" /\ message.video = v
  OBVIOUS
<1> HIDE DEF message
<1>2. handleMessage(p, message) = handleVideoUpdate(p, message)
  BY <1>1 DEF handleMessage
<1>3. handleVideoUpdate(p, message) = IF p.ytplayer THEN Adjust(q, v) ELSE s
  BY <1>1 DEF handleVideoUpdate, Blocked
<1>4. Good(p) /\ Good(q) /\ q.sent = p.sent /\ q.ytplayer = p.ytplayer
  BY GoodBlocked DEF Reporting
<1> HIDE DEF q
<1>5. p.ytplayer => Adjust(q, v).sent = p.sent
  BY <1>4, SentAdjust DEF Good, KnowsVideo
<1>6. Good(r) /\ r.sent = p.sent
  BY <1>4, GoodInitYouTube, SentBasics DEF VideoInstants
<1> HIDE DEF r
<1>7. s.sent = p.sent
  BY <1>6 DEF Good, PageStates
<1> HIDE DEF s
<1>8. Good(handleVideoUpdate(p, message))
  BY <1>1, <1>4, GoodVideoUpdate
<1>9. handleVideoUpdate(p, message).sent = p.sent
  BY <1>3, <1>5, <1>7
<1>10. Reporting(handleMessage(p, message))
  BY <1>2, <1>8, <1>9 DEF Reporting
<1> QED BY <1>10 DEF message

\* RosterUpdate, of which only the page's own rank is kept (wetube.ts 355-368).
LEMMA ReportingRosterUpdate ==
    ASSUME NEW p, Reporting(p), NEW rank \in Ranks
    PROVE  Reporting(handleMessage(p,
             [type   |-> "RosterUpdate",
              roster |-> [mine |-> rank, others |-> {}]]))
<1> DEFINE roster == [mine |-> rank, others |-> {}]
           message == [type |-> "RosterUpdate", roster |-> roster]
           list == {elementFromPeer(peer) : peer \in message.roster.others}
           q == [p EXCEPT !.peerlist = list]
<1>1. roster \in Rosters
  BY DEF Rosters, AllRanks
<1>2. message.type = "RosterUpdate" /\ message.roster \in Rosters
  BY <1>1
<1>3. handleRosterUpdate(p, message)
        \in {q, setMyRank(q, message.roster.mine)}
  BY DEF handleRosterUpdate
<1>4. list = {}
  OBVIOUS
<1> HIDE DEF message, list
<1>5. handleMessage(p, message) = handleRosterUpdate(p, message)
  BY <1>2 DEF handleMessage
<1>6. Good(p)
  BY DEF Reporting
<1>7. Same(p, q) /\ q.sent = p.sent
  BY <1>4, <1>6 DEF Good, Same, SameButPlayer, PageStates
<1> HIDE DEF q
<1>8. setMyRank(q, message.roster.mine).sent = p.sent
  BY <1>6, <1>7, GoodSame, SentBasics
<1>9. Good(handleRosterUpdate(p, message))
  BY <1>2, <1>6, GoodRosterUpdate
<1>10. handleRosterUpdate(p, message).sent = p.sent
  BY <1>3, <1>7, <1>8
<1>11. Reporting(handleMessage(p, message))
  BY <1>5, <1>9, <1>10 DEF Reporting
<1> QED BY <1>11 DEF message

\* The leader reads a report.
LEMMA ReportingRead ==
    ASSUME NEW p, Reporting(p), p.sent # <<>>
    PROVE  /\ Reporting([p EXCEPT !.sent = Tail(@)])
           /\ Head(p.sent).video \in VideoInstants
<1>1. Good(p) /\ p \in PageStates
  BY DEF Reporting, Good
<1>2. [p EXCEPT !.sent = Tail(@)].sent = Tail(p.sent)
  BY <1>1 DEF PageStates
<1>3. Tail(p.sent) \in Seq(Requests) /\ Head(p.sent) \in Requests
  BY DEF Reporting
<1>4. Head(p.sent).video \in VideoInstants
  BY <1>3 DEF Requests
<1> QED BY <1>1, <1>2, <1>3, <1>4, GoodRead DEF Reporting

-----------------------------------------------------------------------------
(* The inductive invariant.                                                *)

\* What the leader knows and has under way.
LeaderTyped ==
    /\ peerRank \in [Member -> Ranks]
    /\ ranks \in [Member -> Seq(Ranks)]
    /\ tasks \in Seq(Tasks)
    /\ updates \in [Member -> Seq(Reports)]
    /\ demotions \in 0..MaxDemotions

PagesReport ==
    page \in [Member -> PageStates] /\ \A m \in Member : Reporting(page[m])

IInv == PagesReport /\ LeaderTyped /\ acts \in 0..MaxActs

\* Every page starts with its player embedded.
LEMMA InitInv == Init => IInv
<1> SUFFICES ASSUME Init PROVE IInv
  OBVIOUS
<1>1. ASSUME NEW m \in Member PROVE Reporting(JoinedPage(m))
  <2> DEFINE p == [NewPage EXCEPT !.socket = "open", !.heartbeat = TRUE,
                                  !.timeout = TRUE]
             q == setMyRank(p, RankOf[m])
  <2>1. p.sent = <<>>
    BY DEF NewPage
  <2>2. JoinedPage(m) = initYouTube(q, DefaultVideo)
    BY DEF JoinedPage
  <2>3. Good(p)
    BY GoodNewPage
  <2> HIDE DEF p
  <2>4. RankOf[m] \in AllRanks
    BY VideoSyncAssumption DEF AllRanks
  <2>5. Good(q) /\ q.sent = <<>>
    BY <2>1, <2>3, <2>4, GoodSetMyRank, SentBasics
  <2> HIDE DEF q
  <2>6. Good(JoinedPage(m)) /\ JoinedPage(m).sent = <<>>
    BY <2>2, <2>5, PageAssumption, GoodInitYouTube, SentBasics
  <2> QED BY <2>6 DEF Reporting
<1>2. \A m \in Member : JoinedPage(m) \in PageStates
  BY <1>1 DEF Reporting, Good
<1>3. PagesReport
  <2>1. page = [m \in Member |-> JoinedPage(m)]
    BY DEF Init
  <2> QED BY <1>1, <1>2, <2>1 DEF PagesReport
<1>4. LeaderTyped
  <2>1. FirstUpdate \in Reports
    BY PageAssumption, VideoSyncAssumption
    DEF FirstUpdate, Reports, VideoInstants, VideoStates
  <2>2. <<FirstUpdate>> \in Seq(Reports) /\ <<>> \in Seq(Reports)
    BY <2>1
  <2>3. updates = [m \in Member |->
                     IF m = Leader THEN <<FirstUpdate>> ELSE <<>>]
    BY DEF Init
  <2> HIDE DEF FirstUpdate
  <2>4. updates \in [Member -> Seq(Reports)]
    BY <2>2, <2>3
  <2>5. MaxDemotions \in Nat
    BY VideoSyncAssumption
  <2> QED BY <2>4, <2>5, VideoSyncAssumption DEF Init, LeaderTyped
<1>5. acts \in 0..MaxActs
  BY VideoSyncAssumption DEF Init
<1> QED BY <1>3, <1>4, <1>5 DEF IInv

\* A step of a page that leaves the leader alone.
LEMMA PageStepInv ==
    ASSUME IInv, NEW m \in Member, NEW p, Reporting(p), PageStep(m, p)
    PROVE  PagesReport' /\ LeaderTyped'
<1>1. p \in PageStates
  BY DEF Reporting, Good
<1>2. page' = [page EXCEPT ![m] = p]
  BY DEF PageStep
<1>3. PagesReport'
  BY <1>1, <1>2 DEF IInv, PagesReport
<1>4. LeaderTyped'
  BY DEF IInv, LeaderTyped, PageStep
<1> QED BY <1>3, <1>4

\* The same with something that a user does.
LEMMA ActInv ==
    ASSUME IInv, NEW m \in Member, NEW p, Reporting(p), Act(m, p)
    PROVE  IInv'
<1>1. PagesReport' /\ LeaderTyped'
  BY PageStepInv DEF Act
<1>2. acts' \in 0..MaxActs
  BY VideoSyncAssumption DEF Act, IInv
<1> QED BY <1>1, <1>2 DEF IInv

\* The scripts, players and timers of the members, and what the leader reads.
LEMMA MemberNextInv ==
    ASSUME IInv, NEW m \in Member, MemberNext(m)
    PROVE  IInv'
<1>0. Reporting(page[m])
  BY DEF IInv, PagesReport
<1>1. CASE PlayerReady(m)
  <2>1. Reporting(onYouTubePlayerReady(page[m]))
    BY <1>0, <1>1, ReportingReady DEF PlayerReady
  <2> QED BY <1>1, <2>1, PageStepInv DEF PlayerReady, IInv
<1>2. CASE PlayerReports(m)
  <2>1. Reporting(onStateChange(page[m]))
    BY <1>0, <1>2, ReportingStateChange DEF PlayerReports
  <2> QED BY <1>2, <2>1, PageStepInv DEF PlayerReports, IInv
<1>3. CASE IntervalReports(m)
  <2>1. Reporting(VideoHeartbeat(page[m]))
    BY <1>0, <1>3, ReportingVideoHeartbeat DEF IntervalReports
  <2> QED BY <1>3, <2>1, PageStepInv DEF IntervalReports, IInv
<1>4. CASE EchoUnblocks(m)
  <2>1. Reporting(Unblock(page[m]))
    BY <1>0, <1>4, ReportingPlayer DEF EchoUnblocks
  <2> QED BY <1>4, <2>1, PageStepInv DEF EchoUnblocks, IInv
<1>5. CASE PlayerBuffered(m)
  <2>1. Reporting(TurnTo(page[m], "PLAYING"))
    BY <1>0, <1>5, ReportingPlayer DEF PlayerBuffered, YTPlayerStates
  <2> QED BY <1>5, <2>1, PageStepInv DEF PlayerBuffered, IInv
<1>6. CASE PageUpdates(m)
  <2> DEFINE v == Head(updates[m]).video
             p == handleMessage(page[m], [type |-> "VideoUpdate", video |-> v])
  <2>1. updates[m] \in Seq(Reports) /\ updates[m] # <<>>
    BY <1>6 DEF PageUpdates, IInv, LeaderTyped
  <2>2. Head(updates[m]) \in Reports /\ Tail(updates[m]) \in Seq(Reports)
    BY <2>1
  <2>3. v \in VideoInstants
    BY <2>2 DEF Reports
  <2>4. Reporting(p) /\ page' = [page EXCEPT ![m] = p]
    BY <1>0, <1>6, <2>3, ReportingVideoUpdate DEF PageUpdates
  <2> HIDE DEF p
  <2>5. PagesReport'
    BY <2>4 DEF IInv, PagesReport, Reporting, Good
  <2>6. LeaderTyped'
    BY <1>6, <2>2 DEF PageUpdates, IInv, LeaderTyped
  <2> QED BY <1>6, <2>5, <2>6 DEF PageUpdates, IInv
<1>7. CASE PageRanks(m)
  <2> DEFINE r == Head(ranks[m])
             p == handleMessage(page[m],
                    [type   |-> "RosterUpdate",
                     roster |-> [mine |-> r, others |-> {}]])
  <2>1. ranks[m] \in Seq(Ranks) /\ ranks[m] # <<>>
    BY <1>7 DEF PageRanks, IInv, LeaderTyped
  <2>2. r \in Ranks /\ Tail(ranks[m]) \in Seq(Ranks)
    BY <2>1
  <2>3. Reporting(p) /\ page' = [page EXCEPT ![m] = p]
    BY <1>0, <1>7, <2>2, ReportingRosterUpdate DEF PageRanks
  <2> HIDE DEF p
  <2>4. PagesReport'
    BY <2>3 DEF IInv, PagesReport, Reporting, Good
  <2>5. LeaderTyped'
    BY <1>7, <2>2 DEF PageRanks, IInv, LeaderTyped
  <2> QED BY <1>7, <2>4, <2>5 DEF PageRanks, IInv
<1>8. CASE LeaderReads(m)
  <2> DEFINE p == [page[m] EXCEPT !.sent = Tail(@)]
             request == Head(page[m].sent)
             to == IF m = Leader THEN Member \ {Leader} ELSE Member
             task == [from |-> m, video |-> request.video, to |-> to]
  <2>1. Reporting(p) /\ request.video \in VideoInstants
    BY <1>0, <1>8, ReportingRead DEF LeaderReads
  <2>2. page' = [page EXCEPT ![m] = p]
    BY <1>8 DEF LeaderReads
  <2>3. task \in Tasks
    BY <2>1 DEF Tasks
  <2>4. tasks' \in {tasks, Append(tasks, task)}
    BY <1>8 DEF LeaderReads
  <2> HIDE DEF p, task
  <2>5. PagesReport'
    BY <2>1, <2>2 DEF IInv, PagesReport, Reporting, Good
  <2>6. tasks' \in Seq(Tasks)
    <3>1. tasks \in Seq(Tasks)
      BY DEF IInv, LeaderTyped
    <3>2. Append(tasks, task) \in Seq(Tasks)
      BY <2>3, <3>1
    <3> QED BY <2>4, <3>1, <3>2
  <2>7. LeaderTyped'
    BY <1>8, <2>6 DEF LeaderReads, IInv, LeaderTyped
  <2> QED BY <1>8, <2>5, <2>7 DEF LeaderReads, IInv
<1> QED BY <1>1, <1>2, <1>3, <1>4, <1>5, <1>6, <1>7, <1>8 DEF MemberNext

\* What users do to their players, and the end of a video.
LEMMA UserNextInv ==
    ASSUME IInv, NEW m \in Member, UserNext(m)
    PROVE  IInv'
<1>0. Reporting(page[m])
  BY DEF IInv, PagesReport
<1>1. CASE PlayerEnds(m)
  BY <1>0, <1>1, ReportingPlayer, ActInv DEF PlayerEnds, Act, YTPlayerStates
<1>2. CASE UserPlays(m)
  BY <1>0, <1>2, ReportingPlayer, ActInv
  DEF UserPlays, Act, playVideo, YTPlayerStates
<1>3. CASE UserPauses(m)
  BY <1>0, <1>3, ReportingPlayer, ActInv
  DEF UserPauses, Act, pauseVideo, YTPlayerStates
<1>4. ASSUME NEW at \in Second, UserSeeks(m, at) PROVE IInv'
  BY <1>0, <1>4, ReportingPlayer, ActInv DEF UserSeeks, Act
<1>5. ASSUME NEW v \in Video, UserSelects(m, v) PROVE IInv'
  BY <1>0, <1>5, ReportingPlayer, ActInv DEF UserSelects
<1> QED BY <1>1, <1>2, <1>3, <1>4, <1>5 DEF UserNext

\* The leader makes a member a Viewer.
LEMMA DemoteInv ==
    ASSUME IInv, NEW m \in Member, Demote(m)
    PROVE  IInv'
<1>1. Viewer \in Ranks /\ MaxDemotions \in Nat
  BY VideoSyncAssumption DEF Ranks
<1>2. ranks[m] \in Seq(Ranks) /\ Append(ranks[m], Viewer) \in Seq(Ranks)
  BY <1>1 DEF IInv, LeaderTyped
<1>3. demotions' \in 0..MaxDemotions
  BY <1>1 DEF IInv, LeaderTyped, Demote
<1>4. LeaderTyped'
  BY <1>1, <1>2, <1>3 DEF IInv, LeaderTyped, Demote
<1> QED BY <1>4 DEF IInv, PagesReport, Demote

\* A goroutine of the leader puts an update into the queue of one page.
LEMMA BroadcastInv ==
    ASSUME IInv, NEW n \in DOMAIN tasks, NEW m \in tasks[n].to,
           BroadcastStep(n, m)
    PROVE  IInv'
<1> DEFINE report == [from |-> tasks[n].from, video |-> tasks[n].video]
<1>1. tasks \in Seq(Tasks) /\ n \in 1..Len(tasks)
  BY DEF IInv, LeaderTyped
<1>2. tasks[n] \in Tasks
  BY <1>1
<1>3. m \in Member /\ report \in Reports
  BY <1>2 DEF Tasks, Reports
<1>4. [tasks[n] EXCEPT !.to = @ \ {m}] \in Tasks
  BY <1>2 DEF Tasks
<1>5. [tasks EXCEPT ![n].to = @ \ {m}] \in Seq(Tasks)
  <2>1. [tasks EXCEPT ![n].to = @ \ {m}]
          = [tasks EXCEPT ![n] = [tasks[n] EXCEPT !.to = @ \ {m}]]
    BY Zenon
  <2> QED BY <1>1, <1>4, <2>1
<1>6. SubSeq(tasks, 1, n - 1) \o SubSeq(tasks, n + 1, Len(tasks))
        \in Seq(Tasks)
  BY <1>1
<1>7. tasks' \in Seq(Tasks)
  BY <1>5, <1>6 DEF BroadcastStep
<1> HIDE DEF report
<1>8. updates' = [updates EXCEPT ![m] = Append(@, report)]
  BY DEF BroadcastStep, report
<1>9. updates' \in [Member -> Seq(Reports)]
  BY <1>3, <1>8 DEF IInv, LeaderTyped
<1>10. LeaderTyped'
  BY <1>7, <1>9 DEF IInv, LeaderTyped, BroadcastStep
<1> QED BY <1>10 DEF IInv, PagesReport, BroadcastStep

\* Every step keeps the invariant.
LEMMA NextInv == IInv /\ [Next]_vars => IInv'
<1> SUFFICES ASSUME IInv, [Next]_vars PROVE IInv'
  OBVIOUS
<1>1. CASE UNCHANGED vars
  BY <1>1 DEF vars, IInv, PagesReport, LeaderTyped
<1>2. CASE Next
  BY <1>2, MemberNextInv, UserNextInv, DemoteInv, BroadcastInv DEF Next
<1> QED BY <1>1, <1>2

\* The invariant holds throughout every session.
LEMMA AlwaysInv == Spec => []IInv
  BY InitInv, NextInv, PTL DEF Spec

-----------------------------------------------------------------------------
(* Theorems.                                                               *)

\* Pages, reports, tasks and updates are well typed in every session: whatever
\* state a player is in, what it reports is one of the four states that the
\* leader and the other pages know (wetube.ts 92-106).
THEOREM VideoTypeCorrect == Spec => []TypeOK
<1>1. IInv => TypeOK
  BY DEF IInv, PagesReport, LeaderTyped, TypeOK
<1> QED BY <1>1, AlwaysInv, PTL

\* In sessions of any size, every page knows the video in its player: videoId
\* is never stale (wetube.ts 73, 214-215, 315-332).
THEOREM VideoIdAlwaysTrue == Spec => []VideoIdTrue
<1>1. IInv => VideoIdTrue
  BY DEF IInv, PagesReport, Reporting, Good, VideoIdTrue
<1> QED BY <1>1, AlwaysInv, PTL

\* No order of updates and timers leaves a page blocked without a timer that
\* will end the block (wetube.ts 312-313).
THEOREM BlockAlwaysLifted == Spec => []BlockLifted
<1>1. IInv => BlockLifted
  BY DEF IInv, PagesReport, Reporting, Good, BlockLifted
<1> QED BY <1>1, AlwaysInv, PTL
=============================================================================
