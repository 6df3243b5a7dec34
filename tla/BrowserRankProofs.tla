--------------------------- MODULE BrowserRankProofs ---------------------------
(***************************************************************************)
(* A page and its client agree on the rank once nothing is under way.  The *)
(* page takes its rank from whichever message came last, so the invariant  *)
(* follows the last of them from the goroutine that reads the roster       *)
(* through the channel to the page.                                        *)
(***************************************************************************)
EXTENDS BrowserProofs

-----------------------------------------------------------------------------
(* The inductive invariant.                                                *)

\* The client when its page has been taken, and has not been told yet.
Accepting ==
    [NewClient("connect") EXCEPT
       !.phase     = "start",
       !.toBrowser = <<[type |-> "BrowserConnectAck", Success |-> TRUE]>>]

\* Until the first message has arrived the page does nothing, and neither
\* does a client that has taken it.
UnconnectedInv ==
    /\ page.socket = "connecting" =>
         page = NewPage /\ (Serving => client = Accepting)
    /\ client.phase = "connect" =>
         page.socket = "connecting" /\ client = NewClient("connect")

\* The n-th message of the page that is not read yet starts a session.
Starts(n) == n \in DOMAIN page.sent /\ page.sent[n].type = "SessionInit"

\* A client leaves startSession for the one message that asks it to.
StartInv ==
    /\ client.phase = "start" => ~client.becomeLeader
    /\ Serving /\ spent["choice"] = 0 => client.phase = "start"
    /\ \A n \in DOMAIN page.sent : Starts(n) =>
         /\ spent["choice"] > 0
         /\ spent["choice"] <= 1 =>
              /\ Serving => client.phase = "start"
              /\ \A m \in DOMAIN page.sent : Starts(m) => m = n

\* Something is under way after which the client will ask for the roster.
RosterDue ==
    \/ client.becomeLeader \/ client.updateRoster # <<>> \/ client.syncs > 0
    \/ \E n \in DOMAIN page.sent : Starts(n) /\ page.sent[n].Leader

\* The messages that change the rank of the page.
Ranking == {"RosterUpdate", "JoinConfirmation"}

\* The last of them on its way is a roster with the client's rank; if there
\* is none, the page has that rank.
LastTold(n) ==
    /\ n = 0 => page.myRank = client.Rank
    /\ n > 0 => /\ client.toBrowser[n].type = "RosterUpdate"
                /\ client.toBrowser[n].roster.mine = client.Rank
    /\ \A m \in DOMAIN client.toBrowser :
         m > n => client.toBrowser[m].type \notin Ranking

\* The page has the client's rank, or will have it.
RankTold ==
    IF client.rosters = <<>>
    THEN \E n \in 0..Len(client.toBrowser) : LastTold(n)
    ELSE client.rosters[Len(client.rosters)].mine = client.Rank

ToldInv ==
    /\ page.socket = "open" /\ Serving
    /\ ~overtaken /\ spent["choice"] <= 1
    => RosterDue \/ RankTold

RankInv == UnconnectedInv /\ StartInv /\ ToldInv

-----------------------------------------------------------------------------
(* What the handlers of the page do to its rank and to what it sends.      *)

\* The fields of a page that its rank depends on are there.
Ranked(p) == {"socket", "myRank", "sent"} \subseteq DOMAIN p

\* The page has the same rank, and has sent nothing.
Keeps(p, q) ==
    /\ Ranked(q) /\ q.socket = p.socket
    /\ q.myRank = p.myRank /\ q.sent = p.sent

\* The page has the same rank, and has sent nothing that starts a session.
Quiet(p, q) ==
    /\ q.socket = p.socket /\ q.myRank = p.myRank
    /\ Len(p.sent) <= Len(q.sent)
    /\ \A n \in 1..Len(p.sent) : q.sent[n] = p.sent[n]
    /\ \A n \in 1..Len(q.sent) :
         n > Len(p.sent) => q.sent[n].type # "SessionInit"

\* A page that is well formed has these fields.
LEMMA GoodRanked ==
    ASSUME NEW p, Good(p)
    PROVE  Ranked(p) /\ Keeps(p, p)
  BY DEF Good, PageStates, Ranked, Keeps

\* A dialog is shown or hidden.
LEMMA DialogKeeps ==
    ASSUME NEW p, Ranked(p), NEW dialog
    PROVE  Keeps(p, Show(p, dialog)) /\ Keeps(p, Hide(p, dialog))
  BY DEF Ranked, Keeps, Show, Hide

\* What the script tells its player.
LEMMA PlayerKeeps ==
    ASSUME NEW p, Ranked(p), NEW state, NEW at, NEW video
    PROVE  /\ Keeps(p, TurnTo(p, state))
           /\ Keeps(p, seekTo(p, at))
           /\ Keeps(p, loadVideoById(p, video, at))
           /\ Keeps(p, initYouTube(p, video))
<1>1. Keeps(p, TurnTo(p, state))
  BY DEF Ranked, Keeps, TurnTo
<1>2. Keeps(p, seekTo(p, at))
  BY DEF Ranked, Keeps, seekTo
<1>3. Keeps(p, loadVideoById(p, video, at))
  BY DEF Ranked, Keeps, loadVideoById, TurnTo
<1>4. Keeps(p, initYouTube(p, video))
  BY DEF Ranked, Keeps, initYouTube
<1> QED BY <1>1, <1>2, <1>3, <1>4

\* One handler after another.
LEMMA KeepsTwice ==
    ASSUME NEW p, NEW q, NEW r, Keeps(p, q), Keeps(q, r)
    PROVE  Keeps(p, r) /\ Ranked(q)
  BY DEF Keeps

\* The player turns to the state of an update, or stays as it is.
LEMMA TurnsKeep ==
    ASSUME NEW p, Ranked(p)
    PROVE  /\ Keeps(p, p) /\ Keeps(p, pauseVideo(p))
           /\ Keeps(p, playVideo(p)) /\ Keeps(p, stopVideo(p))
<1>1. Keeps(p, p)
  BY DEF Keeps
<1> QED BY <1>1, PlayerKeeps DEF pauseVideo, playVideo, stopVideo

\* An update waits for the player to be ready (wetube.ts 317-325).
LEMMA ReplayKeeps ==
    ASSUME NEW p, Ranked(p), NEW v \in VideoInstants
    PROVE  Keeps(p, Replay(p, v))
<1> DEFINE at == seekTo(p, v.SecondsElapsed)
<1>1. v.State \in VideoStates
  BY DEF VideoInstants
<1>2. Replay(p, v) \in {at, pauseVideo(at), playVideo(at), stopVideo(at)}
  BY <1>1 DEF Replay, VideoStates
<1>3. Keeps(p, at)
  BY PlayerKeeps
<1> HIDE DEF at
<1>4. Ranked(at)
  BY <1>3 DEF Keeps
<1> QED BY <1>2, <1>3, <1>4, TurnsKeep, KeepsTwice

\* An update for a player that is ready (wetube.ts 328-354).
LEMMA AdjustKeeps ==
    ASSUME NEW p, Ranked(p), NEW v
    PROVE  Keeps(p, Adjust(p, v))
<1> DEFINE known == [p EXCEPT !.videoId = v.Id]
           at == IF v.Id = p.videoId THEN seekTo(p, v.SecondsElapsed)
                 ELSE loadVideoById(known, v.Id, v.SecondsElapsed)
<1>1. Keeps(p, known)
  BY DEF Keeps, Ranked
<1>2. Adjust(p, v) \in {at, pauseVideo(at), playVideo(at), stopVideo(at)}
  BY DEF Adjust
<1> HIDE DEF known
<1>3. Keeps(p, at)
  <2>1. Ranked(known)
    BY <1>1 DEF Keeps
  <2> QED BY <1>1, <2>1, PlayerKeeps, KeepsTwice
<1> HIDE DEF at
<1>4. Ranked(at)
  BY <1>3 DEF Keeps
<1> QED BY <1>2, <1>3, <1>4, TurnsKeep, KeepsTwice

\* VideoUpdate (wetube.ts 310-354).
LEMMA VideoUpdateKeeps ==
    ASSUME NEW p, Ranked(p), NEW message
    PROVE  Keeps(p, handleVideoUpdate(p, message))
<1> DEFINE v == message.video
           q == [p EXCEPT !.echoBlock = TRUE, !.unblocks = @ + 1]
           r == initYouTube(q, v.Id)
           s == [r EXCEPT !.whenPlayerReady = v]
<1>1. Keeps(p, q)
  BY DEF Keeps, Ranked
<1>2. handleVideoUpdate(p, message) \in {Adjust(q, v), s}
  BY DEF handleVideoUpdate
<1> HIDE DEF q, v
<1>3. Ranked(q)
  BY <1>1 DEF Keeps
<1>4. Keeps(q, Adjust(q, v)) /\ Keeps(q, r)
  BY <1>3, AdjustKeeps, PlayerKeeps
<1> HIDE DEF r
<1>5. Keeps(r, s)
  BY <1>4 DEF Keeps, Ranked
<1> HIDE DEF s
<1> QED BY <1>1, <1>2, <1>4, <1>5, KeepsTwice

\* onYouTubePlayerReady (wetube.ts 76-87).
LEMMA ReadyKeeps ==
    ASSUME NEW p, Good(p)
    PROVE  Keeps(p, onYouTubePlayerReady(p))
<1>1. Keeps(p, Readied(p))
  BY GoodRanked DEF Readied, Keeps, Ranked
<1>2. Ranked(Readied(p))
  BY <1>1 DEF Keeps
<1> QED BY <1>1, <1>2, ReadyIs, ReplayKeeps, KeepsTwice

\* The messages that say nothing of the rank: Invitation, SessionOk,
\* HeartbeatAck, VideoUpdate and Error (wetube.ts 277-354, 375-381).
LEMMA OthersKeep ==
    ASSUME NEW p, Ranked(p), NEW message, message.type \notin Ranking
    PROVE  Keeps(p, handleMessage(p, message))
<1>0. Keeps(p, p)
  BY DEF Keeps
<1>1. Keeps(p, handleInvitation(p, message))
  <2> DEFINE q == Hide(p, "wait_for_invitation")
             r == [q EXCEPT !.currentInvitation = message.invitation]
  <2>1. Keeps(p, q)
    BY DialogKeeps
  <2>2. handleInvitation(p, message) \in {q, Show(r, "invitation_response")}
    BY DEF handleInvitation
  <2> HIDE DEF q
  <2>3. Keeps(q, r)
    BY <2>1 DEF Keeps, Ranked
  <2> HIDE DEF r
  <2>4. Keeps(p, r) /\ Ranked(r)
    BY <2>1, <2>3, KeepsTwice DEF Keeps
  <2> QED BY <2>1, <2>2, <2>4, DialogKeeps, KeepsTwice
<1>2. Keeps(p, handleSessionOk(p))
  <2> DEFINE q == Hide(p, "session_type")
  <2>1. Keeps(p, q)
    BY DialogKeeps
  <2>2. handleSessionOk(p) \in
          {initYouTube(q, p.videoId), Show(q, "wait_for_invitation")}
    BY DEF handleSessionOk
  <2> HIDE DEF q
  <2>3. Ranked(q)
    BY <2>1 DEF Keeps
  <2> QED BY <2>1, <2>2, <2>3, DialogKeeps, PlayerKeeps, KeepsTwice
<1>3. Keeps(p, handleHeartbeatAck(p))
  BY DEF Keeps, Ranked, handleHeartbeatAck
<1>4. Keeps(p, handleVideoUpdate(p, message))
  BY VideoUpdateKeeps
<1>5. handleMessage(p, message)
        \in {handleInvitation(p, message), handleSessionOk(p),
             handleHeartbeatAck(p), handleVideoUpdate(p, message), p}
  BY DEF handleMessage, Ranking
<1> QED BY <1>0, <1>1, <1>2, <1>3, <1>4, <1>5

\* RosterUpdate: the page takes the rank of its entry (wetube.ts 355-368).
LEMMA RosterRanks ==
    ASSUME NEW p, Ranked(p), NEW message, message.type = "RosterUpdate"
    PROVE  LET q == handleMessage(p, message)
           IN  /\ q.socket = p.socket /\ q.sent = p.sent
               /\ q.myRank = message.roster.mine
<1> DEFINE rank == message.roster.mine
           list == {elementFromPeer(peer) : peer \in message.roster.others}
           q == [p EXCEPT !.peerlist = list]
<1>1. Keeps(p, q)
  BY DEF Keeps, Ranked
<1>2. handleMessage(p, message)
        = IF rank # p.myRank THEN setMyRank(q, rank) ELSE q
  BY DEF handleMessage, handleRosterUpdate
<1> HIDE DEF q, rank
<1>3. LET r == setMyRank(q, rank)
      IN  r.socket = q.socket /\ r.sent = q.sent /\ r.myRank = rank
  BY <1>1 DEF Keeps, Ranked, setMyRank
<1> QED BY <1>1, <1>2, <1>3 DEF Keeps, rank

\* JoinConfirmation: the page takes some rank (wetube.ts 286-297).
LEMMA JoinRanks ==
    ASSUME NEW p, Ranked(p), NEW message, message.type = "JoinConfirmation"
    PROVE  LET q == handleMessage(p, message)
           IN  q.socket = p.socket /\ q.sent = p.sent
<1> DEFINE rank == p.currentInvitation.RankOffered
           q == setMyRank(p, rank)
           r == initYouTube(q, p.videoId)
           s == Hide(r, "wait_for_invitation")
<1>1. handleMessage(p, message) \in {p, s}
  BY DEF handleMessage, handleJoinConfirmation
<1>2. Ranked(q) /\ q.socket = p.socket /\ q.sent = p.sent
  BY DEF Ranked, setMyRank
<1> HIDE DEF q
<1>3. Keeps(q, r)
  BY <1>2, PlayerKeeps
<1> HIDE DEF r
<1>4. Keeps(r, s)
  BY <1>3, DialogKeeps DEF Keeps
<1> HIDE DEF s
<1> QED BY <1>1, <1>2, <1>3, <1>4 DEF Keeps

-----------------------------------------------------------------------------
(* What the page sends.                                                    *)

\* A handler that keeps the rank and sends nothing.
LEMMA KeepsQuiet ==
    ASSUME NEW p, Good(p), NEW q, Keeps(p, q)
    PROVE  Quiet(p, q)
<1>1. p.sent \in Seq(ToClient)
  BY DEF Good, PageStates
<1>2. Len(p.sent) \in Nat
  BY <1>1
<1> QED BY <1>2 DEF Keeps, Quiet

\* socket.send of messages that start no session.
LEMMA SendAllQuiet ==
    ASSUME NEW p, Good(p), NEW q, Keeps(p, q),
           NEW messages \in Seq(ToClient),
           \A n \in 1..Len(messages) : messages[n].type # "SessionInit"
    PROVE  Quiet(p, SendAll(q, messages))
<1> DEFINE r == [q EXCEPT !.sent = q.sent \o messages]
           E == ToClient
<1>1. /\ Ranked(q) /\ q.sent = p.sent /\ q.socket = p.socket
      /\ q.myRank = p.myRank
  BY DEF Keeps
<1>2. p.sent \in Seq(E) /\ messages \in Seq(E)
  BY DEF Good, PageStates
<1>3. SendAll(q, messages) \in {q, r}
  BY DEF SendAll
<1>4. r.sent = q.sent \o messages /\ r.socket = q.socket
        /\ r.myRank = q.myRank
  BY <1>1 DEF Ranked
<1> HIDE DEF r, E
<1>5. /\ Len(p.sent \o messages) = Len(p.sent) + Len(messages)
      /\ Len(p.sent) \in Nat /\ Len(messages) \in Nat
      /\ \A n \in 1..Len(p.sent) : (p.sent \o messages)[n] = p.sent[n]
  BY <1>2
<1>6. ASSUME NEW n \in 1..Len(p.sent \o messages), n > Len(p.sent)
      PROVE  (p.sent \o messages)[n].type # "SessionInit"
  <2>1. n - Len(p.sent) \in 1..Len(messages)
    BY <1>5, <1>6
  <2>2. (p.sent \o messages)[n] = messages[n - Len(p.sent)]
    BY <1>2, <1>5, <1>6
  <2> QED BY <2>1, <2>2
<1>7. Quiet(p, r)
  BY <1>1, <1>4, <1>5, <1>6 DEF Quiet
<1> QED BY <1>3, <1>7, KeepsQuiet

\* socket.send of one such message.
LEMMA SendQuiet ==
    ASSUME NEW p, Good(p), NEW q, Keeps(p, q), NEW message \in ToClient,
           message.type # "SessionInit"
    PROVE  Quiet(p, Send(q, message))
<1> DEFINE messages == <<message>>
<1>1. /\ messages \in Seq(ToClient) /\ Len(messages) = 1
      /\ messages[1] = message
  OBVIOUS
<1>2. Send(q, message) = SendAll(q, messages)
  BY DEF Send
<1> HIDE DEF messages
<1>3. \A n \in 1..Len(messages) : messages[n].type # "SessionInit"
  BY <1>1
<1> QED BY <1>1, <1>2, <1>3, SendAllQuiet

-----------------------------------------------------------------------------
(* What the operations of the client do to its rank and to what it sends.  *)

AfterStart == {"lead", "show", "test", "wait", "loop"}

\* The client has the same rank and as many rosters to read and to send, and
\* has sent the page nothing that changes its rank.
Hushed(c, d) ==
    /\ d.phase = c.phase \/ {c.phase, d.phase} \subseteq AfterStart
    /\ d.Rank = c.Rank /\ d.becomeLeader = c.becomeLeader
    /\ d.updateRoster = c.updateRoster /\ d.syncs = c.syncs
    /\ d.rosters = c.rosters
    /\ Len(c.toBrowser) <= Len(d.toBrowser)
    /\ \A n \in 1..Len(c.toBrowser) : d.toBrowser[n] = c.toBrowser[n]
    /\ \A n \in 1..Len(d.toBrowser) :
         n > Len(c.toBrowser) => d.toBrowser[n].type \notin Ranking

\* Such a step, or the end of the client.
Calm(c, d) == d.phase = "dead" \/ Hushed(c, d)

\* The lengths of the queues to the page are numbers.
LEMMA ChannelLen ==
    ASSUME NEW c \in Clients
    PROVE  /\ Len(c.toBrowser) \in Nat
           /\ DOMAIN c.toBrowser = 1..Len(c.toBrowser)
<1> DEFINE E == ToPage
<1>1. c.toBrowser \in Seq(E)
  BY DEF Clients
<1> HIDE DEF E
<1> QED BY <1>1

\* The same of what the page has sent.
LEMMA SentLen ==
    ASSUME NEW p, Good(p)
    PROVE  /\ Len(p.sent) \in Nat
           /\ DOMAIN p.sent = 1..Len(p.sent)
<1> DEFINE E == ToClient
<1>1. p.sent \in Seq(E)
  BY DEF Good, PageStates
<1> HIDE DEF E
<1> QED BY <1>1

\* A step that leaves alone all that the rank depends on.
LEMMA CalmSame ==
    ASSUME NEW c \in Clients, NEW d,
           d.phase = c.phase \/ {c.phase, d.phase} \subseteq AfterStart,
           d.Rank = c.Rank, d.becomeLeader = c.becomeLeader,
           d.updateRoster = c.updateRoster, d.syncs = c.syncs,
           d.rosters = c.rosters, d.toBrowser = c.toBrowser
    PROVE  Calm(c, d)
  BY ChannelLen DEF Calm, Hushed

\* One operation after another.
LEMMA CalmTwice ==
    ASSUME NEW c \in Clients, NEW d \in Clients, NEW e \in Clients,
           Calm(c, d), Calm(d, e)
    PROVE  Calm(c, e)
<1>1. CASE e.phase = "dead"
  BY <1>1 DEF Calm
<1>2. CASE e.phase # "dead"
  <2>1. Hushed(d, e)
    BY <1>2 DEF Calm
  <2>2. d.phase # "dead"
    BY <1>2, <2>1 DEF Hushed, AfterStart
  <2>3. Hushed(c, d)
    BY <2>2 DEF Calm
  <2>4. e.phase = c.phase \/ {c.phase, e.phase} \subseteq AfterStart
    BY <2>1, <2>3 DEF Hushed
  <2>5. /\ e.Rank = c.Rank /\ e.becomeLeader = c.becomeLeader
        /\ e.updateRoster = c.updateRoster /\ e.syncs = c.syncs
        /\ e.rosters = c.rosters
    BY <2>1, <2>3 DEF Hushed
  <2>6. /\ Len(c.toBrowser) \in Nat /\ Len(d.toBrowser) \in Nat
        /\ Len(e.toBrowser) \in Nat
    BY ChannelLen
  <2>7. /\ Len(c.toBrowser) <= Len(d.toBrowser)
        /\ Len(d.toBrowser) <= Len(e.toBrowser)
    BY <2>1, <2>3 DEF Hushed
  <2>8. \A n \in 1..Len(c.toBrowser) : e.toBrowser[n] = c.toBrowser[n]
    BY <2>1, <2>3, <2>6, <2>7 DEF Hushed
  <2>9. ASSUME NEW n \in 1..Len(e.toBrowser), n > Len(c.toBrowser)
        PROVE  e.toBrowser[n].type \notin Ranking
    <3>1. CASE n > Len(d.toBrowser)
      BY <2>1, <3>1 DEF Hushed
    <3>2. CASE n <= Len(d.toBrowser)
      <4>1. n \in 1..Len(d.toBrowser)
        BY <2>6, <3>2
      <4>2. d.toBrowser[n].type \notin Ranking
        BY <2>3, <2>9, <4>1 DEF Hushed
      <4> QED BY <2>1, <4>1, <4>2 DEF Hushed
    <3> QED BY <2>6, <3>1, <3>2
  <2>10. Len(c.toBrowser) <= Len(e.toBrowser)
    BY <2>6, <2>7
  <2> QED BY <2>4, <2>5, <2>8, <2>9, <2>10 DEF Calm, Hushed
<1> QED BY <1>1, <1>2

\* A message that says nothing of the rank is queued, or the client panics.
LEMMA TellCalm ==
    ASSUME NEW c, ClientOK(c), NEW message \in ToPage,
           message.type \notin Ranking
    PROVE  Calm(c, TellBrowser(c, message))
<1> DEFINE q == [c EXCEPT !.toBrowser = Append(@, message)]
           E == ToPage
<1>1. c \in Clients /\ c.toBrowser \in Seq(E) /\ message \in E
  BY DEF ClientOK, Clients
<1>2. TellBrowser(c, message) \in {Exit(c), q}
  BY DEF TellBrowser
<1>3. Exit(c).phase = "dead"
  BY DEF Exit, NewClient
<1>4. /\ q.phase = c.phase /\ q.Rank = c.Rank
      /\ q.becomeLeader = c.becomeLeader
      /\ q.updateRoster = c.updateRoster /\ q.syncs = c.syncs
      /\ q.rosters = c.rosters
      /\ q.toBrowser = Append(c.toBrowser, message)
  BY <1>1 DEF Clients
<1> HIDE DEF q, E
<1>5. /\ Len(c.toBrowser) \in Nat
      /\ Len(Append(c.toBrowser, message)) = Len(c.toBrowser) + 1
      /\ Append(c.toBrowser, message)[Len(c.toBrowser) + 1] = message
      /\ \A n \in 1..Len(c.toBrowser) :
           Append(c.toBrowser, message)[n] = c.toBrowser[n]
  BY <1>1
<1>6. \A n \in 1..Len(q.toBrowser) :
        n > Len(c.toBrowser) => q.toBrowser[n].type \notin Ranking
  <2> TAKE n \in 1..Len(q.toBrowser)
  <2> HAVE n > Len(c.toBrowser)
  <2>1. n = Len(c.toBrowser) + 1
    BY <1>4, <1>5
  <2> QED BY <1>4, <1>5, <2>1
<1>7. Hushed(c, q)
  BY <1>4, <1>5, <1>6 DEF Hushed
<1> QED BY <1>2, <1>3, <1>7 DEF Calm

\* The answers without content.
LEMMA TellsCalm ==
    ASSUME NEW c, ClientOK(c)
    PROVE  Calm(c, RespondWithError(c)) /\ Calm(c, handleHeartbeat(c))
<1>1. [type |-> "Error"] \in ToPage /\ [type |-> "HeartbeatAck"] \in ToPage
  BY DEF ToPage
<1>2. /\ [type |-> "Error"].type \notin Ranking
      /\ [type |-> "HeartbeatAck"].type \notin Ranking
  BY DEF Ranking
<1> QED BY <1>1, <1>2, TellCalm DEF RespondWithError, handleHeartbeat

\* waitForInvitation tests the rank.
LEMMA TestCalm ==
    ASSUME NEW c, ClientOK(c)
    PROVE  Calm(c, TestRank(c))
<1>1. c \in Clients
  BY DEF ClientOK
<1>2. CASE c.phase \in {"test", "wait"}
  <2> DEFINE phase == IF c.Rank # Unknown THEN "loop" ELSE "wait"
             d == [c EXCEPT !.phase = phase]
  <2>1. TestRank(c) = d
    BY <1>2 DEF TestRank
  <2>2. /\ d.phase = phase /\ d.Rank = c.Rank
        /\ d.becomeLeader = c.becomeLeader
        /\ d.updateRoster = c.updateRoster /\ d.syncs = c.syncs
        /\ d.rosters = c.rosters /\ d.toBrowser = c.toBrowser
    BY <1>1 DEF Clients
  <2>3. {c.phase, phase} \subseteq AfterStart
    BY <1>2 DEF AfterStart
  <2> HIDE DEF d, phase
  <2> QED BY <1>1, <2>1, <2>2, <2>3, CalmSame
<1>3. CASE c.phase \notin {"test", "wait"}
  <2>1. TestRank(c) = c
    BY <1>3 DEF TestRank
  <2> QED BY <1>1, <2>1, CalmSame
<1> QED BY <1>2, <1>3

\* startSession tells the page something and goes on.
LEMMA SpeakCalm ==
    ASSUME NEW c, ClientOK(c), c.phase \in AfterStart,
           NEW phase \in {"show", "test"},
           NEW message \in ToPage, message.type \notin Ranking
    PROVE  Calm(c, TellBrowser([c EXCEPT !.phase = phase], message))
<1> DEFINE d == [c EXCEPT !.phase = phase]
<1>1. ClientOK(d) /\ c \in Clients
  BY PhaseOK DEF ClientOK
<1>2. /\ d.phase = phase /\ d.Rank = c.Rank
      /\ d.becomeLeader = c.becomeLeader
      /\ d.updateRoster = c.updateRoster /\ d.syncs = c.syncs
      /\ d.rosters = c.rosters /\ d.toBrowser = c.toBrowser
  BY <1>1 DEF Clients
<1>3. {c.phase, phase} \subseteq AfterStart
  BY DEF AfterStart
<1> HIDE DEF d
<1>4. Calm(c, d)
  BY <1>1, <1>2, <1>3, CalmSame
<1>5. ClientOK(TellBrowser(d, message)) /\ Calm(d, TellBrowser(d, message))
  BY <1>1, TellOK, TellCalm
<1>6. Calm(c, TellBrowser(d, message))
  BY <1>1, <1>4, <1>5, CalmTwice DEF ClientOK
<1> QED BY <1>6 DEF d

\* The three loops with a message of the page that starts no session.
LEMMA LoopsCalm ==
    ASSUME NEW c, ClientOK(c), NEW message \in ToClient
    PROVE  /\ message.type # "SessionInit" =>
                Calm(c, startSession(c, message))
           /\ Calm(c, TestRank(waitForInvitation(c, message)))
           /\ Calm(c, eventLoop(c, message))
<1>0. c \in Clients /\ Calm(c, c)
  BY CalmSame DEF ClientOK
<1>1. ASSUME message.type # "SessionInit"
      PROVE  Calm(c, startSession(c, message))
  BY <1>1, TellsCalm DEF startSession
<1>2. Calm(c, TestRank(waitForInvitation(c, message)))
  <2> DEFINE d == waitForInvitation(c, message)
  <2>1. d \in {handleHeartbeat(c), c, RespondWithError(c)}
    BY DEF waitForInvitation
  <2> HIDE DEF d
  <2>2. ClientOK(d) /\ Calm(c, d)
    BY <1>0, <2>1, TellsOK, TellsCalm
  <2>3. ClientOK(TestRank(d)) /\ Calm(d, TestRank(d))
    BY <2>2, TestRankOK, TestCalm
  <2>4. Calm(c, TestRank(d))
    BY <1>0, <2>2, <2>3, CalmTwice DEF ClientOK
  <2> QED BY <2>4 DEF d
<1>3. Calm(c, eventLoop(c, message))
  <2> DEFINE entry == [Id |-> message.PeerId, Rank |-> message.NewRank]
             q == [c EXCEPT !.rankChanges = Append(@, entry)]
  <2>1. eventLoop(c, message)
          \in {handleHeartbeat(c), c, q, Exit(c), RespondWithError(c)}
    BY DEF eventLoop
  <2>2. Exit(c).phase = "dead"
    BY DEF Exit, NewClient
  <2>3. /\ q.phase = c.phase /\ q.Rank = c.Rank
        /\ q.becomeLeader = c.becomeLeader
        /\ q.updateRoster = c.updateRoster /\ q.syncs = c.syncs
        /\ q.rosters = c.rosters /\ q.toBrowser = c.toBrowser
    BY <1>0 DEF Clients
  <2> HIDE DEF q
  <2>4. Calm(c, q)
    BY <1>0, <2>3, CalmSame
  <2> QED BY <1>0, <2>1, <2>2, <2>4, TellsCalm DEF Calm
<1> QED BY <1>1, <1>2, <1>3

-----------------------------------------------------------------------------
(* Steps that keep the invariant.                                          *)

\* The client has read the first k messages of the page, one or none.
Shifted(k) ==
    /\ k \in {0, 1} /\ Good(page')
    /\ page'.socket = page.socket /\ page'.myRank = page.myRank
    /\ Len(page'.sent) = Len(page.sent) - k
    /\ \A n \in 1..Len(page'.sent) : page'.sent[n] = page.sent[n + k]

\* The page does nothing.
LEMMA ShiftedNone ==
    ASSUME IInv, page' = page
    PROVE  Shifted(0)
<1>1. Good(page) /\ Len(page.sent) \in Nat
  BY SentLen DEF IInv
<1> QED BY <1>1 DEF Shifted

\* The client reads the first message.
LEMMA ShiftedOne ==
    ASSUME IInv, page.sent # <<>>,
           page' = [page EXCEPT !.sent = Tail(page.sent)]
    PROVE  /\ Shifted(1) /\ 1 \in DOMAIN page.sent
           /\ page.sent[1] = Head(page.sent)
<1> DEFINE E == ToClient
<1>1. page \in PageStates /\ Good(page) /\ page.sent \in Seq(E)
  BY DEF IInv, Good, PageStates
<1>2. Good(page')
  BY <1>1, GoodRead
<1>3. /\ page'.socket = page.socket /\ page'.myRank = page.myRank
      /\ page'.sent = Tail(page.sent)
  BY <1>1 DEF PageStates
<1> HIDE DEF E
<1>4. /\ Len(Tail(page.sent)) = Len(page.sent) - 1
      /\ \A n \in 1..Len(Tail(page.sent)) :
           Tail(page.sent)[n] = page.sent[n + 1]
      /\ 1 \in DOMAIN page.sent /\ page.sent[1] = Head(page.sent)
  BY <1>1
<1> QED BY <1>2, <1>3, <1>4 DEF Shifted

\* What is left of the messages that start a session.
LEMMA StartsLeft ==
    ASSUME IInv, NEW k, Shifted(k)
    PROVE  /\ \A n \in DOMAIN page'.sent :
                Starts(n)' => n + k \in DOMAIN page.sent /\ Starts(n + k)
           /\ \A n \in DOMAIN page.sent : Starts(n) /\ n > k =>
                /\ n - k \in DOMAIN page'.sent /\ Starts(n - k)'
                /\ page'.sent[n - k] = page.sent[n]
           /\ \A n \in DOMAIN page.sent : n \in Nat
           /\ \A n \in DOMAIN page'.sent : n \in Nat
<1>1. /\ Len(page.sent) \in Nat /\ DOMAIN page.sent = 1..Len(page.sent)
      /\ Len(page'.sent) \in Nat /\ DOMAIN page'.sent = 1..Len(page'.sent)
  BY SentLen DEF IInv, Shifted
<1>2. /\ k \in {0, 1} /\ Len(page'.sent) = Len(page.sent) - k
      /\ \A n \in 1..Len(page'.sent) : page'.sent[n] = page.sent[n + k]
  BY DEF Shifted
<1>3. ASSUME NEW n \in DOMAIN page'.sent, Starts(n)'
      PROVE  n + k \in DOMAIN page.sent /\ Starts(n + k)
  BY <1>1, <1>2, <1>3 DEF Starts
<1>4. ASSUME NEW n \in DOMAIN page.sent, Starts(n), n > k
      PROVE  /\ n - k \in DOMAIN page'.sent /\ Starts(n - k)'
             /\ page'.sent[n - k] = page.sent[n]
  <2>1. n - k \in 1..Len(page'.sent) /\ (n - k) + k = n
    BY <1>1, <1>2, <1>4
  <2>2. page'.sent[n - k] = page.sent[n]
    BY <1>2, <2>1
  <2> QED BY <1>1, <1>4, <2>1, <2>2 DEF Starts
<1> QED BY <1>1, <1>3, <1>4

\* A client that has ended or serves another page owes this one nothing.
LEMMA AwayInv ==
    ASSUME IInv, RankInv, page' = page,
           client'.phase \in {"taken", "dead"},
           spent'["choice"] = spent["choice"]
    PROVE  RankInv'
<1>1. ~Serving' /\ client'.phase # "connect" /\ client'.phase # "start"
  BY DEF Serving
<1>2. UnconnectedInv'
  BY <1>1 DEF RankInv, UnconnectedInv
<1>3. StartInv'
  BY <1>1 DEF RankInv, StartInv, Starts
<1>4. ToldInv'
  BY <1>1 DEF ToldInv
<1> QED BY <1>2, <1>3, <1>4 DEF RankInv

\* Where the session starts, if at all: the client may have read a message
\* that starts none, or the one that does.
LEMMA StartsInv ==
    ASSUME IInv, RankInv, NEW k, Shifted(k),
           spent'["choice"] = spent["choice"],
           Serving' => Serving,
           \/ Serving' => client'.phase = client.phase
           \/ Serving' => {client.phase, client'.phase} \subseteq AfterStart
           \/ k = 1 /\ Starts(1),
           client'.phase = "start" => ~client'.becomeLeader
    PROVE  StartInv'
<1>0. k \in {0, 1}
  BY DEF Shifted
<1>1. spent["choice"] \in Nat
  BY DEF IInv, Environment, Kinds
<1>2. /\ \A n \in DOMAIN page'.sent :
           Starts(n)' => n + k \in DOMAIN page.sent /\ Starts(n + k)
      /\ \A n \in DOMAIN page'.sent : n \in Nat
  BY StartsLeft
<1>3. Serving' /\ spent'["choice"] = 0 => client'.phase = "start"
  <2> SUFFICES ASSUME Serving', spent["choice"] = 0
               PROVE  client'.phase = "start"
    OBVIOUS
  <2>1. client.phase = "start"
    BY DEF RankInv, StartInv
  <2>2. ~(k = 1 /\ Starts(1))
    BY <1>1 DEF RankInv, StartInv, Starts
  <2> QED BY <2>1, <2>2 DEF AfterStart
<1>4. ASSUME NEW n \in DOMAIN page'.sent, Starts(n)'
      PROVE  /\ spent'["choice"] > 0
             /\ spent'["choice"] <= 1 =>
                  /\ Serving' => client'.phase = "start"
                  /\ \A m \in DOMAIN page'.sent : Starts(m)' => m = n
  <2>1. n + k \in DOMAIN page.sent /\ Starts(n + k) /\ n \in Nat
    BY <1>2, <1>4
  <2>2. spent["choice"] > 0
    BY <2>1 DEF RankInv, StartInv
  <2>3. ASSUME spent["choice"] <= 1, Serving'
        PROVE  client'.phase = "start"
    <3>1. client.phase = "start"
      BY <2>1, <2>3 DEF RankInv, StartInv
    <3>2. ~(k = 1 /\ Starts(1))
      <4> SUFFICES ASSUME k = 1, Starts(1) PROVE FALSE
        OBVIOUS
      <4>1. n + 1 = 1
        BY <2>1, <2>3 DEF RankInv, StartInv, Starts
      <4>2. n >= 1
        BY <1>4, SentLen DEF Shifted
      <4> QED BY <2>1, <4>1, <4>2
    <3> QED BY <2>3, <3>1, <3>2 DEF AfterStart
  <2>4. ASSUME spent["choice"] <= 1, NEW m \in DOMAIN page'.sent, Starts(m)'
        PROVE  m = n
    <3>1. m + k \in DOMAIN page.sent /\ Starts(m + k) /\ m \in Nat
      BY <1>2, <2>4
    <3>2. m + k = n + k
      BY <2>1, <2>4, <3>1 DEF RankInv, StartInv
    <3> QED BY <1>0, <2>1, <3>1, <3>2
  <2> QED BY <2>2, <2>3, <2>4
<1> QED BY <1>3, <1>4 DEF StartInv

\* The page will still learn the rank when the client adds nothing to what is
\* under way that says something else.
LEMMA ToldStays ==
    ASSUME RankTold, client \in Clients, client' \in Clients, NEW c,
           Hushed(c, client'), page'.myRank = page.myRank,
           c.Rank = client.Rank, c.rosters = client.rosters,
           c.toBrowser = client.toBrowser
    PROVE  RankTold'
<1>1. client'.Rank = client.Rank /\ client'.rosters = client.rosters
  BY DEF Hushed
<1>2. CASE client.rosters # <<>>
  BY <1>1, <1>2 DEF RankTold
<1>3. CASE client.rosters = <<>>
  <2>1. PICK n \in 0..Len(client.toBrowser) : LastTold(n)
    BY <1>3 DEF RankTold
  <2>2. /\ Len(client.toBrowser) \in Nat
        /\ DOMAIN client.toBrowser = 1..Len(client.toBrowser)
        /\ Len(client'.toBrowser) \in Nat
        /\ DOMAIN client'.toBrowser = 1..Len(client'.toBrowser)
    BY ChannelLen
  <2>3. n \in 0..Len(client'.toBrowser)
    BY <2>2 DEF Hushed
  <2>4. /\ n = 0 => page'.myRank = client'.Rank
        /\ n > 0 => /\ client'.toBrowser[n].type = "RosterUpdate"
                    /\ client'.toBrowser[n].roster.mine = client'.Rank
    BY <1>1, <2>1, <2>2 DEF Hushed, LastTold
  <2>5. ASSUME NEW m \in DOMAIN client'.toBrowser, m > n
        PROVE  client'.toBrowser[m].type \notin Ranking
    BY <2>1, <2>2, <2>5 DEF Hushed, LastTold
  <2>6. LastTold(n)'
    BY <2>4, <2>5 DEF LastTold
  <2> QED BY <1>1, <1>3, <2>3, <2>6 DEF RankTold
<1> QED BY <1>2, <1>3

\* The client goes on, and sends nothing that changes the rank of the page.
LEMMA CalmInv ==
    ASSUME IInv, RankInv, IInv', NEW k, Shifted(k),
           page.socket # "connecting", Serving, Calm(client, client'),
           k = 1 /\ spent["choice"] <= 1 => ~Starts(1),
           spent'["choice"] = spent["choice"], overtaken' = overtaken
    PROVE  RankInv'
<1>1. client'.phase = "dead" \/ Hushed(client, client')
  BY DEF Calm
<1>2. /\ Serving' => client'.phase = client.phase
                       \/ {client.phase, client'.phase} \subseteq AfterStart
      /\ client'.phase # "connect"
      /\ client'.phase = "start" =>
           client.phase = "start" /\ Hushed(client, client')
  BY <1>1 DEF Serving, Hushed, AfterStart
<1>3. UnconnectedInv'
  BY <1>2 DEF UnconnectedInv, Shifted
<1>4. client'.phase = "start" => ~client'.becomeLeader
  BY <1>2 DEF Hushed, RankInv, StartInv
<1>5. StartInv'
  BY <1>2, <1>4, StartsInv
<1>6. ToldInv'
  <2> SUFFICES ASSUME page'.socket = "open", Serving', ~overtaken',
                      spent'["choice"] <= 1
               PROVE  RosterDue' \/ RankTold'
    BY DEF ToldInv
  <2>1. Hushed(client, client')
    BY <1>1 DEF Serving
  <2>2. RosterDue \/ RankTold
    BY DEF RankInv, ToldInv, Shifted
  <2>3. CASE RosterDue
    <3>1. CASE \E n \in DOMAIN page.sent : Starts(n) /\ page.sent[n].Leader
      <4>1. PICK n \in DOMAIN page.sent : Starts(n) /\ page.sent[n].Leader
        BY <3>1
      <4>2. n > k
        <5>1. n \in 1..Len(page.sent) /\ Len(page.sent) \in Nat
          BY <4>1, SentLen DEF IInv
        <5> QED BY <4>1, <5>1 DEF Shifted
      <4>3. /\ n - k \in DOMAIN page'.sent /\ Starts(n - k)'
            /\ page'.sent[n - k] = page.sent[n]
        BY <4>1, <4>2, StartsLeft
      <4> QED BY <4>1, <4>3 DEF RosterDue
    <3>2. CASE ~\E n \in DOMAIN page.sent : Starts(n) /\ page.sent[n].Leader
      BY <2>1, <2>3, <3>2 DEF RosterDue, Hushed
    <3> QED BY <3>1, <3>2
  <2>4. CASE RankTold
    BY <2>1, <2>4, ToldStays DEF IInv, ClientOK, Hushed, Shifted
  <2> QED BY <2>2, <2>3, <2>4
<1> QED BY <1>3, <1>5, <1>6 DEF RankInv

\* The actor serves a request, or is asked to, and a goroutine will read the
\* roster afterwards.
LEMMA DueInv ==
    ASSUME IInv, RankInv, page' = page, page.socket # "connecting", Serving,
           \/ client'.phase = client.phase
           \/ {client.phase, client'.phase} \subseteq AfterStart
           \/ client'.phase = "dead",
           client'.phase = "start" => ~client'.becomeLeader,
           \/ client'.phase = "dead" \/ client'.becomeLeader
           \/ client'.updateRoster # <<>> \/ client'.syncs > 0,
           spent'["choice"] = spent["choice"]
    PROVE  RankInv'
<1>1. Shifted(0)
  BY ShiftedNone
<1>2. /\ Serving' => client'.phase = client.phase
                       \/ {client.phase, client'.phase} \subseteq AfterStart
      /\ client'.phase # "connect" /\ (Serving' => client'.phase # "dead")
  BY DEF Serving, AfterStart
<1>3. UnconnectedInv'
  BY <1>2 DEF UnconnectedInv
<1>4. StartInv'
  BY <1>1, <1>2, StartsInv
<1>5. ToldInv'
  BY <1>2 DEF ToldInv, RosterDue
<1> QED BY <1>3, <1>4, <1>5 DEF RankInv

-----------------------------------------------------------------------------
(* The actions of the client.                                              *)

\* A client whose page has not been told yet has nothing to do, and nothing
\* to read.
LEMMA AcceptingIdle ==
    ASSUME RankInv, page.socket = "connecting"
    PROVE  /\ page = NewPage /\ page.sent = <<>>
           /\ Serving => /\ client = Accepting
                         /\ client.phase = "start" /\ ~client.becomeLeader
                         /\ client.setLeader = Nil
                         /\ client.updateRoster = <<>>
                         /\ client.updatePeer = <<>>
                         /\ client.rankChanges = <<>>
                         /\ client.syncs = 0 /\ client.rosters = <<>>
<1>1. page = NewPage /\ (Serving => client = Accepting)
  BY DEF RankInv, UnconnectedInv
<1>2. page.sent = <<>>
  BY <1>1 DEF NewPage
<1>3. /\ Accepting.phase = "start" /\ Accepting.becomeLeader = FALSE
      /\ Accepting.setLeader = Nil /\ Accepting.updateRoster = <<>>
      /\ Accepting.updatePeer = <<>> /\ Accepting.rankChanges = <<>>
      /\ Accepting.syncs = 0 /\ Accepting.rosters = <<>>
  BY DEF Accepting, NewClient
<1> HIDE DEF Accepting
<1> QED BY <1>1, <1>2, <1>3

\* An ended process is in no loop.
LEMMA ExitAway ==
    ASSUME NEW c
    PROVE  Exit(c).phase = "dead" /\ TestRank(Exit(c)).phase = "dead"
<1>1. Exit(c).phase = "dead"
  BY DEF Exit, NewClient
<1> QED BY <1>1 DEF TestRank

\* connectToBrowser, and how a client ends (run.go 46-80).
LEMMA PhasesRank ==
    ASSUME IInv, RankInv, IInv',
           \/ ConnectToBrowser \/ BrowserConnectionTimeout \/ RefuseBrowser
           \/ RespondSessionOk \/ ShowFirstVideo \/ EnterWait
           \/ BrowserTimeout \/ LoseUnsent \/ ReaderFails
    PROVE  RankInv'
<1>0. ClientOK(client) /\ client \in Clients /\ ClientOK(client')
  BY DEF IInv, ClientOK
<1>1. CASE ConnectToBrowser
  <2> DEFINE ack == [type |-> "BrowserConnectAck", Success |-> TRUE]
  <2>1. /\ page.socket = "connecting" /\ client = NewClient("connect")
        /\ page' = page /\ spent' = spent
    BY <1>1 DEF RankInv, UnconnectedInv, ConnectToBrowser
  <2>2. page = NewPage /\ page.sent = <<>>
    BY <2>1, AcceptingIdle
  <2>3. client' = Accepting
    <3> DEFINE new == [client EXCEPT !.phase = "start"]
    <3>1. new.closed = FALSE /\ new.toBrowser = <<>>
      BY <2>1 DEF NewClient
    <3>2. Append(<<>>, ack) = <<ack>>
      OBVIOUS
    <3>3. client' = TellBrowser(new, ack)
      BY <1>1 DEF ConnectToBrowser
    <3>4. client' = [new EXCEPT !.toBrowser = <<ack>>]
      BY <3>1, <3>2, <3>3 DEF TellBrowser
    <3> QED BY <2>1, <3>4 DEF Accepting
  <2>4. client'.phase = "start" /\ client'.becomeLeader = FALSE
    BY <2>3 DEF Accepting, NewClient
  <2>5. UnconnectedInv'
    BY <2>1, <2>2, <2>3, <2>4 DEF UnconnectedInv
  <2>6. StartInv'
    BY <2>1, <2>2, <2>4 DEF StartInv, Starts
  <2>7. ToldInv'
    BY <2>1 DEF ToldInv
  <2> QED BY <2>5, <2>6, <2>7 DEF RankInv
<1>2. CASE BrowserConnectionTimeout
  BY <1>2, ExitAway, AwayInv DEF BrowserConnectionTimeout
<1>3. CASE BrowserTimeout
  BY <1>3, ExitAway, AwayInv DEF BrowserTimeout
<1>4. CASE RefuseBrowser
  <2> DEFINE nack == [type |-> "BrowserConnectAck", Success |-> FALSE]
  <2>1. nack \in ToPage /\ nack.type \notin Ranking
    BY DEF ToPage, Ranking
  <2>2. client' = TellBrowser(client, nack) /\ client.phase = "taken"
    BY <1>4 DEF RefuseBrowser
  <2> HIDE DEF nack
  <2>3. client'.phase \in {"dead", "taken"}
    BY <1>0, <2>1, <2>2, TellCalm DEF Calm, Hushed, AfterStart
  <2> QED BY <1>4, <2>3, AwayInv DEF RefuseBrowser
<1>5. CASE LoseUnsent
  <2>1. client'.phase = "dead"
    BY <1>0, <1>5 DEF LoseUnsent, Clients
  <2> QED BY <1>5, <2>1, AwayInv DEF LoseUnsent
<1>6. CASE EnterWait
  <2>1. page.socket # "connecting" /\ Serving
    BY <1>6, AcceptingIdle DEF EnterWait, Serving
  <2>2. Calm(client, client') /\ Shifted(0)
    BY <1>0, <1>6, TestCalm, ShiftedNone DEF EnterWait
  <2> QED BY <1>6, <2>1, <2>2, CalmInv DEF EnterWait
<1>7. CASE ReaderFails
  <2> DEFINE d == [client EXCEPT !.closed = TRUE]
  <2>1. page.socket # "connecting" /\ Serving /\ client' = d
    BY <1>7 DEF ReaderFails
  <2>2. page' = page /\ spent' = spent /\ overtaken' = overtaken
    BY <1>7 DEF ReaderFails
  <2>3. /\ d.phase = client.phase /\ d.Rank = client.Rank
        /\ d.becomeLeader = client.becomeLeader
        /\ d.updateRoster = client.updateRoster /\ d.syncs = client.syncs
        /\ d.rosters = client.rosters /\ d.toBrowser = client.toBrowser
    BY <1>0 DEF Clients
  <2> HIDE DEF d
  <2>4. Calm(client, client') /\ Shifted(0)
    BY <1>0, <2>1, <2>3, <2>2, CalmSame, ShiftedNone
  <2> QED BY <2>1, <2>4, <2>2, CalmInv
<1>8. CASE RespondSessionOk
  <2>1. page.socket # "connecting" /\ Serving
    BY <1>8, AcceptingIdle DEF RespondSessionOk, Serving
  <2>2. [type |-> "SessionOk"] \in ToPage /\ client.phase \in AfterStart
    BY <1>8 DEF ToPage, RespondSessionOk, AfterStart
  <2>3. Calm(client, client') /\ Shifted(0)
    BY <1>0, <1>8, <2>2, SpeakCalm, ShiftedNone
    DEF RespondSessionOk, Ranking
  <2> QED BY <1>8, <2>1, <2>3, CalmInv DEF RespondSessionOk
<1>9. CASE ShowFirstVideo
  <2> DEFINE v == [Id |-> DefaultVideo, State |-> "Unstarted",
                   SecondsElapsed |-> 0]
             message == [type |-> "VideoUpdate", video |-> v]
  <2>1. page.socket # "connecting" /\ Serving
    BY <1>9, AcceptingIdle DEF ShowFirstVideo, Serving
  <2>2. v \in VideoInstants /\ client.phase \in AfterStart
    BY <1>9, PageAssumption
    DEF VideoInstants, VideoStates, ShowFirstVideo, AfterStart
  <2>3. client' = TellBrowser([client EXCEPT !.phase = "test"], message)
    BY <1>9 DEF ShowFirstVideo
  <2> HIDE DEF v
  <2>4. message \in ToPage /\ message.type \notin Ranking
    BY <2>2 DEF ToPage, Ranking
  <2> HIDE DEF message
  <2>5. Calm(client, client') /\ Shifted(0)
    BY <1>0, <1>9, <2>2, <2>3, <2>4, SpeakCalm, ShiftedNone
    DEF ShowFirstVideo
  <2> QED BY <1>9, <2>1, <2>5, CalmInv DEF ShowFirstVideo
<1> QED BY <1>1, <1>2, <1>3, <1>4, <1>5, <1>6, <1>7, <1>8, <1>9

\* SessionInit: a new leader will send its roster, and a page that joins has
\* nothing else on its way that changes its rank (run.go 83-101).
LEMMA SessionInitRank ==
    ASSUME IInv, RankInv, IInv', ReadMessage,
           client.phase = "start", Head(page.sent).type = "SessionInit"
    PROVE  RankInv'
<1> DEFINE message == Head(page.sent)
           q == [client EXCEPT !.phase = "test"]
           ok == TellBrowser(q, [type |-> "SessionOk"])
           lead == [client EXCEPT !.phase = "lead", !.becomeLeader = TRUE]
<1>0. ClientOK(client) /\ client \in Clients /\ client' \in Clients
  BY DEF IInv, ClientOK
<1>1. /\ page.sent # <<>> /\ spent' = spent /\ overtaken' = overtaken
      /\ page' = [page EXCEPT !.sent = Tail(page.sent)]
  BY DEF ReadMessage
<1>2. Shifted(1) /\ 1 \in DOMAIN page.sent /\ page.sent[1] = message
  BY <1>1, ShiftedOne
<1>3. Starts(1)
  BY <1>2 DEF Starts
<1>4. page.socket # "connecting" /\ Serving
  BY <1>1, AcceptingIdle DEF Serving
<1>5. message \in ToClient /\ message.Leader \in BOOLEAN
  <2>1. message \in ToClient
    BY <1>1, GoodRead DEF IInv
  <2> HIDE DEF message
  <2>2. message.type = "SessionInit"
    BY DEF message
  <2> QED BY <2>1, <2>2 DEF ToClient
<1>6. client' = IF message.Leader THEN lead ELSE ok
  BY DEF ReadMessage, startSession, sessionInit
<1>7. ClientOK(q) /\ [type |-> "SessionOk"] \in ToPage
  BY <1>0, PhaseOK DEF ToPage
<1>8. /\ q.phase = "test" /\ q.becomeLeader = client.becomeLeader
      /\ q.Rank = client.Rank /\ q.updateRoster = client.updateRoster
      /\ q.syncs = client.syncs /\ q.rosters = client.rosters
      /\ q.toBrowser = client.toBrowser
  BY <1>0 DEF Clients
<1>9. lead.phase = "lead" /\ lead.becomeLeader
  BY <1>0 DEF Clients
<1> HIDE DEF q
<1>10. ClientOK(ok) /\ Calm(q, ok)
  BY <1>7, TellOK, TellCalm DEF Ranking
<1> HIDE DEF ok, lead, message
<1>11. CASE message.Leader
  <2>1. client'.phase = "lead" /\ client'.becomeLeader
    BY <1>6, <1>9, <1>11
  <2>2. UnconnectedInv'
    BY <1>2, <1>4, <2>1 DEF UnconnectedInv, Shifted
  <2>3. StartInv'
    BY <1>1, <1>2, <1>3, <1>4, <2>1, StartsInv
  <2>4. ToldInv'
    BY <2>1 DEF ToldInv, RosterDue
  <2> QED BY <2>2, <2>3, <2>4 DEF RankInv
<1>12. CASE ~message.Leader
  <2>1. Calm(q, client')
    BY <1>6, <1>10, <1>12
  <2>2. /\ client'.phase \in {"dead"} \cup AfterStart
        /\ Serving' => Hushed(q, client')
    BY <1>8, <2>1 DEF Calm, Hushed, AfterStart, Serving
  <2>3. UnconnectedInv'
    BY <1>2, <1>4, <2>2 DEF UnconnectedInv, Shifted, AfterStart
  <2>4. StartInv'
    BY <1>1, <1>2, <1>3, <1>4, <2>2, StartsInv DEF AfterStart
  <2>5. ToldInv'
    <3> SUFFICES ASSUME page'.socket = "open", Serving', ~overtaken',
                        spent'["choice"] <= 1
                 PROVE  RosterDue' \/ RankTold'
      BY DEF ToldInv
    <3>1. ~client.becomeLeader /\ Hushed(q, client')
      BY <2>2 DEF RankInv, StartInv
    <3>2. \A n \in DOMAIN page.sent : Starts(n) => n = 1
      BY <1>1, <1>2, <1>3 DEF RankInv, StartInv
    <3>3. ~\E n \in DOMAIN page.sent : Starts(n) /\ page.sent[n].Leader
      BY <1>2, <1>12, <3>2
    <3>4. RosterDue \/ RankTold
      BY <1>1, <1>2 DEF RankInv, ToldInv, Shifted, Serving
    <3>5. CASE RosterDue
      BY <1>8, <3>1, <3>3, <3>5 DEF RosterDue, Hushed
    <3>6. CASE RankTold
      BY <1>0, <1>2, <1>8, <3>1, <3>6, ToldStays DEF Shifted
    <3> QED BY <3>4, <3>5, <3>6
  <2> QED BY <2>3, <2>4, <2>5 DEF RankInv
<1> QED BY <1>5, <1>11, <1>12

\* A message of the page, in the three loops that read them.
LEMMA ReadMessageRank ==
    ASSUME IInv, RankInv, IInv', ReadMessage
    PROVE  RankInv'
<1> DEFINE message == Head(page.sent)
<1>0. ClientOK(client)
  BY DEF IInv
<1>1. /\ page.sent # <<>> /\ spent' = spent /\ overtaken' = overtaken
      /\ page' = [page EXCEPT !.sent = Tail(page.sent)]
      /\ client.phase \in {"start", "wait", "loop"}
  BY DEF ReadMessage
<1>2. Shifted(1) /\ 1 \in DOMAIN page.sent /\ page.sent[1] = message
  BY <1>1, ShiftedOne
<1>3. page.socket # "connecting" /\ Serving
  BY <1>1, AcceptingIdle DEF Serving
<1>4. message \in ToClient
  BY <1>1, GoodRead DEF IInv
<1>5. /\ client.phase = "start" => client' = startSession(client, message)
      /\ client.phase = "wait" =>
           client' = TestRank(waitForInvitation(client, message))
      /\ client.phase = "loop" => client' = eventLoop(client, message)
  BY DEF ReadMessage
<1>6. CASE client.phase = "start" /\ message.type = "SessionInit"
  BY <1>6, SessionInitRank
<1> HIDE DEF message
<1>7. CASE ~(client.phase = "start" /\ message.type = "SessionInit")
  <2>1. Calm(client, client')
    BY <1>0, <1>1, <1>4, <1>5, <1>7, LoopsCalm
  <2>2. spent["choice"] <= 1 => ~Starts(1)
    BY <1>2, <1>3, <1>7 DEF RankInv, StartInv, Starts
  <2> QED BY <1>1, <1>2, <1>3, <2>1, <2>2, CalmInv
<1> QED BY <1>6, <1>7

\* The answer to an invitation (run.go 158-196).
LEMMA ResponseRank ==
    ASSUME IInv, RankInv, IInv', NEW reached \in BOOLEAN,
           InvitationResponse(reached)
    PROVE  RankInv'
<1> DEFINE message == Head(page.sent)
           accepts == reached /\ message.Accepted
           to == IF accepts THEN client.invitation ELSE client.setLeader
           d == [client EXCEPT !.setLeader = to,
                               !.invitationReceived = accepts]
<1>0. ClientOK(client) /\ client \in Clients /\ client' \in Clients
  BY DEF IInv, ClientOK
<1>1. /\ page.sent # <<>> /\ spent' = spent /\ overtaken' = overtaken
      /\ page' = [page EXCEPT !.sent = Tail(page.sent)]
      /\ client.phase = "wait" /\ client.invitationReceived
      /\ message.type = "InvitationResponse"
  BY DEF InvitationResponse
<1>2. Shifted(1) /\ 1 \in DOMAIN page.sent /\ page.sent[1] = message
  BY <1>1, ShiftedOne
<1>3. page.socket # "connecting" /\ Serving
  BY <1>1, AcceptingIdle DEF Serving
<1>4. client' = TestRank(d)
  BY DEF InvitationResponse
<1>5. message.Accepted \in BOOLEAN
  <2>1. message \in ToClient
    BY <1>1, GoodRead DEF IInv
  <2> HIDE DEF message
  <2> QED BY <1>1, <2>1 DEF ToClient
<1>6. accepts \in BOOLEAN /\ to \in Invitations \cup {Nil}
  BY <1>0, <1>5 DEF Clients
<1>7. ~Starts(1)
  BY <1>1, <1>2 DEF Starts
<1> HIDE DEF accepts, to, message
<1>8. /\ d.phase = client.phase /\ d.Rank = client.Rank
      /\ d.becomeLeader = client.becomeLeader
      /\ d.updateRoster = client.updateRoster /\ d.syncs = client.syncs
      /\ d.rosters = client.rosters /\ d.toBrowser = client.toBrowser
      /\ d.invitation = client.invitation
  BY <1>0 DEF Clients
<1>9. d \in Clients
  BY <1>0, <1>6 DEF Clients
<1> HIDE DEF d
<1>10. ClientOK(d) /\ Calm(client, d)
  BY <1>0, <1>1, <1>8, <1>9, FieldsOK, CalmSame
<1>11. Calm(client, client')
  BY <1>0, <1>4, <1>9, <1>10, TestCalm, CalmTwice
<1> QED BY <1>1, <1>2, <1>3, <1>7, <1>11, CalmInv

\* The invitations, confirmations and refusals of leaders: a confirmation
\* gives the page a rank, and the roster that comes with it will correct it
\* (run.go 143-157, 197-226).
LEMMA InvitationRank ==
    ASSUME IInv, RankInv, IInv', NEW i \in Offers,
           \/ InvitationArrives(i) \/ JoinRefused(i)
           \/ \E peers \in PeerSets : JoinConfirmation(i, peers)
    PROVE  RankInv'
<1>0. /\ ClientOK(client) /\ client \in Clients /\ client' \in Clients
      /\ i \in Invitations
  BY BrowserAssumption DEF IInv, ClientOK
<1>1. /\ client.phase = "wait" /\ page' = page /\ spent' = spent
      /\ overtaken' = overtaken
  BY DEF InvitationArrives, JoinRefused, JoinConfirmation
<1>2. page.socket # "connecting" /\ Serving
  BY <1>1, AcceptingIdle DEF Serving
<1>3. Shifted(0)
  BY <1>1, ShiftedNone
<1>4. CASE InvitationArrives(i)
  <2> DEFINE d == [client EXCEPT !.invitation = i,
                                 !.invitationReceived = TRUE]
             message == [type |-> "Invitation", invitation |-> i]
             told == TellBrowser(d, message)
  <2>1. message \in ToPage /\ message.type \notin Ranking
    BY <1>0 DEF ToPage, Ranking
  <2>2. client' = TestRank(told)
    BY <1>4 DEF InvitationArrives
  <2>3. /\ d.phase = client.phase /\ d.Rank = client.Rank
        /\ d.becomeLeader = client.becomeLeader
        /\ d.updateRoster = client.updateRoster /\ d.syncs = client.syncs
        /\ d.rosters = client.rosters /\ d.toBrowser = client.toBrowser
        /\ d.invitation = i
    BY <1>0 DEF Clients
  <2>4. d \in Clients
    BY <1>0 DEF Clients
  <2> HIDE DEF d, message
  <2>5. ClientOK(d) /\ Calm(client, d)
    BY <1>0, <2>3, <2>4, CalmSame DEF ClientOK
  <2>6. ClientOK(told) /\ Calm(d, told)
    BY <2>1, <2>5, TellOK, TellCalm
  <2> HIDE DEF told
  <2>7. Calm(told, client')
    BY <2>2, <2>6, TestCalm
  <2>8. Calm(client, client')
    BY <1>0, <2>4, <2>5, <2>6, <2>7, CalmTwice DEF ClientOK
  <2> QED BY <1>1, <1>2, <1>3, <2>8, CalmInv
<1>5. CASE JoinRefused(i)
  <2>1. client'.phase = "dead"
    BY <1>5, ExitAway DEF JoinRefused
  <2> QED BY <1>1, <2>1, AwayInv
<1>6. ASSUME NEW peers \in PeerSets, JoinConfirmation(i, peers)
      PROVE  RankInv'
  <2>1. CASE ~(client.invitationReceived /\ client.leader = i)
    <3>1. client' = TestRank(client)
      BY <1>6, <2>1 DEF JoinConfirmation
    <3>2. Calm(client, client')
      BY <1>0, <3>1, TestCalm
    <3> QED BY <1>1, <1>2, <1>3, <3>2, CalmInv
  <2>2. CASE client.invitationReceived /\ client.leader = i
    <3> DEFINE message == [type |-> "JoinConfirmation", Success |-> TRUE]
               told == TellBrowser(client, message)
               roster == [mine |-> i.RankOffered, peers |-> peers]
               d == [told EXCEPT !.Rank = client.invitation.RankOffered,
                       !.updateRoster = Append(@, roster)]
    <3>1. client' = TestRank(d)
      BY <1>6, <2>2 DEF JoinConfirmation
    <3>2. message \in ToPage
      BY DEF ToPage
    <3>3. roster \in ClientRosters
      BY <1>0, BrowserAssumption DEF ClientRosters, Invitations
    <3>4. \/ told.phase = "dead"
          \/ told.phase = "wait"
               /\ told.becomeLeader = client.becomeLeader
      BY <1>0, <1>1, ExitAway DEF TellBrowser, Clients
    <3> HIDE DEF message
    <3>5. told \in Clients
      BY <1>0, <3>2, TellOK DEF ClientOK
    <3> HIDE DEF told, roster
    <3>6. d.phase = told.phase
            /\ d.updateRoster = Append(told.updateRoster, roster)
      BY <3>5 DEF Clients
    <3>7. Append(told.updateRoster, roster) # <<>>
      <4> DEFINE E == ClientRosters
      <4>1. told.updateRoster \in Seq(E) /\ roster \in E
        BY <3>3, <3>5 DEF Clients
      <4> HIDE DEF E
      <4> QED BY <4>1
    <3>8. client'.phase \in {"dead", "wait", "loop"}
            /\ client'.updateRoster = d.updateRoster
      <4>1. d.phase = "dead" => client' = d
        BY <3>1 DEF TestRank
      <4>2. d.phase = "wait" =>
              \E phase \in {"wait", "loop"} :
                client' = [d EXCEPT !.phase = phase]
        BY <3>1 DEF TestRank
      <4>3. {"phase", "updateRoster"} \subseteq DOMAIN d
        BY <3>5 DEF Clients
      <4> HIDE DEF d
      <4> QED BY <3>4, <3>6, <4>1, <4>2, <4>3
    <3>9. client'.phase = "dead"
            \/ {client.phase, client'.phase} \subseteq AfterStart
      BY <1>1, <3>8 DEF AfterStart
    <3> HIDE DEF d
    <3> QED BY <1>1, <1>2, <3>6, <3>7, <3>8, <3>9, DueInv
  <2> QED BY <2>1, <2>2
<1> QED BY <1>4, <1>5, <1>6

\* The goroutine that was given a roster sends it, or the client panics.
LEMMA SendsRank ==
    ASSUME IInv, RankInv, IInv', Shifted(0), page.socket # "connecting",
           NEW n \in DOMAIN client.rosters, SyncSends(n)
    PROVE  RankInv'
<1> DEFINE R == Rosters
           E == ToPage
           rest == Without(client.rosters, n)
           c == [client EXCEPT !.rosters = rest]
           message == [type |-> "RosterUpdate", roster |-> client.rosters[n]]
           d == [c EXCEPT !.toBrowser = Append(@, message)]
<1>0. /\ client \in Clients /\ client' \in Clients
      /\ client.rosters \in Seq(R) /\ client.toBrowser \in Seq(E)
      /\ overtaken \in BOOLEAN
  BY DEF IInv, ClientOK, Clients, Environment
<1>1. /\ Serving /\ page' = page /\ spent' = spent
      /\ overtaken' = (overtaken \/ n # 1)
      /\ client' = TellBrowser(c, message)
  BY DEF SyncSends
<1>2. client' \in {Exit(c), d}
  BY <1>1 DEF TellBrowser
<1>3. message.type = "RosterUpdate" /\ message.roster = client.rosters[n]
  OBVIOUS
<1>4. message \in E
  <2>1. client.rosters[n] \in Rosters
    BY <1>0
  <2> QED BY <2>1 DEF ToPage
<1> HIDE DEF rest, message, R, E
<1>5. /\ d.phase = client.phase /\ d.Rank = client.Rank
      /\ d.becomeLeader = client.becomeLeader
      /\ d.updateRoster = client.updateRoster /\ d.syncs = client.syncs
      /\ d.rosters = rest
      /\ d.toBrowser = Append(client.toBrowser, message)
  BY <1>0 DEF Clients
<1> HIDE DEF c, d
<1>6. CASE client' = Exit(c)
  <2>1. client'.phase = "dead"
    BY <1>6, ExitAway
  <2> QED BY <1>1, <2>1, AwayInv
<1>7. CASE client' = d
  <2>1. UnconnectedInv'
    BY <1>1, <1>5, <1>7 DEF UnconnectedInv, Serving
  <2>2. StartInv'
    BY <1>1, <1>5, <1>7, StartsInv DEF RankInv, StartInv
  <2>3. ToldInv'
    <3> SUFFICES ASSUME page'.socket = "open", Serving', ~overtaken',
                        spent'["choice"] <= 1
                 PROVE  RosterDue' \/ RankTold'
      BY DEF ToldInv
    <3>1. n = 1 /\ ~overtaken
      BY <1>0, <1>1
    <3>2. RosterDue \/ RankTold
      BY <1>1, <3>1 DEF RankInv, ToldInv
    <3>3. CASE RosterDue
      BY <1>1, <1>5, <1>7, <3>3 DEF RosterDue, Starts
    <3>4. CASE RankTold
      <4> DEFINE L == Len(client.rosters)
                 q == Append(client.toBrowser, message)
      <4>1. L \in Nat /\ L >= 1
        BY <1>0, <3>1
      <4>2. client.rosters[L].mine = client.Rank
        BY <1>0, <3>4, <4>1 DEF RankTold
      <4>3. rest = Tail(client.rosters)
        BY <1>0, <3>1, <4>1 DEF rest, Without
      <4>4. CASE L > 1
        <5>1. Len(rest) = L - 1 /\ rest \in Seq(R)
          BY <1>0, <4>1, <4>3, <4>4
        <5>2. L - 1 \in 1..Len(rest) /\ rest # <<>>
          BY <4>1, <4>4, <5>1
        <5>3. rest[L - 1] = client.rosters[(L - 1) + 1]
          BY <1>0, <4>1, <4>3, <5>1, <5>2
        <5>4. rest # <<>> /\ rest[Len(rest)] = client.rosters[L]
          BY <4>1, <5>1, <5>2, <5>3
        <5> QED BY <1>5, <1>7, <4>2, <5>4 DEF RankTold
      <4>5. CASE L = 1
        <5>1. rest = <<>>
          BY <1>0, <4>3, <4>5
        <5>2. message.roster.mine = client.Rank
          BY <1>3, <3>1, <4>2, <4>5
        <5>3. Len(client.toBrowser) + 1 \in Nat
          BY <1>0
        <5>4. PICK k \in Nat : k = Len(client.toBrowser) + 1
          BY <5>3
        <5>5. /\ k \in Nat /\ k > 0 /\ Len(q) = k /\ q[k] = message
              /\ DOMAIN q = 1..k
          BY <1>0, <1>4, <5>4
        <5>6. LastTold(k)'
          <6>1. client'.toBrowser = q /\ client'.Rank = client.Rank
            BY <1>5, <1>7
          <6> HIDE DEF q
          <6> QED BY <1>3, <5>2, <5>5, <6>1 DEF LastTold
        <5>7. k \in 0..Len(client'.toBrowser)
          BY <1>5, <1>7, <5>5
        <5> QED BY <1>5, <1>7, <5>1, <5>6, <5>7 DEF RankTold
      <4> HIDE DEF L
      <4>6. L > 1 \/ L = 1
        BY <4>1
      <4> QED BY <4>4, <4>5, <4>6
    <3> QED BY <3>2, <3>3, <3>4
  <2> QED BY <2>1, <2>2, <2>3 DEF RankInv
<1> QED BY <1>2, <1>6, <1>7

\* What the rest of the session does (eventLoop).
LEMMA SessionRank ==
    ASSUME IInv, RankInv, IInv',
           \/ \E peers \in PeerSets :
                \/ \E rank \in Ranks : RosterArrives(rank, peers)
                \/ PeersChange(peers)
           \/ \E v \in Updates : VideoArrives(v)
           \/ EndSessionArrives \/ WinElection
    PROVE  RankInv'
<1>0. ClientOK(client) /\ client \in Clients /\ spent \in [Kinds -> Nat]
  BY DEF IInv, ClientOK, Environment
<1>1. /\ client.phase = "loop" /\ page' = page
      /\ overtaken' = overtaken
  BY DEF RosterArrives, PeersChange, VideoArrives, EndSessionArrives,
         WinElection
<1>2. spent'["choice"] = spent["choice"]
  BY <1>0 DEF RosterArrives, PeersChange, VideoArrives, EndSessionArrives,
              WinElection, Spend, Kinds
<1>3. page.socket # "connecting" /\ Serving
  BY <1>1, AcceptingIdle DEF Serving
<1>4. ASSUME NEW peers \in PeerSets, NEW rank \in Ranks,
             RosterArrives(rank, peers)
      PROVE  RankInv'
  <2> DEFINE E == ClientRosters
             roster == [mine |-> rank, peers |-> peers]
             d == [client EXCEPT !.updateRoster = Append(@, roster)]
  <2>1. client' = d
    BY <1>4 DEF RosterArrives
  <2>2. d.phase = client.phase
          /\ d.updateRoster = Append(client.updateRoster, roster)
    BY <1>0 DEF Clients
  <2>3. client.updateRoster \in Seq(E) /\ roster \in E
    BY <1>0, BrowserAssumption DEF Clients, ClientRosters
  <2> HIDE DEF d, roster, E
  <2>4. Append(client.updateRoster, roster) # <<>>
    BY <2>3
  <2> QED BY <1>1, <1>2, <1>3, <2>1, <2>2, <2>4, DueInv
<1>5. ASSUME NEW peers \in PeerSets, PeersChange(peers)
      PROVE  RankInv'
  <2> DEFINE d == [client EXCEPT !.peers = peers]
  <2>1. client' = [d EXCEPT !.syncs = @ + 1]
    BY <1>5 DEF PeersChange, SpawnSyncRoster
  <2>2. client'.phase = client.phase /\ client'.syncs = client.syncs + 1
    BY <1>0, <2>1 DEF Clients
  <2>3. client'.syncs > 0
    BY <1>0, <2>2 DEF Clients
  <2> QED BY <1>1, <1>2, <1>3, <2>2, <2>3, DueInv
<1>6. ASSUME NEW v \in Updates, VideoArrives(v)
      PROVE  RankInv'
  <2> DEFINE message == [type |-> "VideoUpdate", video |-> v]
  <2>1. message \in ToPage /\ message.type \notin Ranking
    BY BrowserAssumption DEF ToPage, Ranking
  <2>2. client' = TellBrowser(client, message)
    BY <1>6 DEF VideoArrives
  <2> HIDE DEF message
  <2>3. Calm(client, client') /\ Shifted(0)
    BY <1>0, <1>1, <2>1, <2>2, TellCalm, ShiftedNone
  <2> QED BY <1>1, <1>2, <1>3, <2>3, CalmInv
<1>7. CASE EndSessionArrives
  <2>1. client'.phase = "dead"
    BY <1>7, ExitAway DEF EndSessionArrives
  <2> QED BY <1>1, <1>2, <2>1, AwayInv
<1>8. CASE WinElection
  <2> DEFINE d == [client EXCEPT !.Rank = Director, !.isLeader = TRUE,
                                 !.leader = Nil]
  <2>1. client' = [d EXCEPT !.syncs = @ + 1]
    BY <1>8 DEF WinElection, SpawnSyncRoster
  <2>2. client'.phase = client.phase /\ client'.syncs = client.syncs + 1
    BY <1>0, <2>1 DEF Clients
  <2>3. client'.syncs > 0
    BY <1>0, <2>2 DEF Clients
  <2> QED BY <1>1, <1>2, <1>3, <2>2, <2>3, DueInv
<1> QED BY <1>4, <1>5, <1>6, <1>7, <1>8

\* The cases of the actor's select: each of them starts a goroutine that
\* reads the roster after it, unless setLeader panics (client.go 97-123,
\* 162-194, 485-490).
LEMMA ActorRank ==
    ASSUME IInv, RankInv,
           \/ ActorBecomeLeader \/ ActorSetLeader
           \/ ActorUpdateRoster \/ ActorUpdatePeer
    PROVE  RankInv'
<1>0. client \in Clients
  BY DEF IInv, ClientOK
<1>1. Serving /\ page' = page /\ spent' = spent
  BY DEF ActorBecomeLeader, ActorSetLeader, ActorUpdateRoster,
         ActorUpdatePeer
<1>2. page.socket # "connecting"
  BY <1>1, AcceptingIdle
  DEF ActorBecomeLeader, ActorSetLeader, ActorUpdateRoster, ActorUpdatePeer
<1>3. CASE client' = Exit(client)
  BY <1>1, <1>3, ExitAway, AwayInv
<1>4. ASSUME client' # Exit(client)
      PROVE  /\ client'.phase = client.phase
             /\ client'.syncs = client.syncs + 1
             /\ client'.becomeLeader => client.becomeLeader
  <2>1. CASE ActorBecomeLeader
    BY <1>0, <2>1 DEF ActorBecomeLeader, SpawnSyncRoster, Clients
  <2>2. CASE ActorSetLeader
    BY <1>0, <1>4, <2>2 DEF ActorSetLeader, SpawnSyncRoster, Clients
  <2>3. CASE ActorUpdateRoster
    BY <1>0, <2>3 DEF ActorUpdateRoster, SpawnSyncRoster, Clients
  <2>4. CASE ActorUpdatePeer
    <3> DEFINE entry == Head(client.updatePeer)
               rank == IF client.peers[entry.Id] = Unknown
                       THEN client.peers[entry.Id] ELSE entry.Rank
               ranks == [client.peers EXCEPT ![entry.Id] = rank]
               d == [client EXCEPT !.updatePeer = Tail(@), !.peers = ranks]
    <3>1. client' = SpawnSyncRoster(d)
      BY <2>4, Zenon DEF ActorUpdatePeer
    <3> HIDE DEF ranks
    <3> QED BY <1>0, <3>1 DEF SpawnSyncRoster, Clients
  <2> QED BY <2>1, <2>2, <2>3, <2>4
<1>5. CASE client' # Exit(client)
  <2>1. client'.syncs > 0
    BY <1>0, <1>4, <1>5 DEF Clients
  <2>2. client'.phase = "start" => ~client'.becomeLeader
    BY <1>4, <1>5 DEF RankInv, StartInv
  <2> QED BY <1>1, <1>2, <1>4, <1>5, <2>1, <2>2, DueInv
<1> QED BY <1>3, <1>5

\* The goroutines: a roster that is read has the rank of that moment, and as
\* long as they send in the order in which they read, the last of them
\* arrives last (client.go 410-432).
LEMMA GoroutineRank ==
    ASSUME IInv, RankInv, IInv',
           \/ \E n \in DOMAIN client.rankChanges : RankChangeAsLeader(n)
           \/ SyncReads
           \/ \E n \in DOMAIN client.rosters : SyncSends(n)
    PROVE  RankInv'
<1> DEFINE R == Rosters
<1>0. /\ ClientOK(client) /\ client \in Clients /\ client' \in Clients
      /\ client.rosters \in Seq(R) /\ overtaken \in BOOLEAN
  BY DEF IInv, ClientOK, Clients, Environment
<1>1. Serving /\ page' = page /\ spent' = spent
  BY DEF RankChangeAsLeader, SyncReads, SyncSends
<1>2. Shifted(0)
  BY <1>1, ShiftedNone
<1> HIDE DEF R
<1>3. page.socket # "connecting"
  <2> SUFFICES ASSUME page.socket = "connecting" PROVE FALSE
    OBVIOUS
  <2>1. /\ client.rankChanges = <<>> /\ client.syncs = 0
        /\ client.rosters = <<>>
    BY <1>1, AcceptingIdle
  <2>2. DOMAIN client.rankChanges = {} /\ DOMAIN client.rosters = {}
    BY <2>1
  <2> QED BY <2>1, <2>2 DEF SyncReads
<1>4. ASSUME NEW n \in DOMAIN client.rankChanges, RankChangeAsLeader(n)
      PROVE  RankInv'
  <2> DEFINE entry == client.rankChanges[n]
             rest == Without(client.rankChanges, n)
             asked == IF client.peers[entry.Id] = Unknown
                      THEN client.updatePeer
                      ELSE Append(client.updatePeer, entry)
             d == [client EXCEPT !.rankChanges = rest, !.updatePeer = asked]
  <2>1. client' = d /\ overtaken' = overtaken
    BY <1>4 DEF RankChangeAsLeader
  <2> HIDE DEF rest, asked
  <2>2. /\ d.phase = client.phase /\ d.Rank = client.Rank
        /\ d.becomeLeader = client.becomeLeader
        /\ d.updateRoster = client.updateRoster /\ d.syncs = client.syncs
        /\ d.rosters = client.rosters /\ d.toBrowser = client.toBrowser
    BY <1>0 DEF Clients
  <2> HIDE DEF d
  <2>3. Calm(client, client')
    BY <1>0, <2>1, <2>2, CalmSame
  <2> QED BY <1>1, <1>2, <1>3, <2>1, <2>3, CalmInv
<1>5. CASE SyncReads
  <2> DEFINE roster == GetRoster(client)
             d == [client EXCEPT !.syncs = @ - 1,
                                 !.rosters = Append(@, roster)]
  <2>1. client' = d /\ overtaken' = overtaken
    BY <1>5 DEF SyncReads
  <2>2. roster \in R /\ roster.mine = client.Rank
    BY <1>0, RosterOK DEF GetRoster, R
  <2> HIDE DEF roster
  <2>3. /\ d.phase = client.phase /\ d.Rank = client.Rank
        /\ d.becomeLeader = client.becomeLeader
        /\ d.rosters = Append(client.rosters, roster)
    BY <1>0 DEF Clients
  <2> HIDE DEF d
  <2>4. LET rosters == Append(client.rosters, roster)
        IN  rosters # <<>> /\ rosters[Len(rosters)] = roster
    BY <1>0, <2>2
  <2>5. RankTold'
    BY <2>1, <2>2, <2>3, <2>4 DEF RankTold
  <2>6. UnconnectedInv'
    BY <1>1, <1>3, <2>1, <2>3 DEF UnconnectedInv, Serving
  <2>7. StartInv'
    BY <1>1, <1>2, <2>1, <2>3, StartsInv DEF RankInv, StartInv
  <2> QED BY <2>5, <2>6, <2>7 DEF RankInv, ToldInv
<1>6. ASSUME NEW n \in DOMAIN client.rosters, SyncSends(n)
      PROVE  RankInv'
  BY <1>0, <1>1, <1>2, <1>3, <1>6, SendsRank
<1> QED BY <1>4, <1>5, <1>6

-----------------------------------------------------------------------------
(* The actions of the page and of its user.                                *)

\* A page that is not connected has no timers, and no player.
LEMMA NewPageIdle ==
    ASSUME RankInv, page.socket = "connecting"
    PROVE  /\ page.heartbeat = FALSE /\ page.timeout = FALSE
           /\ page.player = Nil
           /\ ~(page.unblocks > 0) /\ ~(page.titles > 0)
<1>1. /\ page.heartbeat = FALSE /\ page.timeout = FALSE
      /\ page.player = Nil /\ page.unblocks = 0 /\ page.titles = 0
  BY AcceptingIdle DEF NewPage
<1>2. ~(0 > 0)
  OBVIOUS
<1> QED BY <1>1, <1>2, Zenon

\* The page does something that leaves its rank and starts no session.
LEMMA QuietInv ==
    ASSUME IInv, RankInv, IInv', page.socket # "connecting",
           Quiet(page, page'), client' = client,
           spent'["choice"] = spent["choice"], overtaken' = overtaken
    PROVE  RankInv'
<1>1. /\ Len(page.sent) \in Nat /\ DOMAIN page.sent = 1..Len(page.sent)
      /\ Len(page'.sent) \in Nat /\ DOMAIN page'.sent = 1..Len(page'.sent)
  BY SentLen DEF IInv
<1>2. \A n \in DOMAIN page'.sent : Starts(n)' =>
        n \in DOMAIN page.sent /\ Starts(n)
  BY <1>1 DEF Quiet, Starts
<1>3. \A n \in DOMAIN page.sent : Starts(n) =>
        /\ n \in DOMAIN page'.sent /\ Starts(n)'
        /\ page'.sent[n] = page.sent[n]
  BY <1>1 DEF Quiet, Starts
<1>4. Serving' = Serving
  BY DEF Serving
<1>5. UnconnectedInv'
  BY DEF RankInv, UnconnectedInv, Quiet
<1>6. StartInv'
  BY <1>2, <1>4 DEF RankInv, StartInv
<1>7. ToldInv'
  <2>1. RosterDue => RosterDue'
    BY <1>3 DEF RosterDue
  <2>2. RankTold => RankTold'
    BY DEF RankTold, LastTold, Quiet
  <2> QED BY <1>4, <2>1, <2>2 DEF RankInv, ToldInv, Quiet
<1> QED BY <1>5, <1>6, <1>7 DEF RankInv

\* The page is closed, or gives its client up (wetube.ts 225-229, 405-409).
LEMMA LostInv ==
    ASSUME IInv, RankInv, page.socket # "connecting",
           page'.socket = "closed", page'.sent = page.sent,
           client' = client, spent'["choice"] = spent["choice"]
    PROVE  RankInv'
<1>1. UnconnectedInv'
  BY DEF RankInv, UnconnectedInv
<1>2. StartInv'
  BY DEF RankInv, StartInv, Starts, Serving
<1>3. ToldInv'
  BY DEF ToldInv
<1> QED BY <1>1, <1>2, <1>3 DEF RankInv

\* The user starts a session, and is a Director from then on, or joins one
\* (wetube.ts 160-171).
LEMMA ChoiceRank ==
    ASSUME IInv, RankInv, IInv', NEW leader \in BOOLEAN,
           ChooseSession(leader)
    PROVE  RankInv'
<1> DEFINE E == ToClient
           message == [type |-> "SessionInit", Leader |-> leader]
           p == IF leader THEN setMyRank(page, Director) ELSE page
           k == Len(page.sent) + 1
<1>1. /\ page.socket = "open" /\ client' = client /\ overtaken' = overtaken
      /\ page' = startNewSession(page, leader)
  BY DEF ChooseSession, PageStep, Connected
<1>2. /\ Good(page) /\ Ranked(page) /\ page.sent \in Seq(E)
      /\ message \in E /\ message.type = "SessionInit"
      /\ message.Leader = leader
  BY GoodRanked DEF IInv, Good, PageStates, ToClient
<1>3. /\ Ranked(p) /\ p.socket = page.socket /\ p.sent = page.sent
      /\ ~leader => p.myRank = page.myRank
  BY <1>2 DEF Ranked, setMyRank
<1>4. page' = [p EXCEPT !.sent = @ \o <<message>>]
  BY <1>1, <1>3 DEF startNewSession, Send, SendAll
<1> HIDE DEF p, E, message
<1>5. /\ page'.socket = "open" /\ page'.sent = page.sent \o <<message>>
      /\ ~leader => page'.myRank = page.myRank
  BY <1>1, <1>3, <1>4 DEF Ranked
<1>6. /\ Len(page.sent) \in Nat /\ DOMAIN page.sent = 1..Len(page.sent)
      /\ DOMAIN page'.sent = 1..k /\ page'.sent[k] = message
      /\ \A n \in 1..Len(page.sent) : page'.sent[n] = page.sent[n]
  BY <1>2, <1>5
<1>7. /\ spent["choice"] \in Nat /\ spent'["choice"] = spent["choice"] + 1
  BY DEF IInv, Environment, Kinds, ChooseSession, Spend
<1>8. UnconnectedInv'
  BY <1>1, <1>5 DEF RankInv, UnconnectedInv
<1>9. Serving' = Serving
  BY <1>1 DEF Serving
<1>10. StartInv'
  <2>1. client'.phase = "start" => ~client'.becomeLeader
    BY <1>1 DEF RankInv, StartInv
  <2>2. spent'["choice"] > 0 /\ spent'["choice"] # 0
    BY <1>7
  <2>3. ASSUME spent'["choice"] <= 1
        PROVE  /\ Serving' => client'.phase = "start"
               /\ \A n \in DOMAIN page'.sent : Starts(n)' => n = k
    <3>1. spent["choice"] = 0
      BY <1>7, <2>3
    <3>2. \A n \in DOMAIN page.sent : ~Starts(n)
      BY <3>1 DEF RankInv, StartInv
    <3>3. ASSUME NEW n \in DOMAIN page'.sent, Starts(n)', n # k
          PROVE  FALSE
      <4>1. n \in 1..Len(page.sent)
        BY <1>6, <3>3
      <4> QED BY <1>6, <3>2, <3>3, <4>1 DEF Starts
    <3> QED BY <1>1, <1>9, <3>1, <3>3 DEF RankInv, StartInv
  <2> HIDE DEF k
  <2> QED BY <2>1, <2>2, <2>3 DEF StartInv
<1>11. ToldInv'
  <2> SUFFICES ASSUME Serving', ~overtaken', spent'["choice"] <= 1
               PROVE  RosterDue' \/ RankTold'
    BY DEF ToldInv
  <2>1. CASE leader
    <3>0. k \in 1..k
      BY <1>6
    <3> HIDE DEF k
    <3>1. /\ k \in DOMAIN page'.sent
          /\ page'.sent[k].type = "SessionInit" /\ page'.sent[k].Leader
      BY <1>2, <1>6, <2>1, <3>0, Zenon
    <3>2. \E n \in DOMAIN page'.sent : Starts(n)' /\ page'.sent[n].Leader
      BY <3>1 DEF Starts
    <3> QED BY <3>2 DEF RosterDue
  <2>2. CASE ~leader
    <3>1. RosterDue \/ RankTold
      BY <1>1, <1>7, <1>9 DEF RankInv, ToldInv
    <3>2. spent["choice"] = 0
      BY <1>7
    <3>3. RosterDue => RosterDue'
      BY <1>1, <3>2 DEF RosterDue, RankInv, StartInv
    <3>4. RankTold => RankTold'
      BY <1>1, <1>5, <2>2 DEF RankTold, LastTold
    <3> QED BY <3>1, <3>3, <3>4
  <2> QED BY <2>1, <2>2
<1> QED BY <1>8, <1>10, <1>11 DEF RankInv

\* The page is told whether the client has taken it (wetube.ts 390-418).
LEMMA AckRank ==
    ASSUME IInv, RankInv, IInv', PageReceives, page.socket = "connecting"
    PROVE  RankInv'
<1> DEFINE ack == [type |-> "BrowserConnectAck", Success |-> TRUE]
<1>1. /\ page = NewPage /\ page.sent = <<>> /\ page.myRank = Unknown
  BY AcceptingIdle DEF NewPage
<1>2. /\ client.toBrowser # <<>> /\ spent' = spent
      /\ client' = [client EXCEPT !.toBrowser = Tail(client.toBrowser)]
      /\ page' = handleBrowserConnectAck(page, Head(client.toBrowser))
  BY DEF PageReceives, onmessage
<1>3. page'.socket \in {"open", "rejected"} /\ page'.sent = <<>>
        /\ page'.myRank = Unknown
  BY <1>1, <1>2 DEF handleBrowserConnectAck, Show, NewPage
<1>4. client \in Clients /\ client'.phase = client.phase
        /\ client'.becomeLeader = client.becomeLeader
        /\ client'.rosters = client.rosters /\ client'.Rank = client.Rank
        /\ client'.toBrowser = Tail(client.toBrowser)
  BY <1>2 DEF IInv, ClientOK, Clients
<1>5. client.phase # "connect"
  <2>1. client.phase = "connect" => client = NewClient("connect")
    BY DEF RankInv, UnconnectedInv
  <2>2. NewClient("connect").toBrowser = <<>>
    BY DEF NewClient
  <2> QED BY <1>2, <2>1, <2>2
<1>6. UnconnectedInv'
  BY <1>3, <1>4, <1>5 DEF UnconnectedInv
<1>7. StartInv'
  BY <1>2, <1>3, <1>4 DEF RankInv, StartInv, Starts, Serving
<1>8. ToldInv'
  <2> SUFFICES ASSUME Serving' PROVE RankTold'
    BY DEF ToldInv
  <2>1. client = Accepting
    BY <1>4, AcceptingIdle DEF Serving
  <2>2. /\ client.rosters = <<>> /\ client.Rank = Unknown
        /\ client.toBrowser = <<ack>>
    BY <2>1 DEF Accepting, NewClient
  <2>3. Tail(<<ack>>) = <<>>
    OBVIOUS
  <2>4. client'.toBrowser = <<>> /\ Len(client'.toBrowser) = 0
    BY <1>4, <2>2, <2>3
  <2>5. LastTold(0)' /\ 0 \in 0..Len(client'.toBrowser)
    BY <1>3, <1>4, <2>2, <2>4 DEF LastTold
  <2> QED BY <1>4, <2>2, <2>5 DEF RankTold
<1> QED BY <1>6, <1>7, <1>8 DEF RankInv

\* The page handles a message of its client: if it was the last that says
\* something of the rank, the page has the client's rank now.
LEMMA ReceiveRank ==
    ASSUME IInv, RankInv, IInv', PageReceives, page.socket = "open"
    PROVE  RankInv'
<1> DEFINE E == ToPage
           message == Head(client.toBrowser)
<1>1. /\ client.toBrowser # <<>> /\ spent' = spent
      /\ overtaken' = overtaken
      /\ client' = [client EXCEPT !.toBrowser = Tail(client.toBrowser)]
      /\ page' = handleMessage(page, message)
  BY DEF PageReceives, onmessage
<1>2. client \in Clients /\ client.toBrowser \in Seq(E) /\ Ranked(page)
  BY GoodRanked DEF IInv, ClientOK, Clients
<1>3. /\ client'.phase = client.phase /\ client'.Rank = client.Rank
      /\ client'.becomeLeader = client.becomeLeader
      /\ client'.updateRoster = client.updateRoster
      /\ client'.syncs = client.syncs /\ client'.rosters = client.rosters
      /\ client'.toBrowser = Tail(client.toBrowser)
  BY <1>1, <1>2 DEF Clients
<1> HIDE DEF message, E
<1>4. /\ page'.socket = "open" /\ page'.sent = page.sent
      /\ message.type = "RosterUpdate" => page'.myRank = message.roster.mine
      /\ message.type \notin Ranking => page'.myRank = page.myRank
  <2>1. CASE message.type = "RosterUpdate"
    BY <1>1, <1>2, <2>1, RosterRanks DEF Ranking
  <2>2. CASE message.type = "JoinConfirmation"
    BY <1>1, <1>2, <2>2, JoinRanks DEF Ranking
  <2>3. CASE message.type \notin Ranking
    BY <1>1, <1>2, <2>3, OthersKeep DEF Ranking, Keeps
  <2> QED BY <2>1, <2>2, <2>3 DEF Ranking
<1>5. Serving' = Serving
  BY <1>3 DEF Serving
<1>6. UnconnectedInv'
  BY <1>3, <1>4 DEF RankInv, UnconnectedInv
<1>7. StartInv'
  BY <1>1, <1>3, <1>4, <1>5 DEF RankInv, StartInv, Starts
<1>8. RosterDue => RosterDue'
  BY <1>3, <1>4 DEF RosterDue, Starts
<1>9. RankTold => RankTold'
  <2> SUFFICES ASSUME RankTold PROVE RankTold'
    OBVIOUS
  <2>1. CASE client.rosters # <<>>
    BY <1>3, <2>1 DEF RankTold
  <2>2. CASE client.rosters = <<>>
    <3> DEFINE q == client.toBrowser
               L == Len(q)
    <3>1. PICK n \in 0..L : LastTold(n)
      BY <2>2 DEF RankTold
    <3>2. /\ L \in Nat /\ L >= 1 /\ DOMAIN q = 1..L /\ q[1] = message
          /\ Len(Tail(q)) = L - 1 /\ DOMAIN Tail(q) = 1..(L - 1)
          /\ \A m \in 1..(L - 1) : Tail(q)[m] = q[m + 1]
      BY <1>1, <1>2 DEF message
    <3>3. /\ n = 0 => page.myRank = client.Rank
          /\ n > 0 => q[n].type = "RosterUpdate"
                        /\ q[n].roster.mine = client.Rank
          /\ \A m \in 1..L : m > n => q[m].type \notin Ranking
      BY <3>1, <3>2 DEF LastTold
    <3>4. client'.toBrowser = Tail(q) /\ client'.Rank = client.Rank
      BY <1>3
    <3> HIDE DEF q, L
    <3>5. CASE n <= 1
      <4>1. page'.myRank = client.Rank
        <5>1. CASE n = 0
          BY <1>4, <3>2, <3>3, <5>1
        <5>2. CASE n = 1
          BY <1>4, <3>2, <3>3, <5>2
        <5> QED BY <3>1, <3>5, <5>1, <5>2
      <4>2. ASSUME NEW m \in 1..(L - 1)
            PROVE  Tail(q)[m].type \notin Ranking
        <5>1. m + 1 \in 1..L /\ m + 1 > n
          BY <3>2, <3>5
        <5> QED BY <3>2, <3>3, <5>1
      <4>3. LastTold(0)'
        BY <3>2, <3>4, <4>1, <4>2 DEF LastTold
      <4>4. 0 \in 0..Len(client'.toBrowser)
        BY <3>2, <3>4
      <4> QED BY <1>3, <2>2, <4>3, <4>4 DEF RankTold
    <3>6. CASE n > 1
      <4>1. n - 1 \in Nat
        BY <3>1, <3>2, <3>6
      <4>2. PICK k \in Nat : k = n - 1
        BY <4>1
      <4>3. k \in Nat /\ k > 0 /\ k \in 1..(L - 1) /\ k + 1 = n
        BY <3>1, <3>2, <3>6, <4>2
      <4>4. Tail(q)[k] = q[n]
        BY <3>2, <4>3
      <4>5. ASSUME NEW m \in 1..(L - 1), m > k
            PROVE  Tail(q)[m].type \notin Ranking
        <5>1. m + 1 \in 1..L /\ m + 1 > n
          BY <3>1, <3>2, <4>5, <4>2
        <5> QED BY <3>2, <3>3, <5>1
      <4>6. k \in 0..Len(client'.toBrowser)
        BY <3>2, <3>4, <4>3
      <4>7. k # 0 /\ DOMAIN client'.toBrowser = 1..(L - 1)
        BY <3>2, <3>4, <4>3
      <4>8. n > 0
        BY <3>2, <3>6
      <4>9. /\ Tail(q)[k].type = "RosterUpdate"
            /\ Tail(q)[k].roster.mine = client.Rank
        BY <3>3, <4>4, <4>8
      <4>10. LastTold(k)'
        BY <3>4, <4>5, <4>7, <4>9 DEF LastTold
      <4> QED BY <1>3, <2>2, <4>6, <4>10 DEF RankTold
    <3> QED BY <3>1, <3>5, <3>6
  <2> QED BY <2>1, <2>2
<1>10. ToldInv'
  BY <1>1, <1>5, <1>8, <1>9 DEF RankInv, ToldInv
<1> QED BY <1>6, <1>7, <1>10 DEF RankInv

\* What only shows, hides or counts, and what is sent through the socket
\* besides SessionInit.
LEMMA QuietSteps ==
    ASSUME NEW p, Good(p)
    PROVE  /\ Quiet(p, SendHeartbeat(p))
           /\ Quiet(p, Unblock(p))
           /\ Quiet(p, TitleArrives(p))
           /\ Quiet(p, onYouTubePlayerReady(p))
           /\ \A accept \in BOOLEAN : Quiet(p, respondToInvitation(p, accept))
           /\ \A dialog \in Dialogs :
                Quiet(p, Show(p, dialog)) /\ Quiet(p, Hide(p, dialog))
           /\ Quiet(p, sendInvitation(p))
           /\ \A q \in Peer : Quiet(p, showPeerInfoWindow(p, q))
           /\ Quiet(p, endSession(p))
<1>0. Ranked(p) /\ Keeps(p, p)
  BY GoodRanked
<1>1. Quiet(p, SendHeartbeat(p))
  <2>1. [type |-> "Heartbeat"] \in ToClient
    BY DEF ToClient
  <2> QED BY <1>0, <2>1, SendQuiet DEF SendHeartbeat
<1>2. Quiet(p, Unblock(p))
  <2>1. Keeps(p, Unblock(p))
    BY <1>0 DEF Keeps, Ranked, Unblock
  <2> QED BY <2>1, KeepsQuiet
<1>3. Quiet(p, TitleArrives(p))
  <2> DEFINE q == [p EXCEPT !.titles = @ - 1]
  <2>1. Keeps(p, q)
    BY <1>0 DEF Keeps, Ranked
  <2>2. TitleArrives(p) = Send(q, [type |-> "InvitationRequest"])
    BY DEF TitleArrives
  <2>3. [type |-> "InvitationRequest"] \in ToClient
    BY DEF ToClient
  <2> HIDE DEF q
  <2> QED BY <2>1, <2>2, <2>3, SendQuiet
<1>4. Quiet(p, onYouTubePlayerReady(p))
  BY ReadyKeeps, KeepsQuiet
<1>5. ASSUME NEW accept \in BOOLEAN
      PROVE  Quiet(p, respondToInvitation(p, accept))
  <2> DEFINE hidden == Hide(p, "invitation_response")
             shown == Show(hidden, "wait_for_invitation")
             message == [type |-> "InvitationResponse", Accepted |-> accept,
                         Random |-> p.currentInvitation.Random]
  <2>1. respondToInvitation(p, accept) = IF p.currentInvitation = Nil
                                         THEN hidden ELSE Send(shown, message)
    BY DEF respondToInvitation
  <2>2. Keeps(p, hidden)
    BY <1>0, DialogKeeps
  <2>3. p.currentInvitation # Nil => message \in ToClient
    BY DEF Good, PageStates, Invitations, ToClient
  <2>4. message.type # "SessionInit"
    OBVIOUS
  <2> HIDE DEF hidden, message
  <2>5. Keeps(p, shown)
    BY <2>2, DialogKeeps, KeepsTwice DEF Keeps
  <2> HIDE DEF shown
  <2> QED BY <2>1, <2>2, <2>3, <2>4, <2>5, KeepsQuiet, SendQuiet
<1>6. ASSUME NEW dialog \in Dialogs
      PROVE  Quiet(p, Show(p, dialog)) /\ Quiet(p, Hide(p, dialog))
  BY <1>0, DialogKeeps, KeepsQuiet
<1>7. Quiet(p, sendInvitation(p))
  <2> DEFINE q == Hide(p, "invitation")
             r == [q EXCEPT !.titles = @ + 1]
  <2>1. Keeps(p, q)
    BY <1>0, DialogKeeps
  <2>2. sendInvitation(p) \in {p, r}
    BY DEF sendInvitation
  <2> HIDE DEF q
  <2>3. Keeps(p, r)
    BY <2>1 DEF Keeps, Ranked
  <2> HIDE DEF r
  <2> QED BY <1>0, <2>2, <2>3, KeepsQuiet
<1>8. ASSUME NEW q \in Peer
      PROVE  Quiet(p, showPeerInfoWindow(p, q))
  <2> DEFINE shown == Show(p, "peer_info")
  <2>1. Keeps(p, shown)
    BY <1>0, DialogKeeps
  <2>2. showPeerInfoWindow(p, q)
          = [shown EXCEPT !.info = q, !.submitters = Append(@, q)]
    BY DEF showPeerInfoWindow
  <2> HIDE DEF shown
  <2>3. Keeps(p, showPeerInfoWindow(p, q))
    BY <2>1, <2>2 DEF Keeps, Ranked
  <2> QED BY <2>3, KeepsQuiet
<1>9. Quiet(p, endSession(p))
  <2> DEFINE q == IF p.ytplayer THEN stopVideo(p) ELSE p
  <2>1. Keeps(p, q)
    BY <1>0, TurnsKeep
  <2>2. endSession(p) = Send(q, [type |-> "EndSession"])
    BY DEF endSession
  <2>3. [type |-> "EndSession"] \in ToClient
    BY DEF ToClient
  <2> HIDE DEF q
  <2> QED BY <2>1, <2>2, <2>3, SendQuiet
<1> QED BY <1>1, <1>2, <1>3, <1>4, <1>5, <1>6, <1>7, <1>8, <1>9

\* The form of a change of rank is submitted (wetube.ts 264-271).
LEMMA SubmitQuiet ==
    ASSUME NEW p, Good(p), NEW rank \in Ranks
    PROVE  Quiet(p, submitRankChange(p, rank))
<1> DEFINE messages == [i \in DOMAIN p.submitters |->
                          [type    |-> "RankChangeRequest",
                           PeerId  |-> p.submitters[i],
                           NewRank |-> rank]]
           q == SendAll(p, messages)
<1>1. p.submitters \in Seq(Peer) /\ Ranked(p) /\ Keeps(p, p)
  BY GoodRanked DEF Good, PageStates
<1>2. /\ DOMAIN p.submitters = 1..Len(p.submitters)
      /\ Len(p.submitters) \in Nat
  BY <1>1
<1>3. \A i \in 1..Len(p.submitters) : messages[i] \in ToClient
  BY <1>1 DEF ToClient
<1>4. \A i \in 1..Len(p.submitters) : messages[i].type # "SessionInit"
  BY <1>2
<1>5. messages \in [1..Len(p.submitters) -> ToClient]
  BY <1>2, <1>3, Zenon
<1>6. submitRankChange(p, rank) = Hide(q, "peer_info")
  BY DEF submitRankChange
<1> HIDE DEF messages
<1>7. messages \in Seq(ToClient) /\ Len(messages) = Len(p.submitters)
  BY <1>2, <1>5
<1>8. Quiet(p, q) /\ Good(q)
  BY <1>1, <1>4, <1>7, SendAllQuiet, GoodSendAll
<1> HIDE DEF q
<1>9. Keeps(q, Hide(q, "peer_info"))
  BY <1>8, GoodRanked, DialogKeeps
<1> QED BY <1>6, <1>8, <1>9 DEF Quiet, Keeps

\* What counts towards another bound leaves the choices alone.
LEMMA SpendOther ==
    ASSUME IInv, NEW kind \in Kinds, kind # "choice", Spend(kind)
    PROVE  spent'["choice"] = spent["choice"]
  BY DEF IInv, Environment, Spend, Kinds

\* The callbacks of the script.
LEMMA PageNextRank ==
    ASSUME IInv, RankInv, IInv', PageNext
    PROVE  RankInv'
<1>0. Good(page) /\ page \in PageStates /\ {"beat", "stall"} \subseteq Kinds
  BY DEF IInv, Good, Kinds
<1>1. CASE PageReceives
  BY <1>1, AckRank, ReceiveRank DEF PageReceives
<1>2. CASE PageHeartbeat
  <2>1. page.socket # "connecting"
    BY <1>2, NewPageIdle DEF PageHeartbeat
  <2>2. spent'["choice"] = spent["choice"]
    BY <1>0, <1>2, SpendOther DEF PageHeartbeat
  <2> QED BY <1>0, <1>2, <2>1, <2>2, QuietSteps, QuietInv
          DEF PageHeartbeat, PageStep
<1>3. CASE PageTimeout
  <2>1. page.socket # "connecting"
    BY <1>3, NewPageIdle DEF PageTimeout
  <2>2. spent'["choice"] = spent["choice"]
    BY <1>0, <1>3, SpendOther DEF PageTimeout
  <2>3. page'.socket = "closed" /\ page'.sent = page.sent
    BY <1>0, <1>3 DEF PageTimeout, PageStep, onClientTimeout, PageStates
  <2> QED BY <1>3, <2>1, <2>2, <2>3, LostInv DEF PageTimeout, PageStep
<1>4. CASE SocketError
  <2>1. page'.socket = "closed" /\ page'.sent = page.sent
    BY <1>0, <1>4 DEF SocketError, PageStep, onerror, PageStates
  <2> QED BY <1>4, <2>1, LostInv DEF SocketError, PageStep
<1>5. CASE PlayerReady
  <2>1. page.socket # "connecting"
    BY <1>5, NewPageIdle DEF PlayerReady
  <2> QED BY <1>0, <1>5, <2>1, QuietSteps, QuietInv DEF PlayerReady, PageStep
<1>6. CASE EchoUnblocks
  <2>1. page.socket # "connecting"
    BY <1>6, NewPageIdle DEF EchoUnblocks
  <2> QED BY <1>0, <1>6, <2>1, QuietSteps, QuietInv DEF EchoUnblocks, PageStep
<1>7. CASE ReceiveTitle
  <2>1. page.socket # "connecting"
    BY <1>7, NewPageIdle DEF ReceiveTitle
  <2> QED BY <1>0, <1>7, <2>1, QuietSteps, QuietInv DEF ReceiveTitle, PageStep
<1> QED BY <1>1, <1>2, <1>3, <1>4, <1>5, <1>6, <1>7 DEF PageNext

\* What the user does.
LEMMA UserNextRank ==
    ASSUME IInv, RankInv, IInv', UserNext
    PROVE  RankInv'
<1>0. /\ Good(page) /\ page \in PageStates
      /\ {"title", "click", "submit", "end"} \subseteq Kinds
      /\ {"invitation", "peer_info"} \subseteq Dialogs
  BY DEF IInv, Good, Kinds, Dialogs
<1>1. ASSUME NEW leader \in BOOLEAN, ChooseSession(leader) PROVE RankInv'
  BY <1>1, ChoiceRank
<1>2. CASE ClosePage
  <2>1. page.socket # "connecting" /\ client' = client /\ spent' = spent
    BY <1>2 DEF ClosePage, PageStep
  <2>2. page'.socket = "closed" /\ page'.sent = page.sent
    BY <1>2 DEF ClosePage, PageStep, NewPage
  <2> QED BY <2>1, <2>2, LostInv
<1>3. ASSUME page.socket = "open", client' = client, overtaken' = overtaken,
             Quiet(page, page'),
             \/ UNCHANGED spent
             \/ \E kind \in Kinds \ {"choice"} : Spend(kind)
      PROVE  RankInv'
  BY <1>3, SpendOther, QuietInv
<1>4. ASSUME NEW accept \in BOOLEAN, AnswerInvitation(accept) PROVE RankInv'
  BY <1>0, <1>3, <1>4, QuietSteps DEF AnswerInvitation, Connected, PageStep
<1>5. CASE OpenInvitation
  BY <1>0, <1>3, <1>5, QuietSteps DEF OpenInvitation, Connected, PageStep
<1>6. CASE CancelInvitation
  BY <1>0, <1>3, <1>6, QuietSteps DEF CancelInvitation, Connected, PageStep
<1>7. CASE SubmitInvitation
  BY <1>0, <1>3, <1>7, QuietSteps DEF SubmitInvitation, Connected, PageStep
<1>8. ASSUME NEW q \in Peer, ClickPeer(q) PROVE RankInv'
  BY <1>0, <1>3, <1>8, QuietSteps DEF ClickPeer, Connected, PageStep
<1>9. CASE ClosePeerInfo
  BY <1>0, <1>3, <1>9, QuietSteps DEF ClosePeerInfo, Connected, PageStep
<1>10. ASSUME NEW rank \in Ranks, SubmitRankChange(rank) PROVE RankInv'
  BY <1>0, <1>3, <1>10, SubmitQuiet DEF SubmitRankChange, Connected, PageStep
<1>11. CASE EndSession
  BY <1>0, <1>3, <1>11, QuietSteps DEF EndSession, Connected, PageStep
<1> QED BY <1>1, <1>2, <1>4, <1>5, <1>6, <1>7, <1>8, <1>9, <1>10, <1>11
        DEF UserNext

-----------------------------------------------------------------------------
(* The theorem.                                                            *)

\* A client that waits for its page, and a page that waits for its client.
LEMMA InitRank == Init => RankInv
<1> SUFFICES ASSUME Init PROVE RankInv
  OBVIOUS
<1>1. /\ page = NewPage /\ page.socket = "connecting" /\ page.sent = <<>>
      /\ client \in {NewClient("connect"), NewClient("taken")}
  BY DEF Init, NewPage
<1>2. /\ client.phase \in {"connect", "taken"}
      /\ client.phase = "connect" => client = NewClient("connect")
  BY <1>1 DEF NewClient
<1>3. ~Serving
  BY <1>2 DEF Serving
<1> QED BY <1>1, <1>2, <1>3
        DEF RankInv, UnconnectedInv, StartInv, Starts, ToldInv

\* Every step keeps the invariant.
LEMMA NextRank == IInv /\ RankInv /\ IInv' /\ [Next]_vars => RankInv'
<1> SUFFICES ASSUME IInv, RankInv, IInv', [Next]_vars PROVE RankInv'
  OBVIOUS
<1>1. CASE UNCHANGED vars
  BY <1>1 DEF vars, RankInv, UnconnectedInv, StartInv, Starts, ToldInv,
              RosterDue, RankTold, LastTold, Serving
<1>2. CASE ClientNext
  BY <1>2, PhasesRank, ReadMessageRank, ResponseRank, ActorRank,
     GoroutineRank DEF ClientNext
<1>3. CASE EnvironmentNext
  BY <1>3, InvitationRank, SessionRank DEF EnvironmentNext
<1>4. CASE PageNext \/ UserNext
  BY <1>4, PageNextRank, UserNextRank
<1> QED BY <1>1, <1>2, <1>3, <1>4 DEF Next

\* With nothing under way, the page has been told the rank of the client.
LEMMA ToldAgrees ==
    ASSUME IInv, RankInv
    PROVE  RankAgrees
<1> SUFFICES ASSUME RankSettled, ~overtaken, spent["choice"] <= 1
             PROVE  page.myRank = client.Rank
  BY DEF RankAgrees
<1>1. ~RosterDue
  BY DEF RankSettled, RosterDue, Starts
<1>2. RankTold
  BY <1>1 DEF RankInv, ToldInv, RankSettled
<1>3. Len(client.toBrowser) = 0 /\ client.rosters = <<>>
  BY DEF RankSettled
<1>4. LastTold(0)
  BY <1>2, <1>3 DEF RankTold
<1> QED BY <1>4 DEF LastTold

\* Once nothing is under way, a page and its client have the same rank: for
\* a user who chose a session once and if rosters were sent in the order in
\* which they were read, through both ways into a session, any number of
\* invitations, rosters, changes of rank and elections, and whatever else is
\* sent, clicked or lost (wetube.ts 287-290, 360-363; run.go 215-217,
\* client.go 164-167).
THEOREM RankAlwaysAgrees == Spec => []RankAgrees
<1>1. Spec => [](IInv /\ RankInv)
  BY InitInv, InitRank, NextInv, NextRank, PTL DEF Spec
<1>2. IInv /\ RankInv => RankAgrees
  BY ToldAgrees
<1> QED BY <1>1, <1>2, PTL
=============================================================================
