------------------------------- MODULE Browser -------------------------------
(***************************************************************************)
(* A client and its browser page (ts/wetube.ts, run.go, websockets.go):    *)
(* how the page is connected, how a session is started or joined, how the  *)
(* page learns ranks and rosters, and how each side notices that the other *)
(* has gone.  The page is a state of module Page.  The client has          *)
(*   phase         which of the four functions of Run it is in; "lead" and *)
(*                 "show" are the rest of startSession for a new leader,   *)
(*                 "test" is before waitForInvitation tests the rank;      *)
(*                 "taken" if another page was connected before, "dead"    *)
(*                 when the process has ended;                             *)
(*   becomeLeader, setLeader, updateRoster, updatePeer                     *)
(*                 the requests that wait in the channels of its actor;    *)
(*   rankChanges   the handleRankChangeRequestAsLeader goroutines;         *)
(*   syncs         the syncRoster goroutines that have not asked for the   *)
(*                 roster, and rosters, what the others have been given    *)
(*                 and not yet sent, oldest first;                         *)
(*   closed        the reader of the socket has failed and has closed the  *)
(*                 channel ToBrowser: to send on it is a panic;            *)
(*   toBrowser     that channel and the socket behind it.                  *)
(* The leader of a client is named by the invitation that led to it.  The  *)
(* members that invite, confirm, elect, send rosters and play videos are   *)
(* the environment; Joining, Election and VideoSync are about them.        *)
(***************************************************************************)
EXTENDS Page, FiniteSets

CONSTANTS
    Offers,    \* The invitations that arrive, each at most once
    PeerSets,  \* What the environment makes of the peers and their ranks
    Updates,   \* The videos it may show
    Max        \* Bounds: how often each kind of event happens

\* What the user and the environment do a bounded number of times.
Kinds ==
    {"choice", "roster", "update", "click", "title", "submit", "end",
     "stall", "beat"}

PeerRanks == [Peer -> AllRanks]

ASSUME BrowserAssumption ==
    /\ Offers \subseteq Invitations
    /\ PeerSets \subseteq PeerRanks
    /\ Updates \subseteq VideoInstants
    /\ Max \in [Kinds -> Nat]

VARIABLES
    page,       \* The page
    client,     \* The client
    arriving,   \* The invitations that have not arrived yet
    answers,    \* Invitations whose sender has been told that it is accepted
    spent,      \* How often each kind of event has happened
    overtaken   \* History: a roster was sent before one that was read before

vars == <<page, client, arriving, answers, spent, overtaken>>

ClientRosters == [mine : Ranks, peers : PeerRanks]

Clients ==
    [ phase              : {"connect", "taken", "start", "lead", "show",
                            "test", "wait", "loop", "dead"},
      Rank               : AllRanks,
      isLeader           : BOOLEAN,
      leader             : Invitations \cup {Nil},
      peers              : PeerRanks,      \* Unknown: not a peer
      invitation         : Invitations \cup {Nil},
      invitationReceived : BOOLEAN,
      becomeLeader       : BOOLEAN,
      setLeader          : Invitations \cup {Nil},
      updateRoster       : Seq(ClientRosters),
      rankChanges        : Seq([Id : Peer, Rank : Ranks]),
      updatePeer         : Seq([Id : Peer, Rank : Ranks]),
      syncs              : Nat,
      rosters            : Seq(Rosters),
      closed             : BOOLEAN,
      toBrowser          : Seq(ToPage) ]

\* Every variable has its type, and a client that has entered its event loop
\* has a rank, whichever way it got into the session and whatever its actor
\* was doing meanwhile (run.go 126-128, 215-217).
TypeOK ==
    /\ page \in PageStates
    /\ client \in Clients
    /\ client.phase = "loop" => client.Rank \in Ranks
    /\ arriving \subseteq Offers
    /\ answers \subseteq Offers
    /\ \A k \in Kinds : spent[k] \in 0..Max[k]
    /\ overtaken \in BOOLEAN

NewClient(phase) ==
    [ phase |-> phase, Rank |-> Unknown, isLeader |-> FALSE, leader |-> Nil,
      peers |-> [q \in Peer |-> Unknown], invitation |-> Nil,
      invitationReceived |-> FALSE, becomeLeader |-> FALSE,
      setLeader |-> Nil, updateRoster |-> <<>>, rankChanges |-> <<>>,
      updatePeer |-> <<>>, syncs |-> 0, rosters |-> <<>>, closed |-> FALSE,
      toBrowser |-> <<>> ]

Init ==
    /\ page = NewPage
    /\ client \in {NewClient("connect"), NewClient("taken")}
    /\ arriving = Offers
    /\ answers = {}
    /\ spent = [k \in Kinds |-> 0]
    /\ overtaken = FALSE

Spend(kind) ==
    /\ spent[kind] < Max[kind]
    /\ spent' = [spent EXCEPT ![kind] = @ + 1]

-----------------------------------------------------------------------------
(* The client.                                                             *)

Serving ==
    client.phase \in {"start", "lead", "show", "test", "wait", "loop"}

\* A process that ends keeps nothing but what its socket still delivers.
Exit(c) == [NewClient("dead") EXCEPT !.toBrowser = c.toBrowser]

\* client.ToBrowser <- message.
TellBrowser(c, message) ==
    IF c.closed THEN Exit(c) ELSE [c EXCEPT !.toBrowser = Append(@, message)]

RespondWithError(c) == TellBrowser(c, [type |-> "Error"])

handleHeartbeat(c) == TellBrowser(c, [type |-> "HeartbeatAck"])

SpawnSyncRoster(c) == [c EXCEPT !.syncs = @ + 1]

\* connectToBrowser: the first page is taken.
ConnectToBrowser ==
    /\ client.phase = "connect"
    /\ client' = TellBrowser([client EXCEPT !.phase = "start"],
                   [type |-> "BrowserConnectAck", Success |-> TRUE])
    /\ UNCHANGED <<page, arriving, answers, spent, overtaken>>

BrowserConnectionTimeout ==
    /\ client.phase = "connect"
    /\ client' = Exit(client)
    /\ UNCHANGED <<page, arriving, answers, spent, overtaken>>

\* Every other page is refused, whatever the client is doing.
RefuseBrowser ==
    /\ client.phase = "taken"
    /\ page.socket = "connecting"
    /\ client.toBrowser = <<>>
    /\ client' = TellBrowser(client,
                   [type |-> "BrowserConnectAck", Success |-> FALSE])
    /\ UNCHANGED <<page, arriving, answers, spent, overtaken>>

\* SessionInit.  Who is to lead asks the actor for it first.
sessionInit(c, message) ==
    IF message.Leader
    THEN [c EXCEPT !.phase = "lead", !.becomeLeader = TRUE]
    ELSE TellBrowser([c EXCEPT !.phase = "test"], [type |-> "SessionOk"])

startSession(c, message) ==
    CASE message.type = "Heartbeat"   -> handleHeartbeat(c)
      [] message.type = "SessionInit" -> sessionInit(c, message)
      [] OTHER                        -> RespondWithError(c)

waitForInvitation(c, message) ==
    CASE message.type = "Heartbeat"          -> handleHeartbeat(c)
      [] message.type = "InvitationResponse" -> c
      [] OTHER                               -> RespondWithError(c)

\* A member passes requests on to its leader, which serves them; a leader
\* serves its own, in goroutines.
eventLoop(c, message) ==
    CASE message.type = "Heartbeat" -> handleHeartbeat(c)
      [] message.type \in {"VideoUpdateRequest", "InvitationRequest"} -> c
      [] message.type = "RankChangeRequest" ->
           IF c.isLeader
           THEN [c EXCEPT !.rankChanges =
                   Append(@, [Id |-> message.PeerId, Rank |-> message.NewRank])]
           ELSE c
      [] message.type = "EndSession" ->
           IF c.isLeader THEN Exit(c) ELSE RespondWithError(c)
      [] OTHER -> RespondWithError(c)

\* Mutant of TestRank: waitForInvitation ends when the client has a leader.
TestRank_HasLeader(c) ==
    IF c.phase \in {"test", "wait"}
    THEN [c EXCEPT !.phase = IF c.isLeader \/ c.leader # Nil THEN "loop"
                             ELSE "wait"]
    ELSE c

\* waitForInvitation ends when the client has a rank, which is tested before
\* each message.
TestRank(c) ==
    IF c.phase \in {"test", "wait"}
    THEN [c EXCEPT !.phase = IF c.Rank # Unknown THEN "loop" ELSE "wait"]
    ELSE c

\* startSession answers a page that leads, and shows it the video the client
\* started with.  The actor may have served BecomeLeader by then or not.
RespondSessionOk ==
    /\ client.phase = "lead"
    /\ client' = TellBrowser([client EXCEPT !.phase = "show"],
                             [type |-> "SessionOk"])
    /\ UNCHANGED <<page, arriving, answers, spent, overtaken>>

ShowFirstVideo ==
    /\ client.phase = "show"
    /\ client' = TellBrowser([client EXCEPT !.phase = "test"],
                   [type  |-> "VideoUpdate",
                    video |-> [Id             |-> DefaultVideo,
                               State          |-> "Unstarted",
                               SecondsElapsed |-> 0]])
    /\ UNCHANGED <<page, arriving, answers, spent, overtaken>>

\* The first test of the rank.
EnterWait ==
    /\ client.phase = "test"
    /\ client' = TestRank(client)
    /\ UNCHANGED <<page, arriving, answers, spent, overtaken>>

ReadMessage ==
    /\ client.phase \in {"start", "wait", "loop"}
    /\ page.sent # <<>>
    /\ LET message == Head(page.sent)
       IN  /\ ~ (/\ message.type = "InvitationResponse"
                 /\ client.phase = "wait"
                 /\ client.invitationReceived)
           /\ client' = CASE client.phase = "start" ->
                               startSession(client, message)
                          [] client.phase = "wait" ->
                               TestRank(waitForInvitation(client, message))
                          [] client.phase = "loop" ->
                               eventLoop(client, message)
    /\ page' = [page EXCEPT !.sent = Tail(@)]
    /\ UNCHANGED <<arriving, answers, spent, overtaken>>

\* waitForInvitation, the answer to an invitation.  It goes to the leader of
\* the last invitation, which knows only the Random of its own, and may not
\* be reached.
InvitationResponse(reached) ==
    /\ client.phase = "wait"
    /\ client.invitationReceived
    /\ page.sent # <<>>
    /\ LET message == Head(page.sent)
           accepts == reached /\ message.Accepted
       IN  /\ message.type = "InvitationResponse"
           /\ accepts => client.setLeader = Nil
           /\ client' = TestRank(
                [client EXCEPT
                   !.setLeader          = IF accepts THEN client.invitation
                                          ELSE @,
                   !.invitationReceived = accepts])
           /\ answers' =
                IF accepts /\ message.Random = client.invitation.Random
                THEN answers \cup {client.invitation} ELSE answers
    /\ page' = [page EXCEPT !.sent = Tail(@)]
    /\ UNCHANGED <<arriving, spent, overtaken>>

\* waitForInvitation, an invitation of a leader.
InvitationArrives(i) ==
    /\ client.phase = "wait"
    /\ i \in arriving
    /\ arriving' = arriving \ {i}
    /\ client' = TestRank(TellBrowser([client EXCEPT
                   !.invitation = i, !.invitationReceived = TRUE],
                   [type |-> "Invitation", invitation |-> i]))
    /\ UNCHANGED <<page, answers, spent, overtaken>>

\* waitForInvitation, the confirmation: the rank is that of the last
\* invitation, until the roster of the leader has been applied.
JoinConfirmation(i, peers) ==
    /\ client.phase = "wait"
    /\ i \in answers
    /\ answers' = answers \ {i}
    /\ client' =
         IF client.invitationReceived /\ client.leader = i
         THEN TestRank([TellBrowser(client, [type    |-> "JoinConfirmation",
                                             Success |-> TRUE]) EXCEPT
                !.Rank         = client.invitation.RankOffered,
                !.updateRoster = Append(@, [mine  |-> i.RankOffered,
                                            peers |-> peers])])
         ELSE TestRank(client)
    /\ UNCHANGED <<page, arriving, spent, overtaken>>

\* The leader refuses: the client tells its page and ends.
JoinRefused(i) ==
    /\ client.phase = "wait"
    /\ i \in answers
    /\ client.invitationReceived /\ client.leader = i
    /\ answers' = answers \ {i}
    /\ client' = Exit(TellBrowser(client, [type    |-> "JoinConfirmation",
                                           Success |-> FALSE]))
    /\ UNCHANGED <<page, arriving, spent, overtaken>>

\* eventLoop, a roster of the leader.
RosterArrives(rank, peers) ==
    /\ client.phase = "loop" /\ client.leader # Nil
    /\ Spend("roster")
    /\ client' = [client EXCEPT !.updateRoster =
                    Append(@, [mine |-> rank, peers |-> peers])]
    /\ UNCHANGED <<page, arriving, answers, overtaken>>

\* The peers of a leader change as members join and leave.
PeersChange(peers) ==
    /\ client.phase = "loop" /\ client.isLeader
    /\ Spend("roster")
    /\ client' = SpawnSyncRoster([client EXCEPT !.peers = peers])
    /\ UNCHANGED <<page, arriving, answers, overtaken>>

\* A video of the leader, or of an Editor if this client leads.
VideoArrives(v) ==
    /\ client.phase = "loop"
    /\ client.isLeader \/ client.leader # Nil
    /\ Spend("update")
    /\ client' = TellBrowser(client, [type |-> "VideoUpdate", video |-> v])
    /\ UNCHANGED <<page, arriving, answers, overtaken>>

\* The leader ends the session: the page is not told.
EndSessionArrives ==
    /\ client.phase = "loop" /\ client.leader # Nil
    /\ client' = Exit(client)
    /\ UNCHANGED <<page, arriving, answers, spent, overtaken>>

-----------------------------------------------------------------------------
(* The actor and the goroutines it starts.                                 *)

\* becomeLeader, asked for by startSession or after an election.
ActorBecomeLeader ==
    /\ Serving
    /\ client.becomeLeader
    /\ client' = SpawnSyncRoster([client EXCEPT
                   !.becomeLeader = FALSE, !.Rank = Director,
                   !.isLeader = TRUE, !.leader = Nil])
    /\ UNCHANGED <<page, arriving, answers, spent, overtaken>>

WinElection ==
    /\ client.phase = "loop" /\ client.leader # Nil
    /\ Spend("roster")
    /\ client' = SpawnSyncRoster([client EXCEPT
                   !.Rank = Director, !.isLeader = TRUE, !.leader = Nil])
    /\ UNCHANGED <<page, arriving, answers, overtaken>>

\* setLeader: a client that leads by now panics.
ActorSetLeader ==
    /\ Serving
    /\ client.setLeader # Nil
    /\ client' = IF client.isLeader THEN Exit(client)
                 ELSE SpawnSyncRoster([client EXCEPT
                        !.leader = client.setLeader, !.setLeader = Nil])
    /\ UNCHANGED <<page, arriving, answers, spent, overtaken>>

\* Mutant of ActorUpdateRoster: the page is not told.
ActorUpdateRoster_NoSync ==
    /\ Serving
    /\ client.updateRoster # <<>>
    /\ client' = [client EXCEPT
                   !.Rank         = Head(client.updateRoster).mine,
                   !.peers        = Head(client.updateRoster).peers,
                   !.updateRoster = Tail(@)]
    /\ UNCHANGED <<page, arriving, answers, spent, overtaken>>

ActorUpdateRoster ==
    /\ Serving
    /\ client.updateRoster # <<>>
    /\ client' = SpawnSyncRoster([client EXCEPT
                   !.Rank         = Head(client.updateRoster).mine,
                   !.peers        = Head(client.updateRoster).peers,
                   !.updateRoster = Tail(@)])
    /\ UNCHANGED <<page, arriving, answers, spent, overtaken>>

\* A sequence without its n-th element.
Without(q, n) == SubSeq(q, 1, n - 1) \o SubSeq(q, n + 1, Len(q))

\* handleRankChangeRequestAsLeader: a goroutine for each request looks for the
\* peer, and asks the actor to change it; the peer may be gone by then.
RankChangeAsLeader(n) ==
    /\ Serving
    /\ n \in DOMAIN client.rankChanges
    /\ LET entry == client.rankChanges[n]
       IN  client' = [client EXCEPT
             !.rankChanges = Without(@, n),
             !.updatePeer  = IF client.peers[entry.Id] = Unknown THEN @
                             ELSE Append(@, entry)]
    /\ UNCHANGED <<page, arriving, answers, spent, overtaken>>

ActorUpdatePeer ==
    /\ Serving
    /\ client.updatePeer # <<>>
    /\ LET entry == Head(client.updatePeer)
       IN  client' = SpawnSyncRoster([client EXCEPT
             !.updatePeer      = Tail(@),
             !.peers[entry.Id] = IF @ = Unknown THEN @ ELSE entry.Rank])
    /\ UNCHANGED <<page, arriving, answers, spent, overtaken>>

\* GetRoster, as the page sees it.
GetRoster(c) ==
    [ mine   |-> c.Rank,
      others |-> {[Id |-> q, Rank |-> c.peers[q]] :
                    q \in {x \in Peer : c.peers[x] # Unknown}} ]

\* SyncRosterWithBrowser asks for the roster and then sends it.  Two of them
\* may send in another order than they asked in.
SyncReads ==
    /\ Serving
    /\ client.syncs > 0
    /\ client' = [client EXCEPT !.syncs   = @ - 1,
                                !.rosters = Append(@, GetRoster(client))]
    /\ UNCHANGED <<page, arriving, answers, spent, overtaken>>

SyncSends(n) ==
    /\ Serving
    /\ n \in DOMAIN client.rosters
    /\ client' = TellBrowser([client EXCEPT !.rosters = Without(@, n)],
                   [type |-> "RosterUpdate", roster |-> client.rosters[n]])
    /\ overtaken' = (overtaken \/ n # 1)
    /\ UNCHANGED <<page, arriving, answers, spent>>

-----------------------------------------------------------------------------
(* How the client loses its page.                                          *)

\* The reader of the socket fails when it has read what the page has sent,
\* which may still wait in the input channel (it holds 91 messages).
ReaderFails ==
    /\ Serving
    /\ page.socket = "closed"
    /\ ~client.closed
    /\ client' = [client EXCEPT !.closed = TRUE]
    /\ UNCHANGED <<page, arriving, answers, spent, overtaken>>

\* Mutant of BrowserTimeout: the event loop does not look at the timer.
BrowserTimeout_NotInLoop ==
    /\ client.phase \in {"start", "wait"}
    /\ client' = Exit(client)
    /\ UNCHANGED <<page, arriving, answers, spent, overtaken>>

\* BrowserTimeout elapses: no Heartbeat for ten seconds.
BrowserTimeout ==
    /\ client.phase \in {"start", "wait", "loop"}
    /\ client' = Exit(client)
    /\ UNCHANGED <<page, arriving, answers, spent, overtaken>>

\* What a dead client had not written is lost.
LoseUnsent ==
    /\ client.phase = "dead" /\ client.toBrowser # <<>>
    /\ client' = [client EXCEPT !.toBrowser = <<>>]
    /\ UNCHANGED <<page, arriving, answers, spent, overtaken>>

-----------------------------------------------------------------------------
(* The page.                                                               *)

PageStep(p) ==
    /\ page' = p
    /\ UNCHANGED <<client, arriving, answers, overtaken>>

PageReceives ==
    /\ page.socket \in {"connecting", "open"}
    /\ client.toBrowser # <<>>
    /\ page' = onmessage(page, Head(client.toBrowser))
    /\ client' = [client EXCEPT !.toBrowser = Tail(@)]
    /\ UNCHANGED <<arriving, answers, spent, overtaken>>

PageHeartbeat ==
    /\ page.heartbeat
    /\ Spend("beat")
    /\ PageStep(SendHeartbeat(page))

\* No HeartbeatAck for ten seconds: the client is dead, or it stalls.
PageTimeout ==
    /\ page.timeout
    /\ \/ client.phase = "dead" /\ UNCHANGED spent
       \/ client.phase # "dead" /\ Spend("stall")
    /\ PageStep(onClientTimeout(page))

SocketError ==
    /\ page.socket = "open"
    /\ client.phase = "dead" /\ client.toBrowser = <<>>
    /\ PageStep(onerror(page)) /\ UNCHANGED spent

\* The window is closed, and its timers are gone with it.
ClosePage ==
    /\ page.socket \in {"open", "closed"}
    /\ PageStep([NewPage EXCEPT !.socket = "closed", !.sent = page.sent])
    /\ UNCHANGED spent

PlayerReady ==
    /\ page.player # Nil /\ ~page.ytplayer
    /\ PageStep(onYouTubePlayerReady(page)) /\ UNCHANGED spent

EchoUnblocks ==
    /\ page.unblocks > 0
    /\ PageStep(Unblock(page)) /\ UNCHANGED spent

\* A user who has been told that the connection is lost does nothing more.
Connected == page.socket = "open"

\* #new_session_button, #join_session_button.  The dialog stays until the
\* client has answered.
ChooseSession(leader) ==
    /\ Connected
    /\ "session_type" \in page.dialogs
    /\ Spend("choice")
    /\ PageStep(startNewSession(page, leader))

\* #accept_invitation_button, #reject_invitation_button.
AnswerInvitation(accept) ==
    /\ Connected
    /\ "invitation_response" \in page.dialogs
    /\ PageStep(respondToInvitation(page, accept)) /\ UNCHANGED spent

\* #invite_button and #invitation_dialog_cancel_button.
OpenInvitation ==
    /\ Connected
    /\ page.myRank >= Director
    /\ spent["title"] < Max["title"]
    /\ "invitation" \notin page.dialogs
    /\ PageStep(Show(page, "invitation")) /\ UNCHANGED spent

CancelInvitation ==
    /\ Connected
    /\ "invitation" \in page.dialogs
    /\ PageStep(Hide(page, "invitation")) /\ UNCHANGED spent

SubmitInvitation ==
    /\ Connected
    /\ "invitation" \in page.dialogs
    /\ Spend("title")
    /\ PageStep(sendInvitation(page))

ReceiveTitle ==
    /\ page.titles > 0
    /\ PageStep(TitleArrives(page)) /\ UNCHANGED spent

ClickPeer(q) ==
    /\ Connected
    /\ \E entry \in page.peerlist : entry.Id = q
    /\ Spend("click")
    /\ PageStep(showPeerInfoWindow(page, q))

\* #peer_info_dialog_close_button.
ClosePeerInfo ==
    /\ Connected
    /\ "peer_info" \in page.dialogs
    /\ PageStep(Hide(page, "peer_info")) /\ UNCHANGED spent

SubmitRankChange(rank) ==
    /\ Connected
    /\ "peer_info" \in page.dialogs /\ page.myRank >= Director
    /\ Spend("submit")
    /\ PageStep(submitRankChange(page, rank))

\* #end_session_button.
EndSession ==
    /\ Connected
    /\ page.myRank >= Director
    /\ Spend("end")
    /\ PageStep(endSession(page))

-----------------------------------------------------------------------------
ClientNext ==
    \/ ConnectToBrowser \/ BrowserConnectionTimeout \/ RefuseBrowser
    \/ ReadMessage \/ RespondSessionOk \/ ShowFirstVideo \/ EnterWait
    \/ \E reached \in BOOLEAN : InvitationResponse(reached)
    \/ ActorBecomeLeader \/ ActorSetLeader
    \/ ActorUpdateRoster \/ ActorUpdatePeer
    \/ \E n \in DOMAIN client.rankChanges : RankChangeAsLeader(n)
    \/ SyncReads \/ \E n \in DOMAIN client.rosters : SyncSends(n)
    \/ ReaderFails \/ BrowserTimeout \/ LoseUnsent

EnvironmentNext ==
    \/ \E i \in Offers :
         \/ InvitationArrives(i)
         \/ \E peers \in PeerSets : JoinConfirmation(i, peers)
         \/ JoinRefused(i)
    \/ \E peers \in PeerSets :
         \/ \E rank \in Ranks : RosterArrives(rank, peers)
         \/ PeersChange(peers)
    \/ \E v \in Updates : VideoArrives(v)
    \/ EndSessionArrives \/ WinElection

PageNext ==
    \/ PageReceives \/ PageHeartbeat \/ PageTimeout \/ SocketError
    \/ PlayerReady \/ EchoUnblocks \/ ReceiveTitle

UserNext ==
    \/ \E leader \in BOOLEAN : ChooseSession(leader)
    \/ \E accept \in BOOLEAN : AnswerInvitation(accept)
    \/ OpenInvitation \/ CancelInvitation \/ SubmitInvitation
    \/ \E q \in Peer : ClickPeer(q)
    \/ ClosePeerInfo \/ \E rank \in Ranks : SubmitRankChange(rank)
    \/ EndSession \/ ClosePage

Next == ClientNext \/ EnvironmentNext \/ PageNext \/ UserNext

\* The two sides keep reading, and a timer that nothing restarts elapses.
Fairness ==
    /\ WF_vars(ReadMessage \/ RespondSessionOk \/ ShowFirstVideo \/ EnterWait
                 \/ \E reached \in BOOLEAN : InvitationResponse(reached))
    /\ WF_vars(ActorSetLeader)
    /\ WF_vars(PageReceives)
    /\ WF_vars(client.phase = "dead" /\ PageTimeout)
    /\ WF_vars(page.socket = "closed" /\ page.sent = <<>> /\ BrowserTimeout)

Spec == Init /\ [][Next]_vars /\ Fairness

-----------------------------------------------------------------------------
(* Properties.                                                             *)

\* Exactly one interval reports the player when it is ready and the user may
\* edit, none otherwise, and the script holds its handle: whatever the order
\* in which the player gets ready, ranks come and go and the client is lost
\* (wetube.ts 80-82, 150-157).
OneVideoHeartbeat == OneInterval(page)

\* Nothing is under way that would still change the rank of either side.
RankSettled ==
    /\ page.socket = "open"
    /\ Serving
    /\ client.toBrowser = <<>>
    /\ \A n \in DOMAIN page.sent : page.sent[n].type # "SessionInit"
    /\ ~client.becomeLeader /\ client.updateRoster = <<>>
    /\ client.syncs = 0 /\ client.rosters = <<>>

\* The page and its client agree on the rank once nothing is under way, for a
\* user who chose a session once and if rosters were sent in the order in
\* which they were read: through both ways into a session, second
\* invitations, changes of rank and elections (wetube.ts 287-290, 360-363;
\* run.go 215-217, client.go 164-167).
RankAgrees ==
    RankSettled /\ ~overtaken /\ spent["choice"] <= 1 =>
        page.myRank = client.Rank

\* The form "Change Rank" of the dialog "Peer Information" (index.html
\* 111-125) is about the peer that the dialog shows.
OnlyShownPeer ==
    [][\A rank \in Ranks : SubmitRankChange(rank) =>
         \A n \in DOMAIN page'.sent \ DOMAIN page.sent :
             page'.sent[n].PeerId = page.info]_vars

\* A page notices that its client has ended, and stops its heartbeat
\* (wetube.ts 225-229, 306-309, 405-409).
ClientLossNoticed ==
    client.phase = "dead" /\ page.heartbeat ~> ~page.heartbeat

\* A client notices that its page has gone, and ends: in every phase, and
\* with whatever messages on their way (run.go 70-72, 130-132, 242-244;
\* websockets.go 61-67).
PageLossNoticed ==
    page.socket = "closed" /\ Serving ~> client.phase = "dead"
=============================================================================
