----------------------------- MODULE BrowserProofs -----------------------------
(***************************************************************************)
(* A client and its page stay well formed, whatever the user, the other    *)
(* members and the timers do and in whatever order: the page has exactly   *)
(* the interval it should have, and nothing but the messages that the      *)
(* script knows reaches it.                                                *)
(***************************************************************************)
EXTENDS Browser, PageProofs

-----------------------------------------------------------------------------
(* The operations of the client.                                           *)

\* What every operation of the client keeps true: its state is typed, it has a
\* rank when it is in the event loop, and an invitation that it may answer is
\* one that has arrived.
ClientOK(c) ==
    /\ c \in Clients
    /\ c.phase = "loop" => c.Rank \in Ranks
    /\ c.invitationReceived => c.invitation \in Offers

\* A client without a page, or one that has ended.
LEMMA NewClientOK ==
    ASSUME NEW phase \in {"connect", "taken", "dead"}
    PROVE  ClientOK(NewClient(phase))
<1>1. [q \in Peer |-> Unknown] \in PeerRanks
  BY DEF PeerRanks, AllRanks
<1>2. /\ <<>> \in Seq(ClientRosters) /\ <<>> \in Seq(Rosters)
      /\ <<>> \in Seq([Id : Peer, Rank : Ranks]) /\ <<>> \in Seq(ToPage)
  OBVIOUS
<1>3. Unknown \in AllRanks /\ 0 \in Nat
  BY DEF AllRanks
<1>4. NewClient(phase) \in Clients
  BY <1>1, <1>2, <1>3 DEF NewClient, Clients
<1>5. /\ ~NewClient(phase).invitationReceived
      /\ NewClient(phase).phase # "loop"
  BY DEF NewClient
<1> QED BY <1>4, <1>5 DEF ClientOK

\* The process ends.
LEMMA ExitOK ==
    ASSUME NEW c, ClientOK(c)
    PROVE  ClientOK(Exit(c))
<1> DEFINE new == NewClient("dead")
           q == [new EXCEPT !.toBrowser = c.toBrowser]
<1>1. ClientOK(new)
  BY NewClientOK
<1>2. Exit(c) = q
  BY DEF Exit
<1>3. /\ c.toBrowser \in Seq(ToPage) /\ ~new.invitationReceived
      /\ new.phase # "loop"
  BY DEF ClientOK, Clients, NewClient
<1> HIDE DEF new
<1>4. /\ q \in Clients /\ q.invitationReceived = new.invitationReceived
 /\ q.phase = new.phase /\ q.Rank = new.Rank
      /\ q.phase = new.phase
  BY <1>1, <1>3 DEF ClientOK, Clients
<1> HIDE DEF q
<1> QED BY <1>2, <1>3, <1>4 DEF ClientOK

\* client.ToBrowser <- message: the message is queued, or the client panics.
LEMMA TellOK ==
    ASSUME NEW c, ClientOK(c), NEW message \in ToPage
    PROVE  ClientOK(TellBrowser(c, message))
<1> DEFINE q == [c EXCEPT !.toBrowser = Append(@, message)]
<1>1. Append(c.toBrowser, message) \in Seq(ToPage) /\ c \in Clients
  BY DEF ClientOK, Clients
<1>2. /\ q \in Clients /\ q.invitation = c.invitation
      /\ q.invitationReceived = c.invitationReceived
      /\ q.phase = c.phase /\ q.Rank = c.Rank
  BY <1>1 DEF Clients
<1>3. TellBrowser(c, message) \in {Exit(c), q}
  BY DEF TellBrowser
<1> HIDE DEF q
<1>4. ClientOK(q)
  BY <1>2 DEF ClientOK
<1> QED BY <1>3, <1>4, ExitOK

\* The messages without content.
LEMMA TellsOK ==
    ASSUME NEW c, ClientOK(c)
    PROVE  ClientOK(RespondWithError(c)) /\ ClientOK(handleHeartbeat(c))
<1>1. [type |-> "Error"] \in ToPage /\ [type |-> "HeartbeatAck"] \in ToPage
  BY DEF ToPage
<1> QED BY <1>1, TellOK DEF RespondWithError, handleHeartbeat

\* A goroutine is started that will send the roster.
LEMMA SpawnOK ==
    ASSUME NEW c, ClientOK(c)
    PROVE  ClientOK(SpawnSyncRoster(c))
<1> DEFINE q == [c EXCEPT !.syncs = @ + 1]
<1>1. c.syncs + 1 \in Nat /\ c \in Clients
  BY DEF ClientOK, Clients
<1>2. /\ q \in Clients /\ q.invitation = c.invitation
      /\ q.invitationReceived = c.invitationReceived
      /\ q.phase = c.phase /\ q.Rank = c.Rank
  BY <1>1 DEF Clients
<1> HIDE DEF q
<1>3. ClientOK(q)
  BY <1>2 DEF ClientOK
<1> QED BY <1>3 DEF SpawnSyncRoster, q

\* The client enters another phase, the event loop only with a rank.
LEMMA PhaseOK ==
    ASSUME NEW c, ClientOK(c),
           NEW phase \in {"start", "lead", "show", "test", "wait", "loop"},
           phase = "loop" => c.Rank \in Ranks
    PROVE  ClientOK([c EXCEPT !.phase = phase])
<1> DEFINE q == [c EXCEPT !.phase = phase]
<1>1. /\ q \in Clients /\ q.invitation = c.invitation
      /\ q.invitationReceived = c.invitationReceived
      /\ q.phase = phase /\ q.Rank = c.Rank
  BY DEF ClientOK, Clients
<1> HIDE DEF q
<1>2. ClientOK(q)
  BY <1>1 DEF ClientOK
<1> QED BY <1>2 DEF q

\* waitForInvitation tests the rank.
LEMMA TestRankOK ==
    ASSUME NEW c, ClientOK(c)
    PROVE  ClientOK(TestRank(c))
<1>1. \/ TestRank(c) \in {c, [c EXCEPT !.phase = "wait"]}
      \/ c.Rank # Unknown /\ TestRank(c) = [c EXCEPT !.phase = "loop"]
  BY DEF TestRank
<1>2. c.Rank # Unknown => c.Rank \in Ranks
  BY DEF ClientOK, Clients, AllRanks
<1> QED BY <1>1, <1>2, PhaseOK

\* startSession: who leads asks the actor for it, who joins is answered.
LEMMA StartOK ==
    ASSUME NEW c, ClientOK(c), NEW message \in ToClient
    PROVE  ClientOK(startSession(c, message))
<1>1. CASE message.type = "SessionInit"
  <2> DEFINE q == [c EXCEPT !.phase = "lead", !.becomeLeader = TRUE]
             r == [c EXCEPT !.phase = "test"]
  <2>1. /\ q \in Clients /\ q.invitation = c.invitation
        /\ q.invitationReceived = c.invitationReceived /\ q.phase = "lead"
    BY DEF ClientOK, Clients
  <2>2. ClientOK(r) /\ [type |-> "SessionOk"] \in ToPage
    BY PhaseOK DEF ToPage
  <2>3. startSession(c, message)
          \in {q, TellBrowser(r, [type |-> "SessionOk"])}
    BY <1>1 DEF startSession, sessionInit
  <2> HIDE DEF q, r
  <2>4. ClientOK(q)
    BY <2>1 DEF ClientOK
  <2> QED BY <2>2, <2>3, <2>4, TellOK
<1>2. CASE message.type # "SessionInit"
  BY <1>2, TellsOK DEF startSession
<1> QED BY <1>1, <1>2

\* waitForInvitation and eventLoop with a message of the page.
LEMMA LoopOK ==
    ASSUME NEW c, ClientOK(c), NEW message \in ToClient
    PROVE  /\ ClientOK(TestRank(waitForInvitation(c, message)))
           /\ ClientOK(eventLoop(c, message))
<1>1. ClientOK(TestRank(waitForInvitation(c, message)))
  <2>1. waitForInvitation(c, message)
          \in {handleHeartbeat(c), c, RespondWithError(c)}
    BY DEF waitForInvitation
  <2> QED BY <2>1, TellsOK, TestRankOK
<1>2. CASE message.type = "RankChangeRequest"
  <2> DEFINE entry == [Id |-> message.PeerId, Rank |-> message.NewRank]
             q == [c EXCEPT !.rankChanges = Append(@, entry)]
  <2>1. entry \in [Id : Peer, Rank : Ranks]
    BY <1>2 DEF ToClient
  <2>2. eventLoop(c, message) \in {q, c}
    BY <1>2 DEF eventLoop
  <2> HIDE DEF entry
  <2>3. /\ Append(c.rankChanges, entry) \in Seq([Id : Peer, Rank : Ranks])
        /\ c \in Clients
    BY <2>1 DEF ClientOK, Clients
  <2>4. /\ q \in Clients /\ q.invitation = c.invitation
        /\ q.invitationReceived = c.invitationReceived
        /\ q.phase = c.phase /\ q.Rank = c.Rank
    BY <2>3 DEF Clients
  <2> HIDE DEF q
  <2> QED BY <1>1, <2>2, <2>4 DEF ClientOK
<1>3. CASE message.type # "RankChangeRequest"
  <2>1. eventLoop(c, message)
          \in {handleHeartbeat(c), c, Exit(c), RespondWithError(c)}
    BY <1>3 DEF eventLoop
  <2> QED BY <1>1, <2>1, TellsOK, ExitOK
<1> QED BY <1>2, <1>3

\* A roster as the page sees it.
LEMMA RosterOK ==
    ASSUME NEW c, ClientOK(c)
    PROVE  GetRoster(c) \in Rosters
  BY DEF GetRoster, ClientOK, Clients, PeerRanks, Rosters, AllRanks, Unknown

\* A sequence without one of its elements.
LEMMA WithoutOK ==
    ASSUME NEW S, NEW q \in Seq(S), NEW n \in DOMAIN q
    PROVE  Without(q, n) \in Seq(S)
<1>1. n \in 1..Len(q)
  OBVIOUS
<1> QED BY <1>1 DEF Without

-----------------------------------------------------------------------------
(* The inductive invariant.                                                *)

\* The invitations under way, and what the bounds count.
Environment ==
    /\ arriving \subseteq Offers /\ answers \subseteq Offers
    /\ spent \in [Kinds -> Nat] /\ \A k \in Kinds : spent[k] \in 0..Max[k]
    /\ overtaken \in BOOLEAN

IInv == Good(page) /\ ClientOK(client) /\ Environment

\* The page is loaded and the client waits for it, or has another.
LEMMA InitInv == Init => IInv
<1> SUFFICES ASSUME Init PROVE IInv
  OBVIOUS
<1>1. Good(page)
  BY GoodNewPage DEF Init
<1>2. ClientOK(client)
  BY NewClientOK DEF Init
<1>3. \A k \in Kinds : 0 \in 0..Max[k]
  BY BrowserAssumption
<1>4. spent = [k \in Kinds |-> 0]
  BY DEF Init
<1>5. arriving = Offers /\ answers = {} /\ overtaken = FALSE
  BY DEF Init
<1> QED BY <1>1, <1>2, <1>3, <1>4, <1>5 DEF IInv, Environment

\* Something that happens a bounded number of times.
LEMMA SpendInv ==
    ASSUME IInv, NEW kind \in Kinds, Spend(kind),
           UNCHANGED <<arriving, answers, overtaken>>
    PROVE  Environment'
<1>1. Max[kind] \in Nat /\ spent[kind] \in Nat /\ spent \in [Kinds -> Nat]
  BY BrowserAssumption DEF IInv, Environment
<1>2. spent[kind] + 1 \in 0..Max[kind]
  BY <1>1 DEF Spend
<1>3. spent' \in [Kinds -> Nat] /\ \A k \in Kinds : spent'[k] \in 0..Max[k]
  BY <1>1, <1>2 DEF Spend, IInv, Environment
<1> QED BY <1>3 DEF IInv, Environment

\* A step of the client alone.
LEMMA ClientStepInv ==
    ASSUME IInv, ClientOK(client'),
           UNCHANGED <<page, arriving, answers, spent>>,
           overtaken' \in BOOLEAN
    PROVE  IInv'
  BY DEF IInv, Environment

\* An invitation is answered or a confirmation arrives: what an operation
\* that sets the fields of the client keeps.
LEMMA FieldsOK ==
    ASSUME NEW c, ClientOK(c), NEW d \in Clients,
           d.invitation = c.invitation,
           d.invitationReceived => c.invitationReceived,
           d.Rank \in Ranks \/ (d.phase = c.phase /\ d.Rank = c.Rank)
    PROVE  ClientOK(d)
  BY DEF ClientOK

\* connectToBrowser, the first test of waitForInvitation, and how a client
\* ends (run.go 65-100, 160-165).
LEMMA PhasesInv ==
    ASSUME IInv,
           \/ ConnectToBrowser \/ BrowserConnectionTimeout \/ RefuseBrowser
           \/ RespondSessionOk \/ ShowFirstVideo \/ EnterWait
           \/ BrowserTimeout \/ LoseUnsent \/ ReaderFails
    PROVE  IInv'
<1>0. ClientOK(client) /\ overtaken \in BOOLEAN
  BY DEF IInv, Environment
<1>1. \A b \in BOOLEAN :
        [type |-> "BrowserConnectAck", Success |-> b] \in ToPage
  BY DEF ToPage
<1>2. CASE ConnectToBrowser
  <2>1. ClientOK([client EXCEPT !.phase = "start"])
    BY <1>0, PhaseOK
  <2>2. ClientOK(client')
    BY <1>1, <1>2, <2>1, TellOK DEF ConnectToBrowser
  <2> QED BY <1>0, <1>2, <2>2, ClientStepInv DEF ConnectToBrowser
<1>3. CASE BrowserConnectionTimeout
  BY <1>0, <1>3, ExitOK, ClientStepInv DEF BrowserConnectionTimeout
<1>4. CASE RefuseBrowser
  <2>1. ClientOK(client')
    BY <1>0, <1>1, <1>4, TellOK DEF RefuseBrowser
  <2> QED BY <1>0, <1>4, <2>1, ClientStepInv DEF RefuseBrowser
<1>5. CASE EnterWait
  BY <1>0, <1>5, TestRankOK, ClientStepInv DEF EnterWait
<1>6. CASE BrowserTimeout
  BY <1>0, <1>6, ExitOK, ClientStepInv DEF BrowserTimeout
<1>7. CASE LoseUnsent
  <2> DEFINE d == [client EXCEPT !.toBrowser = <<>>]
  <2>0. <<>> \in Seq(ToPage)
    OBVIOUS
  <2>1. /\ d \in Clients /\ d.invitation = client.invitation
        /\ d.invitationReceived = client.invitationReceived
        /\ d.phase = client.phase /\ d.Rank = client.Rank
    BY <1>0, <2>0 DEF ClientOK, Clients
  <2>2. client' = d
    BY <1>7 DEF LoseUnsent
  <2> HIDE DEF d
  <2> QED BY <1>0, <1>7, <2>1, <2>2, FieldsOK, ClientStepInv DEF LoseUnsent
<1>8. CASE ReaderFails
  <2> DEFINE d == [client EXCEPT !.closed = TRUE]
  <2>1. /\ d \in Clients /\ d.invitation = client.invitation
        /\ d.invitationReceived = client.invitationReceived
        /\ d.phase = client.phase /\ d.Rank = client.Rank
    BY <1>0 DEF ClientOK, Clients
  <2>2. client' = d
    BY <1>8 DEF ReaderFails
  <2> HIDE DEF d
  <2> QED BY <1>0, <1>8, <2>1, <2>2, FieldsOK, ClientStepInv DEF ReaderFails
<1>9. CASE RespondSessionOk
  <2>1. /\ ClientOK([client EXCEPT !.phase = "show"])
        /\ [type |-> "SessionOk"] \in ToPage
    BY <1>0, PhaseOK DEF ToPage
  <2>2. ClientOK(client')
    BY <1>9, <2>1, TellOK DEF RespondSessionOk
  <2> QED BY <1>0, <1>9, <2>2, ClientStepInv DEF RespondSessionOk
<1>10. CASE ShowFirstVideo
  <2> DEFINE v == [Id |-> DefaultVideo, State |-> "Unstarted",
                   SecondsElapsed |-> 0]
  <2>1. v \in VideoInstants
    BY PageAssumption DEF VideoInstants, VideoStates
  <2>2. client' = TellBrowser([client EXCEPT !.phase = "test"],
                              [type |-> "VideoUpdate", video |-> v])
    BY <1>10 DEF ShowFirstVideo
  <2> HIDE DEF v
  <2>3. /\ ClientOK([client EXCEPT !.phase = "test"])
        /\ [type |-> "VideoUpdate", video |-> v] \in ToPage
    BY <1>0, <2>1, PhaseOK DEF ToPage
  <2>4. ClientOK(client')
    BY <2>2, <2>3, TellOK
  <2> QED BY <1>0, <1>10, <2>4, ClientStepInv DEF ShowFirstVideo
<1> QED BY <1>2, <1>3, <1>4, <1>5, <1>6, <1>7, <1>8, <1>9, <1>10

\* A message of the page, in the three loops that read them.
LEMMA ReadMessageInv ==
    ASSUME IInv, ReadMessage
    PROVE  IInv'
<1> DEFINE message == Head(page.sent)
           p == [page EXCEPT !.sent = Tail(@)]
<1>1. Good(p) /\ message \in ToClient /\ ClientOK(client)
  BY GoodRead DEF IInv, ReadMessage
<1>2. page' = p
  BY DEF ReadMessage
<1>3. client' \in {startSession(client, message), eventLoop(client, message),
                   TestRank(waitForInvitation(client, message))}
  BY DEF ReadMessage
<1> HIDE DEF message, p
<1>4. ClientOK(client')
  BY <1>1, <1>3, StartOK, LoopOK
<1> QED BY <1>1, <1>2, <1>4 DEF IInv, Environment, ReadMessage

\* The answer to an invitation goes to the sender of one that has arrived.
LEMMA ResponseInv ==
    ASSUME IInv, NEW reached \in BOOLEAN, InvitationResponse(reached)
    PROVE  IInv'
<1> DEFINE message == Head(page.sent)
           p == [page EXCEPT !.sent = Tail(@)]
           accepts == reached /\ message.Accepted
           to == IF accepts THEN client.invitation ELSE client.setLeader
           d == [client EXCEPT !.setLeader = to,
                               !.invitationReceived = accepts]
<1>1. Good(p) /\ message \in ToClient /\ ClientOK(client)
  BY GoodRead DEF IInv, InvitationResponse
<1>2. message.type = "InvitationResponse" /\ client.invitationReceived
  BY DEF InvitationResponse
<1>3. message.Accepted \in BOOLEAN
  BY <1>1, <1>2 DEF ToClient
<1>4. accepts \in BOOLEAN
  BY <1>3
<1>5. client.invitation \in Offers
  BY <1>1, <1>2 DEF ClientOK
<1>6. to \in Invitations \cup {Nil}
  BY <1>1 DEF ClientOK, Clients
<1>7. page' = p /\ client' = TestRank(d)
  BY DEF InvitationResponse
<1>8. answers' \in {answers, answers \cup {client.invitation}}
  BY DEF InvitationResponse
<1> HIDE DEF message, p, accepts, to
<1>9. /\ d \in Clients /\ d.invitation = client.invitation
      /\ d.invitationReceived = accepts
      /\ d.phase = client.phase /\ d.Rank = client.Rank
  BY <1>1, <1>4, <1>6 DEF ClientOK, Clients
<1> HIDE DEF d
<1>10. ClientOK(client')
  BY <1>1, <1>2, <1>7, <1>9, FieldsOK, TestRankOK
<1>11. Environment'
  BY <1>5, <1>8 DEF IInv, Environment, InvitationResponse
<1> QED BY <1>1, <1>7, <1>10, <1>11 DEF IInv

\* The invitations, confirmations and refusals of leaders.
LEMMA InvitationInv ==
    ASSUME IInv, NEW i \in Offers,
           \/ InvitationArrives(i) \/ JoinRefused(i)
           \/ \E peers \in PeerSets : JoinConfirmation(i, peers)
    PROVE  IInv'
<1>0. ClientOK(client) /\ i \in Invitations /\ i.RankOffered \in Ranks
  BY BrowserAssumption DEF IInv, Invitations
<1>1. CASE InvitationArrives(i)
  <2> DEFINE d == [client EXCEPT !.invitation = i,
                                 !.invitationReceived = TRUE]
             message == [type |-> "Invitation", invitation |-> i]
  <2>1. /\ d \in Clients /\ d.invitation = i
        /\ d.phase = client.phase /\ d.Rank = client.Rank
    BY <1>0 DEF ClientOK, Clients
  <2>2. message \in ToPage
    BY <1>0 DEF ToPage
  <2>3. client' = TestRank(TellBrowser(d, message))
    BY <1>1 DEF InvitationArrives
  <2> HIDE DEF d, message
  <2>4. ClientOK(client')
    BY <1>0, <2>1, <2>2, <2>3, TellOK, TestRankOK DEF ClientOK
  <2> QED BY <1>1, <2>4 DEF InvitationArrives, IInv, Environment
<1>2. CASE JoinRefused(i)
  <2> DEFINE message == [type |-> "JoinConfirmation", Success |-> FALSE]
  <2>1. message \in ToPage
    BY DEF ToPage
  <2>2. client' = Exit(TellBrowser(client, message))
    BY <1>2 DEF JoinRefused
  <2> HIDE DEF message
  <2>3. ClientOK(client')
    BY <1>0, <2>1, <2>2, TellOK, ExitOK
  <2> QED BY <1>2, <2>3 DEF JoinRefused, IInv, Environment
<1>3. ASSUME NEW peers \in PeerSets, JoinConfirmation(i, peers)
      PROVE  IInv'
  <2> DEFINE message == [type |-> "JoinConfirmation", Success |-> TRUE]
             roster == [mine |-> i.RankOffered, peers |-> peers]
             c == TellBrowser(client, message)
             d == [c EXCEPT !.Rank = client.invitation.RankOffered,
                            !.updateRoster = Append(@, roster)]
  <2>1. message \in ToPage /\ roster \in ClientRosters
    BY <1>0, BrowserAssumption DEF ToPage, ClientRosters
  <2>2. client' = IF client.invitationReceived /\ client.leader = i
                  THEN TestRank(d) ELSE TestRank(client)
    BY <1>3 DEF JoinConfirmation
  <2> HIDE DEF message, roster
  <2>3. ClientOK(c)
    BY <1>0, <2>1, TellOK
  <2> HIDE DEF c
  <2>4. CASE client.invitationReceived /\ client.leader = i
    <3>1. /\ client.invitation.RankOffered \in Ranks
          /\ client.invitation.RankOffered \in AllRanks
      BY <1>0, <2>4, BrowserAssumption DEF ClientOK, Invitations, AllRanks
    <3>2. Append(c.updateRoster, roster) \in Seq(ClientRosters)
      BY <2>1, <2>3 DEF ClientOK, Clients
    <3>3. /\ d \in Clients /\ d.invitation = c.invitation
          /\ d.invitationReceived = c.invitationReceived
          /\ d.Rank \in Ranks
      BY <2>3, <3>1, <3>2 DEF ClientOK, Clients
    <3> HIDE DEF d
    <3>4. ClientOK(client')
      BY <2>2, <2>3, <2>4, <3>3, FieldsOK, TestRankOK
    <3> QED BY <1>3, <3>4 DEF JoinConfirmation, IInv, Environment
  <2>5. CASE ~(client.invitationReceived /\ client.leader = i)
    <3>1. ClientOK(client')
      BY <1>0, <2>2, <2>5, TestRankOK
    <3> QED BY <1>3, <3>1 DEF JoinConfirmation, IInv, Environment
  <2> QED BY <2>4, <2>5
<1> QED BY <1>1, <1>2, <1>3

\* What the rest of the session does to a member, or to its leader.
LEMMA SessionInv ==
    ASSUME IInv,
           \/ \E peers \in PeerSets :
                \/ \E rank \in Ranks : RosterArrives(rank, peers)
                \/ PeersChange(peers)
           \/ \E v \in Updates : VideoArrives(v)
           \/ EndSessionArrives \/ WinElection
    PROVE  IInv'
<1>0. ClientOK(client) /\ {"roster", "update"} \subseteq Kinds
  BY DEF IInv, Kinds
<1>1. ASSUME NEW peers \in PeerSets, NEW rank \in Ranks,
             RosterArrives(rank, peers)
      PROVE  IInv'
  <2> DEFINE roster == [mine |-> rank, peers |-> peers]
             d == [client EXCEPT !.updateRoster = Append(@, roster)]
  <2>1. roster \in ClientRosters
    BY BrowserAssumption DEF ClientRosters
  <2>2. client' = d
    BY <1>1 DEF RosterArrives
  <2> HIDE DEF roster
  <2>3. Append(client.updateRoster, roster) \in Seq(ClientRosters)
    BY <1>0, <2>1 DEF ClientOK, Clients
  <2>4. /\ d \in Clients /\ d.invitation = client.invitation
        /\ d.invitationReceived = client.invitationReceived
        /\ d.phase = client.phase /\ d.Rank = client.Rank
    BY <1>0, <2>3 DEF ClientOK, Clients
  <2> HIDE DEF d
  <2>5. ClientOK(client') /\ Environment'
    BY <1>0, <1>1, <2>2, <2>4, FieldsOK, SpendInv DEF RosterArrives
  <2> QED BY <1>1, <2>5 DEF RosterArrives, IInv
<1>2. ASSUME NEW peers \in PeerSets, PeersChange(peers)
      PROVE  IInv'
  <2> DEFINE d == [client EXCEPT !.peers = peers]
  <2>1. /\ d \in Clients /\ d.invitation = client.invitation
        /\ d.invitationReceived = client.invitationReceived
        /\ d.phase = client.phase /\ d.Rank = client.Rank
    BY <1>0, BrowserAssumption DEF ClientOK, Clients
  <2>2. client' = SpawnSyncRoster(d)
    BY <1>2 DEF PeersChange
  <2> HIDE DEF d
  <2>3. ClientOK(client') /\ Environment'
    BY <1>0, <1>2, <2>1, <2>2, FieldsOK, SpawnOK, SpendInv DEF PeersChange
  <2> QED BY <1>2, <2>3 DEF PeersChange, IInv
<1>3. ASSUME NEW v \in Updates, VideoArrives(v)
      PROVE  IInv'
  <2>1. [type |-> "VideoUpdate", video |-> v] \in ToPage
    BY BrowserAssumption DEF ToPage
  <2>2. ClientOK(client') /\ Environment'
    BY <1>0, <1>3, <2>1, TellOK, SpendInv DEF VideoArrives
  <2> QED BY <1>3, <2>2 DEF VideoArrives, IInv
<1>4. CASE EndSessionArrives
  BY <1>0, <1>4, ExitOK DEF EndSessionArrives, IInv, Environment
<1>5. CASE WinElection
  <2> DEFINE d == [client EXCEPT !.Rank = Director, !.isLeader = TRUE,
                                 !.leader = Nil]
  <2>1. Director \in AllRanks /\ Director \in Ranks
    BY DEF AllRanks, Ranks
  <2>2. /\ d \in Clients /\ d.invitation = client.invitation
        /\ d.invitationReceived = client.invitationReceived
        /\ d.Rank \in Ranks
    BY <1>0, <2>1 DEF ClientOK, Clients
  <2>3. client' = SpawnSyncRoster(d)
    BY <1>5 DEF WinElection
  <2> HIDE DEF d
  <2>4. ClientOK(client') /\ Environment'
    BY <1>0, <1>5, <2>2, <2>3, FieldsOK, SpawnOK, SpendInv DEF WinElection
  <2> QED BY <1>5, <2>4 DEF WinElection, IInv
<1> QED BY <1>1, <1>2, <1>3, <1>4, <1>5

\* The cases of the actor's select.
LEMMA ActorInv ==
    ASSUME IInv,
           \/ ActorBecomeLeader \/ ActorSetLeader
           \/ ActorUpdateRoster \/ ActorUpdatePeer
    PROVE  IInv'
<1>0. /\ ClientOK(client) /\ overtaken \in BOOLEAN
      /\ Director \in AllRanks /\ Director \in Ranks
  BY DEF IInv, Environment, AllRanks, Ranks
<1>1. CASE ActorBecomeLeader
  <2> DEFINE d == [client EXCEPT !.becomeLeader = FALSE, !.Rank = Director,
                                 !.isLeader = TRUE, !.leader = Nil]
  <2>1. /\ d \in Clients /\ d.invitation = client.invitation
        /\ d.invitationReceived = client.invitationReceived
        /\ d.Rank \in Ranks
    BY <1>0 DEF ClientOK, Clients
  <2>2. client' = SpawnSyncRoster(d)
    BY <1>1 DEF ActorBecomeLeader
  <2> HIDE DEF d
  <2>3. ClientOK(client')
    BY <1>0, <2>1, <2>2, FieldsOK, SpawnOK
  <2> QED BY <1>0, <1>1, <2>3, ClientStepInv DEF ActorBecomeLeader
<1>2. CASE ActorSetLeader
  <2> DEFINE d == [client EXCEPT !.leader = client.setLeader,
                                 !.setLeader = Nil]
  <2>1. /\ d \in Clients /\ d.invitation = client.invitation
        /\ d.invitationReceived = client.invitationReceived
        /\ d.phase = client.phase /\ d.Rank = client.Rank
    BY <1>0 DEF ClientOK, Clients
  <2>2. client' \in {Exit(client), SpawnSyncRoster(d)}
    BY <1>2 DEF ActorSetLeader
  <2> HIDE DEF d
  <2>3. ClientOK(client')
    BY <1>0, <2>1, <2>2, FieldsOK, SpawnOK, ExitOK
  <2> QED BY <1>0, <1>2, <2>3, ClientStepInv DEF ActorSetLeader
<1>3. CASE ActorUpdateRoster
  <2> DEFINE roster == Head(client.updateRoster)
             d == [client EXCEPT !.Rank = roster.mine, !.peers = roster.peers,
                                 !.updateRoster = Tail(@)]
  <2>1. /\ client.updateRoster \in Seq(ClientRosters)
        /\ client.updateRoster # <<>>
    BY <1>0, <1>3 DEF ActorUpdateRoster, ClientOK, Clients
  <2>2. /\ roster \in ClientRosters
        /\ Tail(client.updateRoster) \in Seq(ClientRosters)
    BY <2>1
  <2>3. client' = SpawnSyncRoster(d)
    BY <1>3 DEF ActorUpdateRoster
  <2> HIDE DEF roster
  <2>4. /\ roster.mine \in Ranks /\ roster.mine \in AllRanks
        /\ roster.peers \in PeerRanks
    BY <2>2 DEF ClientRosters, AllRanks
  <2>5. /\ d \in Clients /\ d.invitation = client.invitation
        /\ d.invitationReceived = client.invitationReceived
        /\ d.Rank \in Ranks
    BY <1>0, <2>2, <2>4 DEF ClientOK, Clients
  <2> HIDE DEF d
  <2>6. ClientOK(client')
    BY <1>0, <2>3, <2>5, FieldsOK, SpawnOK
  <2> QED BY <1>0, <1>3, <2>6, ClientStepInv DEF ActorUpdateRoster
<1>4. CASE ActorUpdatePeer
  <2> DEFINE Entries == [Id : Peer, Rank : Ranks]
             entry == Head(client.updatePeer)
             rank == IF client.peers[entry.Id] = Unknown
                     THEN client.peers[entry.Id] ELSE entry.Rank
             ranks == [client.peers EXCEPT ![entry.Id] = rank]
             d == [client EXCEPT !.updatePeer = Tail(@), !.peers = ranks]
  <2>1. /\ client.updatePeer \in Seq(Entries)
        /\ client.updatePeer # <<>> /\ client.peers \in [Peer -> AllRanks]
    BY <1>0, <1>4 DEF ActorUpdatePeer, ClientOK, Clients, PeerRanks
  <2> HIDE DEF Entries
  <2>2. entry \in Entries /\ Tail(client.updatePeer) \in Seq(Entries)
    BY <2>1
  <2>3. client' = SpawnSyncRoster(d)
    BY <1>4, Zenon DEF ActorUpdatePeer
  <2> HIDE DEF entry
  <2>4. rank \in AllRanks
    BY <2>1, <2>2 DEF AllRanks, Entries
  <2> HIDE DEF rank
  <2>5. ranks \in PeerRanks
    BY <2>1, <2>4 DEF PeerRanks
  <2> HIDE DEF ranks
  <2>6. /\ d \in Clients /\ d.invitation = client.invitation
        /\ d.invitationReceived = client.invitationReceived
        /\ d.phase = client.phase /\ d.Rank = client.Rank
    BY <1>0, <2>2, <2>5 DEF ClientOK, Clients, Entries
  <2> HIDE DEF d
  <2>7. ClientOK(client')
    BY <1>0, <2>3, <2>6, FieldsOK, SpawnOK
  <2> QED BY <1>0, <1>4, <2>7, ClientStepInv DEF ActorUpdatePeer
<1> QED BY <1>1, <1>2, <1>3, <1>4

\* The goroutines that change a rank and that send the roster to the page.
LEMMA GoroutineInv ==
    ASSUME IInv,
           \/ \E n \in DOMAIN client.rankChanges : RankChangeAsLeader(n)
           \/ SyncReads
           \/ \E n \in DOMAIN client.rosters : SyncSends(n)
    PROVE  IInv'
<1>0. ClientOK(client) /\ overtaken \in BOOLEAN
  BY DEF IInv, Environment
<1>1. ASSUME NEW n \in DOMAIN client.rankChanges, RankChangeAsLeader(n)
      PROVE  IInv'
  <2> DEFINE Entries == [Id : Peer, Rank : Ranks]
             entry == client.rankChanges[n]
             rest == Without(client.rankChanges, n)
             asked == IF client.peers[entry.Id] = Unknown
                      THEN client.updatePeer
                      ELSE Append(client.updatePeer, entry)
             d == [client EXCEPT !.rankChanges = rest, !.updatePeer = asked]
  <2>1. /\ client.rankChanges \in Seq(Entries)
        /\ client.updatePeer \in Seq(Entries)
    BY <1>0 DEF ClientOK, Clients
  <2>2. client' = d
    BY <1>1 DEF RankChangeAsLeader
  <2> HIDE DEF Entries
  <2>3. entry \in Entries /\ rest \in Seq(Entries)
    BY <2>1, WithoutOK
  <2> HIDE DEF entry, rest
  <2>4. asked \in Seq(Entries)
    BY <2>1, <2>3
  <2> HIDE DEF asked
  <2>5. /\ d \in Clients /\ d.invitation = client.invitation
        /\ d.invitationReceived = client.invitationReceived
        /\ d.phase = client.phase /\ d.Rank = client.Rank
    BY <1>0, <2>3, <2>4 DEF ClientOK, Clients, Entries
  <2> HIDE DEF d
  <2> QED BY <1>0, <1>1, <2>2, <2>5, FieldsOK, ClientStepInv
          DEF RankChangeAsLeader
<1>2. CASE SyncReads
  <2> DEFINE roster == GetRoster(client)
             d == [client EXCEPT !.syncs = @ - 1,
                                 !.rosters = Append(@, roster)]
  <2>1. client' = d /\ roster \in Rosters
    BY <1>0, <1>2, RosterOK DEF SyncReads
  <2> HIDE DEF roster
  <2>2. /\ client.syncs - 1 \in Nat
        /\ Append(client.rosters, roster) \in Seq(Rosters)
    BY <1>0, <1>2, <2>1 DEF SyncReads, ClientOK, Clients
  <2>3. /\ d \in Clients /\ d.invitation = client.invitation
        /\ d.invitationReceived = client.invitationReceived
        /\ d.phase = client.phase /\ d.Rank = client.Rank
    BY <1>0, <2>2 DEF ClientOK, Clients
  <2> HIDE DEF d
  <2> QED BY <1>0, <1>2, <2>1, <2>3, FieldsOK, ClientStepInv DEF SyncReads
<1>3. ASSUME NEW n \in DOMAIN client.rosters, SyncSends(n)
      PROVE  IInv'
  <2> DEFINE rest == Without(client.rosters, n)
             d == [client EXCEPT !.rosters = rest]
             message == [type |-> "RosterUpdate", roster |-> client.rosters[n]]
  <2>1. client.rosters \in Seq(Rosters)
    BY <1>0 DEF ClientOK, Clients
  <2>2. client.rosters[n] \in Rosters /\ rest \in Seq(Rosters)
    BY <2>1, WithoutOK
  <2>3. message \in ToPage
    BY <2>2 DEF ToPage
  <2>4. client' = TellBrowser(d, message)
    BY <1>3 DEF SyncSends
  <2> HIDE DEF rest, message
  <2>5. /\ d \in Clients /\ d.invitation = client.invitation
        /\ d.invitationReceived = client.invitationReceived
        /\ d.phase = client.phase /\ d.Rank = client.Rank
    BY <1>0, <2>2 DEF ClientOK, Clients
  <2> HIDE DEF d
  <2>6. ClientOK(client')
    BY <1>0, <2>3, <2>4, <2>5, FieldsOK, TellOK
  <2>7. overtaken' \in BOOLEAN
    BY <1>3 DEF SyncSends
  <2> QED BY <1>3, <2>6, <2>7, ClientStepInv DEF SyncSends
<1> QED BY <1>1, <1>2, <1>3

-----------------------------------------------------------------------------
(* The page.                                                               *)

\* A step of the page alone, one of those that are counted or another.
LEMMA PageStepInv ==
    ASSUME IInv, NEW p, Good(p), PageStep(p),
           UNCHANGED spent \/ \E kind \in Kinds : Spend(kind)
    PROVE  IInv'
<1>1. Environment'
  BY SpendInv DEF PageStep, IInv, Environment
<1> QED BY <1>1 DEF PageStep, IInv

\* The callbacks of the script.
LEMMA PageNextInv ==
    ASSUME IInv, PageNext
    PROVE  IInv'
<1>0. Good(page) /\ ClientOK(client) /\ {"beat", "stall"} \subseteq Kinds
  BY DEF IInv, Kinds
<1>1. CASE PageReceives
  <2> DEFINE d == [client EXCEPT !.toBrowser = Tail(@)]
             message == Head(client.toBrowser)
  <2>1. client.toBrowser \in Seq(ToPage) /\ client.toBrowser # <<>>
    BY <1>0, <1>1 DEF PageReceives, ClientOK, Clients
  <2>2. message \in ToPage /\ Tail(client.toBrowser) \in Seq(ToPage)
    BY <2>1
  <2>3. client' = d /\ page' = onmessage(page, message)
    BY <1>1 DEF PageReceives
  <2>4. /\ d \in Clients /\ d.invitation = client.invitation
        /\ d.invitationReceived = client.invitationReceived
        /\ d.phase = client.phase /\ d.Rank = client.Rank
    BY <1>0, <2>2 DEF ClientOK, Clients
  <2> HIDE DEF d, message
  <2>5. ClientOK(client') /\ Good(page')
    BY <1>0, <2>2, <2>3, <2>4, FieldsOK, GoodMessage
  <2> QED BY <1>1, <2>5 DEF PageReceives, IInv, Environment
<1>2. CASE PageHeartbeat
  BY <1>0, <1>2, GoodBeat, PageStepInv DEF PageHeartbeat
<1>3. CASE PageTimeout
  BY <1>0, <1>3, GoodLoss, PageStepInv DEF PageTimeout
<1>4. CASE SocketError
  BY <1>0, <1>4, GoodLoss, PageStepInv DEF SocketError
<1>5. CASE PlayerReady
  BY <1>0, <1>5, GoodReady, PageStepInv DEF PlayerReady
<1>6. CASE EchoUnblocks
  BY <1>0, <1>6, GoodUnblock, PageStepInv DEF EchoUnblocks
<1>7. CASE ReceiveTitle
  BY <1>0, <1>7, GoodTitle, PageStepInv DEF ReceiveTitle
<1> QED BY <1>1, <1>2, <1>3, <1>4, <1>5, <1>6, <1>7 DEF PageNext

\* What the user does.
LEMMA UserNextInv ==
    ASSUME IInv, UserNext
    PROVE  IInv'
<1>0. /\ Good(page)
      /\ {"choice", "title", "click", "submit", "end"} \subseteq Kinds
      /\ {"invitation", "peer_info"} \subseteq Dialogs
  BY DEF IInv, Kinds, Dialogs
<1>1. ASSUME NEW leader \in BOOLEAN, ChooseSession(leader) PROVE IInv'
  BY <1>0, <1>1, GoodStart, PageStepInv DEF ChooseSession
<1>2. ASSUME NEW accept \in BOOLEAN, AnswerInvitation(accept) PROVE IInv'
  BY <1>0, <1>2, GoodRespond, PageStepInv DEF AnswerInvitation
<1>3. CASE OpenInvitation
  BY <1>0, <1>3, GoodDialogs, PageStepInv DEF OpenInvitation
<1>4. CASE CancelInvitation
  BY <1>0, <1>4, GoodDialogs, PageStepInv DEF CancelInvitation
<1>5. CASE SubmitInvitation
  BY <1>0, <1>5, GoodSendInvitation, PageStepInv DEF SubmitInvitation
<1>6. ASSUME NEW q \in Peer, ClickPeer(q) PROVE IInv'
  BY <1>0, <1>6, GoodPeerInfo, PageStepInv DEF ClickPeer
<1>7. CASE ClosePeerInfo
  BY <1>0, <1>7, GoodDialogs, PageStepInv DEF ClosePeerInfo
<1>8. ASSUME NEW rank \in Ranks, SubmitRankChange(rank) PROVE IInv'
  BY <1>0, <1>8, GoodSubmit, PageStepInv DEF SubmitRankChange
<1>9. CASE EndSession
  BY <1>0, <1>9, GoodEnd, PageStepInv DEF EndSession
<1>10. CASE ClosePage
  BY <1>0, <1>10, GoodClosed, PageStepInv DEF ClosePage
<1> QED BY <1>1, <1>2, <1>3, <1>4, <1>5, <1>6, <1>7, <1>8, <1>9, <1>10
        DEF UserNext

-----------------------------------------------------------------------------
(* Theorems.                                                               *)

\* Every step keeps the invariant.
LEMMA NextInv == IInv /\ [Next]_vars => IInv'
<1> SUFFICES ASSUME IInv, [Next]_vars PROVE IInv'
  OBVIOUS
<1>1. CASE UNCHANGED vars
  BY <1>1 DEF vars, IInv, Environment
<1>2. CASE ClientNext
  BY <1>2, PhasesInv, ReadMessageInv, ResponseInv, ActorInv, GoroutineInv
  DEF ClientNext
<1>3. CASE EnvironmentNext
  BY <1>3, InvitationInv, SessionInv DEF EnvironmentNext
<1>4. CASE PageNext \/ UserNext
  BY <1>4, PageNextInv, UserNextInv
<1> QED BY <1>1, <1>2, <1>3, <1>4 DEF Next

\* The invariant holds from the connection to the end of the session.
LEMMA AlwaysInv == Spec => []IInv
  BY InitInv, NextInv, PTL DEF Spec

\* Client and page are well typed throughout, for any invitations, rosters,
\* videos and clicks, and a client in its event loop has a rank: neither a
\* second invitation nor an actor that is late with the leader or the roster
\* lets it leave waitForInvitation without one (run.go 126-128, 215-217).
THEOREM BrowserTypeCorrect == Spec => []TypeOK
<1>1. IInv => TypeOK
  BY DEF IInv, Good, ClientOK, Environment, TypeOK
<1> QED BY <1>1, AlwaysInv, PTL

\* Whatever the order in which the player gets ready, ranks come and go and
\* the client is lost, a page has one interval that reports its player if it
\* should have one, none otherwise, and can stop it (wetube.ts 80-82,
\* 150-157).
THEOREM HeartbeatAlwaysOne == Spec => []OneVideoHeartbeat
<1>1. IInv => OneVideoHeartbeat
  BY DEF IInv, Good, OneVideoHeartbeat
<1> QED BY <1>1, AlwaysInv, PTL
=============================================================================
