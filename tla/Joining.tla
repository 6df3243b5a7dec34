------------------------------- MODULE Joining -------------------------------
(***************************************************************************)
(* How clients come together (run.go): a session is started, somebody is   *)
(* invited, the invited client answers, connects back, is added to the     *)
(* roster and confirmed.  Hosts are the clients that start a session and   *)
(* lead it, guests those that join one.                                    *)
(*                                                                         *)
(* An invitation opens a connection of its own from the host to the guest, *)
(* which later carries the confirmation and the rosters; so Peer structs   *)
(* of a host, and their connections, are identified by the invitation.     *)
(* The event loop of a host handles one message at a time, but asks its    *)
(* actor goroutine, which serves each kind of request from a channel of    *)
(* its own, several times on the way; handler is where it stands.          *)
(***************************************************************************)
EXTENDS Naturals, Sequences, FiniteSets

CONSTANTS
    Host, Guest,      \* The clients that lead and those that join
    Invite,           \* The invitations that may be sent
    Inviter, Invitee, \* Who sends an invitation to whom
    RankOffered,      \* Invitation.RankOffered
    Random,           \* Invitation.Random, by which it is looked up
    Nil,              \* Go's nil
    MaxRankChanges,   \* Bound on the changes of rank
    MaxExits          \* Bound on the guests that go

Unknown  == 0
Viewer   == 1
Editor   == 2
Director == 3
Ranks    == {Viewer, Editor, Director}

ASSUME JoiningAssumption ==
    /\ Host \cap Guest = {}
    /\ Nil \notin Host \cup Guest \cup Invite
    /\ Inviter \in [Invite -> Host]
    /\ Invitee \in [Invite -> Guest]
    /\ RankOffered \in [Invite -> Ranks]
    /\ Random \in [Invite -> Nat]
    /\ MaxRankChanges \in Nat
    /\ MaxExits \in Nat

VARIABLES
    host,       \* host[h]: the state of a client that leads
    guest,      \* guest[g]: the state of a client that joins, and its browser
    conn,       \* conn[i]: the connection from host to guest of an invitation
    out,        \* out[i]: the messages on that connection
    responses,  \* InvitationResponses on their way to a host
    rankChanges \* The number of changes of rank so far

vars == <<host, guest, conn, out, responses, rankChanges>>

\* The entries of a roster, without that of the host.
Rosters == SUBSET [id : Guest, rank : Ranks]

Messages ==
    [type : {"Invitation"}]
      \cup [type : {"JoinConfirmation"}, Success : BOOLEAN, Roster : Rosters]
      \cup [type : {"RosterUpdate"}, Roster : Rosters]

Handlers ==
    [ pc     : {"idle", "confirm", "sendConfirm",
                "broadcast", "sendBroadcast"},
      invite : Invite \cup {Nil},
      roster : Rosters ]

Idle == [pc |-> "idle", invite |-> Nil, roster |-> {}]

Hosts ==
    [ phase        : {"start", "wait", "loop"},
      becomeLeader : BOOLEAN,                      \* c_becomeLeader
      isLeader     : BOOLEAN,
      outstanding  : SUBSET Invite,                \* OutstandingInvitations
      peers        : [Guest -> Invite \cup {Nil}],
      peerRank     : [Invite -> Ranks],            \* Peer.Rank
      peerId       : [Invite -> Guest \cup {Nil}], \* Peer.Id, Nil for -91
      timed        : SUBSET Invite,                \* Peer.Timeout is running
      addPeer      : Seq(Invite),
      updatePeer   : Seq([id : Guest, rank : Ranks]),
      deletePeer   : Seq(Guest \cup {Nil}),
      syncRoster   : BOOLEAN,                      \* One is to run
      sending      : SUBSET Rosters,               \* Those others have read
      handler      : Handlers ]

Guests ==
    [ status             : {"up", "down"},
      started            : BOOLEAN,
      Rank               : {Unknown} \cup Ranks,
      invitationReceived : BOOLEAN,
      invitation         : Invite \cup {Nil},
      leader             : Invite \cup {Nil},      \* See GuestResponds
      setLeader          : Invite \cup {Nil},      \* c_setLeader
      updateRoster       : Seq(Rosters),           \* c_updateRoster
      peers              : SUBSET Guest,
      dialog             : Invite \cup {Nil},
      fromBrowser        : Seq([invite : Invite, Accepted : BOOLEAN]),
      confirmedBy        : Host \cup {Nil},        \* history
      ignored            : BOOLEAN ]               \* history

Responses == [invite : Invite, dialled : Invite, Accepted : BOOLEAN]

\* A peer that is in the roster, is to be added or has a timer has its id: the
\* Peer of an invitation gets it with the answer.
PeersHaveIds(s) ==
    /\ \A g \in Guest : s.peers[g] # Nil => s.peerId[s.peers[g]] = g
    /\ \A n \in DOMAIN s.addPeer : s.peerId[s.addPeer[n]] # Nil
    /\ \A i \in s.timed : s.peerId[i] # Nil

\* Every variable has its type, and peers have their ids.
TypeOK ==
    /\ host \in [Host -> Hosts]
    /\ \A h \in Host : PeersHaveIds(host[h])
    /\ guest \in [Guest -> Guests]
    /\ conn \in [Invite -> {"none", "dialling", "open", "closing", "closed"}]
    /\ out \in [Invite -> Seq(Messages)]
    /\ responses \subseteq Responses
    /\ rankChanges \in 0..MaxRankChanges

Init ==
    /\ host = [h \in Host |->
         [ phase |-> "start", becomeLeader |-> FALSE, isLeader |-> FALSE,
           outstanding |-> {}, peers |-> [g \in Guest |-> Nil],
           peerRank |-> RankOffered, peerId |-> [i \in Invite |-> Nil],
           timed |-> {}, addPeer |-> <<>>, updatePeer |-> <<>>,
           deletePeer |-> <<>>, syncRoster |-> FALSE, sending |-> {},
           handler |-> Idle ]]
    /\ guest = [g \in Guest |->
         [ status |-> "up", started |-> FALSE, Rank |-> Unknown,
           invitationReceived |-> FALSE, invitation |-> Nil, leader |-> Nil,
           setLeader |-> Nil, updateRoster |-> <<>>, peers |-> {},
           dialog |-> Nil, fromBrowser |-> <<>>,
           confirmedBy |-> Nil, ignored |-> FALSE ]]
    /\ conn = [i \in Invite |-> "none"]
    /\ out = [i \in Invite |-> <<>>]
    /\ responses = {}
    /\ rankChanges = 0

-----------------------------------------------------------------------------
Up(g) == guest[g].status = "up"

\* The peers of a host and the roster it broadcasts.
GetPeer(h, g) == host[h].peers[g] # Nil

GetRoster(h) ==
    {[id |-> g, rank |-> host[h].peerRank[host[h].peers[g]]] :
        g \in {x \in Guest : GetPeer(h, x)}}

\* The client a guest follows.
LeaderOf(g) == IF guest[g].leader = Nil THEN Nil ELSE Inviter[guest[g].leader]

\* The event loop of a host is ready for the next message.
Ready(h) == host[h].phase = "loop" /\ host[h].handler = Idle

\* A message goes into the OutChannel of a peer; a writer that has exited
\* leaves it there.
Send(i, m) ==
    out' = [out EXCEPT ![i] = IF conn[i] \in {"open", "closing"}
                              THEN Append(@, m) ELSE @]

BroadcastToPeers(h, m) ==
    LET to == {i \in Invite : /\ \E g \in Guest : host[h].peers[g] = i
                              /\ conn[i] \in {"open", "closing"}}
    IN  out' = [i \in Invite |-> IF i \in to THEN Append(out[i], m) ELSE out[i]]

\* What a signal in CloseChannel makes of a connection.
CloseSignal(i) == IF conn[i] = "open" THEN "closing" ELSE conn[i]

-----------------------------------------------------------------------------
(* Starting a session.                                                     *)

\* SessionInit of a browser that starts a session: BecomeLeader is only
\* requested.
HostInit(h) ==
    /\ host[h].phase = "start"
    /\ host' = [host EXCEPT ![h].phase = "wait", ![h].becomeLeader = TRUE]
    /\ UNCHANGED <<guest, conn, out, responses, rankChanges>>

DoBecomeLeader(h) ==
    /\ host[h].becomeLeader
    /\ host' = [host EXCEPT ![h].becomeLeader = FALSE, ![h].isLeader = TRUE,
                            ![h].outstanding = {}, ![h].syncRoster = TRUE]
    /\ UNCHANGED <<guest, conn, out, responses, rankChanges>>

\* waitForInvitation ends when it finds that Rank is no longer Unknown.
EnterLoop(h) ==
    /\ host[h].phase = "wait" /\ host[h].isLeader
    /\ host' = [host EXCEPT ![h].phase = "loop"]
    /\ UNCHANGED <<guest, conn, out, responses, rankChanges>>

\* SessionInit of a browser that joins a session.
GuestInit(g) ==
    /\ Up(g) /\ ~guest[g].started
    /\ guest' = [guest EXCEPT ![g].started = TRUE]
    /\ UNCHANGED <<host, conn, out, responses, rankChanges>>

-----------------------------------------------------------------------------
(* Inviting.                                                               *)

\* Requests come from the host's own browser or from a peer that is Director.
Authorized(h, from) ==
    \/ from = h
    \/ /\ from \in Guest /\ guest[from].Rank # Unknown /\ LeaderOf(from) = h
       /\ GetPeer(h, from)
       /\ host[h].peerRank[host[h].peers[from]] = Director

\* handleInvitationRequestAsLeader refuses a Random that is outstanding.
InvitationRequest(h, i, from) ==
    /\ host[h].phase = "loop" /\ Inviter[i] = h /\ conn[i] = "none"
    /\ Authorized(h, from)
    /\ conn' = [conn EXCEPT ![i] =
         IF \E j \in host[h].outstanding : Random[j] = Random[i]
         THEN "closed" ELSE "dialling"]
    /\ UNCHANGED <<host, guest, out, responses, rankChanges>>

\* Its goroutine dials, notes the invitation (replacing one of that Random) and
\* sends it; or the guest cannot be reached.
DialInvited(h, i) ==
    /\ Inviter[i] = h /\ conn[i] = "dialling"
    /\ \/ /\ Up(Invitee[i])
          /\ conn' = [conn EXCEPT ![i] = "open"]
          /\ out' = [out EXCEPT ![i] = <<[type |-> "Invitation"]>>]
          /\ host' = [host EXCEPT ![h].outstanding =
               {j \in @ : Random[j] # Random[i]} \cup {i}]
       \/ /\ conn' = [conn EXCEPT ![i] = "closed"]
          /\ UNCHANGED <<host, out>>
    /\ UNCHANGED <<guest, responses, rankChanges>>

-----------------------------------------------------------------------------
(* The guest, while it waits for an invitation.                            *)

Waiting(g) == Up(g) /\ guest[g].started /\ guest[g].Rank = Unknown

HeadIs(i, type) == out[i] # <<>> /\ Head(out[i]).type = type

\* The page (wetube.ts) shows a dialog for the invitation it got last, as long
\* as it has not joined.
ShowInvitation(g, i) == IF guest[g].Rank = Unknown THEN i ELSE guest[g].dialog

\* T_Invitation: the latest invitation replaces earlier ones, whatever became
\* of them, and is shown by the browser.
ReceiveInvitation(g, i) ==
    /\ Invitee[i] = g /\ Waiting(g) /\ HeadIs(i, "Invitation")
    /\ out' = [out EXCEPT ![i] = Tail(@)]
    /\ guest' = [guest EXCEPT ![g].invitationReceived = TRUE,
                              ![g].invitation = i,
                              ![g].dialog = ShowInvitation(g, i)]
    /\ UNCHANGED <<host, conn, responses, rankChanges>>

\* respondToInvitation: the answer carries the Random of that invitation.
BrowserAnswers(g, accept) ==
    /\ Up(g) /\ guest[g].dialog # Nil
    /\ guest' = [guest EXCEPT
         ![g].dialog = Nil,
         ![g].fromBrowser = Append(@, [invite   |-> guest[g].dialog,
                                       Accepted |-> accept])]
    /\ UNCHANGED <<host, conn, out, responses, rankChanges>>

\* T_InvitationResponse from the browser: the guest dials the sender of the
\* invitation it received last, whichever the answer is for, sends the answer
\* and asks its actor to set the leader, known here by that invitation.  A
\* refusal is followed by a signal to close, which the writer goroutine may see
\* first.  Once the guest has joined, it only answers with an error.
GuestResponds(g) ==
    LET a == Head(guest[g].fromBrowser)
        i == guest[g].invitation
        answer == [invite |-> a.invite, dialled |-> i, Accepted |-> a.Accepted]
    IN  /\ Up(g) /\ guest[g].fromBrowser # <<>>
        /\ \/ /\ guest[g].Rank # Unknown \/ ~guest[g].invitationReceived
              /\ guest' = [guest EXCEPT ![g].fromBrowser = Tail(@)]
              /\ UNCHANGED responses
           \/ /\ Waiting(g) /\ guest[g].invitationReceived \* cannot connect
              /\ guest' = [guest EXCEPT ![g].fromBrowser = Tail(@),
                                        ![g].invitationReceived = FALSE]
              /\ UNCHANGED responses
           \/ /\ Waiting(g) /\ guest[g].invitationReceived /\ a.Accepted
              /\ guest[g].setLeader = Nil
              /\ guest' = [guest EXCEPT ![g].fromBrowser = Tail(@),
                                        ![g].setLeader = i]
              /\ responses' = responses \cup {answer}
           \/ /\ Waiting(g) /\ guest[g].invitationReceived /\ ~a.Accepted
              /\ guest' = [guest EXCEPT ![g].fromBrowser = Tail(@),
                                        ![g].invitationReceived = FALSE]
              /\ responses' = responses \cup {answer}
        /\ UNCHANGED <<host, conn, out, rankChanges>>

\* setLeader closes the connection to the leader before, on which an answer may
\* not have been written yet.
DoSetLeader(g) ==
    /\ Up(g) /\ guest[g].setLeader # Nil
    /\ guest' = [guest EXCEPT ![g].leader = guest[g].setLeader,
                              ![g].setLeader = Nil]
    /\ \/ UNCHANGED responses
       \/ responses' = {r \in responses : r.dialled # guest[g].leader}
    /\ UNCHANGED <<host, conn, out, rankChanges>>

\* T_JoinConfirmation: ignored without an invitation and a leader, refused with
\* an error unless it comes from the leader.  On success the guest takes the
\* rank of the invitation it received last and the roster; a refusal ends it.
ReceiveConfirmation(g, i) ==
    LET m == Head(out[i])
        s == guest[g]
        known == s.invitationReceived /\ s.leader # Nil
    IN  /\ Invitee[i] = g /\ Waiting(g) /\ HeadIs(i, "JoinConfirmation")
        /\ out' = [out EXCEPT ![i] = Tail(@)]
        /\ \/ /\ ~known
              /\ guest' = [guest EXCEPT ![g].ignored = TRUE]
           \/ /\ known /\ LeaderOf(g) # Inviter[i]
              /\ UNCHANGED guest
           \/ /\ known /\ LeaderOf(g) = Inviter[i] /\ m.Success
              /\ guest' = [guest EXCEPT
                   ![g].Rank         = RankOffered[s.invitation],
                   ![g].updateRoster = Append(@, m.Roster),
                   ![g].confirmedBy  = Inviter[i]]
           \/ /\ known /\ LeaderOf(g) = Inviter[i] /\ ~m.Success
              /\ guest' = [guest EXCEPT ![g].status = "down"]
        /\ UNCHANGED <<host, conn, responses, rankChanges>>

-----------------------------------------------------------------------------
(* The guest, whatever its phase.                                          *)

\* What a phase does not expect is answered with an error or, if the sender is
\* no known peer, dropped.
DropMessage(g, i) ==
    /\ Invitee[i] = g /\ Up(g) /\ out[i] # <<>>
    /\ \/ ~guest[g].started
       \/ guest[g].Rank = Unknown /\ Head(out[i]).type = "RosterUpdate"
       \/ guest[g].Rank # Unknown /\ Head(out[i]).type # "RosterUpdate"
    /\ out' = [out EXCEPT ![i] = Tail(@)]
    /\ UNCHANGED <<host, guest, conn, responses, rankChanges>>

\* handleRosterUpdate.
ReceiveRoster(g, i) ==
    /\ Invitee[i] = g /\ Up(g) /\ guest[g].Rank # Unknown
    /\ HeadIs(i, "RosterUpdate")
    /\ out' = [out EXCEPT ![i] = Tail(@)]
    /\ guest' = [guest EXCEPT ![g].updateRoster =
         IF LeaderOf(g) = Inviter[i]
         THEN Append(@, Head(out[i]).Roster) ELSE @]
    /\ UNCHANGED <<host, conn, responses, rankChanges>>

\* c_updateRoster: the guest takes over its own rank and connects to the
\* others that are there.
DoUpdateRoster(g) ==
    LET roster == Head(guest[g].updateRoster)
        mine   == {e.rank : e \in {x \in roster : x.id = g}}
    IN  /\ Up(g) /\ guest[g].updateRoster # <<>>
        /\ \E rank \in IF mine = {} THEN {guest[g].Rank} ELSE mine :
             guest' = [guest EXCEPT
               ![g].updateRoster = Tail(@),
               ![g].Rank  = rank,
               ![g].peers = {x \in Guest \ {g} :
                               Up(x) /\ \E e \in roster : e.id = x}]
        /\ UNCHANGED <<host, conn, out, responses, rankChanges>>

\* The browser of the guest goes silent, and the client exits; or its machine
\* is gone, and nobody is told.
Exit(g) ==
    /\ Up(g)
    /\ Cardinality({x \in Guest : ~Up(x)}) < MaxExits
    /\ guest' = [guest EXCEPT ![g].status = "down"]
    /\ UNCHANGED <<host, conn, out, responses, rankChanges>>

-----------------------------------------------------------------------------
(* The host, while its session lasts.                                      *)

\* What handleInvitationResponse does with the outstanding invitation of an
\* answer: the connection is closed, the new peer known by id or still nameless,
Refuse(h, oi, id) ==
    /\ host' = [host EXCEPT ![h].outstanding = @ \ {oi}, ![h].peerId[oi] = id]
    /\ conn' = [conn EXCEPT ![oi] = CloseSignal(oi)]

\* or it becomes a peer: it gets its id and is to be added.
Accept(h, oi, id) ==
    /\ host' = [host EXCEPT
         ![h].outstanding = @ \ {oi},
         ![h].peerId[oi]  = id,
         ![h].addPeer     = Append(@, oi),
         ![h].handler     = [Idle EXCEPT !.pc = "confirm", !.invite = oi]]
    /\ UNCHANGED <<conn, out>>

JoinRefused == [type |-> "JoinConfirmation", Success |-> FALSE, Roster |-> {}]

\* Mutant of PeerIdCollision: the id is noted before it is tested.
PeerIdCollision_IdFirst(h, oi, g) ==
    GetPeer(h, g) /\ Send(oi, JoinRefused) /\ Refuse(h, oi, g)

\* The guest is a peer already.
PeerIdCollision(h, oi, g) ==
    GetPeer(h, g) /\ Send(oi, JoinRefused) /\ Refuse(h, oi, Nil)

\* Mutant of PeerAccepted: the new peer is added without its id.
PeerAccepted_NoId(h, oi, g) == ~GetPeer(h, g) /\ Accept(h, oi, Nil)

\* The guest is new.
PeerAccepted(h, oi, g) == ~GetPeer(h, g) /\ Accept(h, oi, g)

\* handleInvitationResponse: the invitation is looked up by the Random of the
\* answer and deleted; then it depends on the answer and on the peers.
HandleResponse(h, r) ==
    LET g   == Invitee[r.dialled]
        ois == {i \in host[h].outstanding : Random[i] = Random[r.invite]}
    IN  /\ Ready(h) /\ r \in responses /\ Inviter[r.dialled] = h
        /\ responses' = responses \ {r}
        /\ \/ ois = {} /\ UNCHANGED <<host, conn, out>>
           \/ \E oi \in ois :
                \/ ~r.Accepted /\ Refuse(h, oi, Nil) /\ UNCHANGED out
                \/ r.Accepted /\ PeerIdCollision(h, oi, g)
                \/ r.Accepted /\ PeerAccepted(h, oi, g)
        /\ UNCHANGED <<guest, rankChanges>>

\* The same handler goes on: it reads the roster, which may or may not have the
\* new peer by then, for the confirmation, and again for a broadcast.
ReadRoster(h) ==
    /\ \/ /\ host[h].handler.pc = "confirm"
          /\ host' = [host EXCEPT ![h].handler.pc = "sendConfirm",
                                  ![h].handler.roster = GetRoster(h)]
       \/ /\ host[h].handler.pc = "broadcast"
          /\ host' = [host EXCEPT ![h].handler.pc = "sendBroadcast",
                                  ![h].handler.roster = GetRoster(h)]
    /\ UNCHANGED <<guest, conn, out, responses, rankChanges>>

Confirm(h, next) ==
    /\ host[h].handler.pc = "sendConfirm"
    /\ Send(host[h].handler.invite,
            [type |-> "JoinConfirmation", Success |-> TRUE,
             Roster |-> host[h].handler.roster])
    /\ host' = [host EXCEPT ![h].handler = next]
    /\ UNCHANGED <<guest, conn, responses, rankChanges>>

\* Mutant of SendConfirmation: no roster is broadcast after it.
SendConfirmation_Last(h) == Confirm(h, Idle)

SendConfirmation(h) == Confirm(h, [Idle EXCEPT !.pc = "broadcast"])

SendBroadcast(h) ==
    /\ host[h].handler.pc = "sendBroadcast"
    /\ BroadcastToPeers(h, [type |-> "RosterUpdate",
                            Roster |-> host[h].handler.roster])
    /\ host' = [host EXCEPT ![h].handler = Idle]
    /\ UNCHANGED <<guest, conn, responses, rankChanges>>

\* handleRankChangeRequest and its goroutine: the peer's entry with another
\* rank goes to the actor.
RankChangeRequest(h, from, g, rank) ==
    /\ host[h].phase = "loop" /\ Authorized(h, from) /\ GetPeer(h, g)
    /\ rankChanges < MaxRankChanges
    /\ rankChanges' = rankChanges + 1
    /\ host' = [host EXCEPT ![h].updatePeer =
         Append(@, [id |-> g, rank |-> rank])]
    /\ UNCHANGED <<guest, conn, out, responses>>

\* The requests its actor serves.
DoAddPeer(h) ==
    LET i == Head(host[h].addPeer)
        g == host[h].peerId[i]
    IN  /\ host[h].addPeer # <<>>
        /\ host' = [host EXCEPT
             ![h].addPeer    = Tail(@),
             ![h].peers      = IF @[g] = Nil THEN [@ EXCEPT ![g] = i] ELSE @,
             ![h].syncRoster = TRUE]
        /\ UNCHANGED <<guest, conn, out, responses, rankChanges>>

DoUpdatePeer(h) ==
    LET e == Head(host[h].updatePeer)
        i == host[h].peers[e.id]
    IN  /\ host[h].updatePeer # <<>>
        /\ host' = [host EXCEPT
             ![h].updatePeer = Tail(@),
             ![h].peerRank = [j \in Invite |-> IF j = i THEN e.rank ELSE @[j]],
             ![h].syncRoster = TRUE]
        /\ UNCHANGED <<guest, conn, out, responses, rankChanges>>

DoDeletePeer(h) ==
    /\ host[h].deletePeer # <<>>
    /\ host' = [host EXCEPT
         ![h].deletePeer = Tail(@),
         ![h].peers      = [g \in Guest |->
            IF g = Head(host[h].deletePeer) THEN Nil ELSE @[g]],
         ![h].syncRoster = TRUE]
    /\ UNCHANGED <<guest, conn, out, responses, rankChanges>>

\* syncRoster, in its own goroutine, reads the roster and then broadcasts it;
\* several may be between the two.
SyncReads(h) ==
    /\ host[h].syncRoster
    /\ host' = [host EXCEPT ![h].syncRoster = FALSE,
                            ![h].sending = @ \cup {GetRoster(h)}]
    /\ UNCHANGED <<guest, conn, out, responses, rankChanges>>

SyncSends(h) ==
    \E roster \in host[h].sending :
        /\ BroadcastToPeers(h, [type |-> "RosterUpdate", Roster |-> roster])
        /\ host' = [host EXCEPT ![h].sending = @ \ {roster}]
        /\ UNCHANGED <<guest, conn, responses, rankChanges>>

\* The goroutine of startSession sends heartbeats to the leader, before and
\* after joining.
Heartbeating(g, h) == Up(g) /\ LeaderOf(g) = h

\* handleHeartbeat: one that finds the guest among the peers starts its timer.
Heartbeat(h, g) ==
    /\ Heartbeating(g, h) /\ Ready(h) /\ GetPeer(h, g)
    /\ host' = [host EXCEPT ![h].timed = @ \cup {host[h].peers[g]}]
    /\ UNCHANGED <<guest, conn, out, responses, rankChanges>>

\* The timer of a peer that sends no heartbeats any more.
PeerTimeout(h, i) ==
    /\ i \in host[h].timed /\ ~Heartbeating(host[h].peerId[i], h)
    /\ host' = [host EXCEPT ![h].timed = @ \ {i}]
    /\ conn' = [conn EXCEPT ![i] = CloseSignal(i)]
    /\ UNCHANGED <<guest, out, responses, rankChanges>>

\* The reader goroutine finds that the guest has gone.
ConnectionLost(i) ==
    /\ conn[i] = "open" /\ ~Up(Invitee[i])
    /\ conn' = [conn EXCEPT ![i] = "closing"]
    /\ UNCHANGED <<host, guest, out, responses, rankChanges>>

\* The writer goroutine ends, with what it has not written, and asks for
\* deletions.
WriterEnds(i, deletions) ==
    /\ conn[i] = "closing"
    /\ conn' = [conn EXCEPT ![i] = "closed"]
    /\ \E n \in 0..Len(out[i]) : out' = [out EXCEPT ![i] = SubSeq(@, 1, n)]
    /\ host' = [host EXCEPT ![Inviter[i]].deletePeer = @ \o deletions]
    /\ UNCHANGED <<guest, responses, rankChanges>>

\* Mutant of WriterExit: DeletePeer is forgotten.
WriterExit_NoDelete(i) == WriterEnds(i, <<>>)

\* It asks for the deletion of its peer, by the id the peer has now.
WriterExit(i) == WriterEnds(i, <<host[Inviter[i]].peerId[i]>>)

-----------------------------------------------------------------------------
HostNext(h) ==
    \/ HostInit(h)
    \/ DoBecomeLeader(h)
    \/ EnterLoop(h)
    \/ \E i \in Invite, from \in Guest \cup {h} : InvitationRequest(h, i, from)
    \/ \E i \in Invite : DialInvited(h, i)
    \/ \E r \in responses : HandleResponse(h, r)
    \/ ReadRoster(h)
    \/ SendConfirmation(h)
    \/ SendBroadcast(h)
    \/ \E from \in Guest \cup {h}, g \in Guest, rank \in Ranks :
         RankChangeRequest(h, from, g, rank)
    \/ DoAddPeer(h)
    \/ DoUpdatePeer(h)
    \/ DoDeletePeer(h)
    \/ SyncReads(h)
    \/ SyncSends(h)
    \/ \E g \in Guest : Heartbeat(h, g)
    \/ \E i \in Invite : PeerTimeout(h, i)

GuestNext(g) ==
    \/ GuestInit(g)
    \/ \E accept \in BOOLEAN : BrowserAnswers(g, accept)
    \/ GuestResponds(g)
    \/ DoSetLeader(g)
    \/ DoUpdateRoster(g)
    \/ Exit(g)
    \/ \E i \in Invite :
         \/ ReceiveInvitation(g, i)
         \/ ReceiveConfirmation(g, i)
         \/ ReceiveRoster(g, i)
         \/ DropMessage(g, i)

Next ==
    \/ \E h \in Host : HostNext(h)
    \/ \E g \in Guest : GuestNext(g)
    \/ \E i \in Invite : ConnectionLost(i) \/ WriterExit(i)

Spec == Init /\ [][Next]_vars

\* Goroutines that can run do, channels are served, messages that were sent are
\* handled, and running timers fire.  People and machines promise nothing: to
\* start, invite, answer, change ranks, go, or break a connection.
Fairness ==
    /\ \A h \in Host :
         /\ WF_vars(DoBecomeLeader(h)) /\ WF_vars(EnterLoop(h))
         /\ WF_vars(\E i \in Invite : DialInvited(h, i))
         /\ WF_vars(\E r \in responses : HandleResponse(h, r))
         /\ WF_vars(ReadRoster(h)) /\ WF_vars(SendConfirmation(h))
         /\ WF_vars(SendBroadcast(h))
         /\ WF_vars(DoAddPeer(h)) /\ WF_vars(DoUpdatePeer(h))
         /\ WF_vars(DoDeletePeer(h))
         /\ WF_vars(SyncReads(h)) /\ WF_vars(SyncSends(h))
         /\ \A g \in Guest : WF_vars(Heartbeat(h, g))
         /\ \A i \in Invite : WF_vars(PeerTimeout(h, i))
    /\ \A g \in Guest :
         /\ WF_vars(GuestResponds(g)) /\ WF_vars(DoSetLeader(g))
         /\ WF_vars(DoUpdateRoster(g))
         /\ \A i \in Invite : WF_vars(\/ ReceiveInvitation(g, i)
                                    \/ ReceiveConfirmation(g, i)
                                    \/ ReceiveRoster(g, i)
                                    \/ DropMessage(g, i))
    /\ \A i \in Invite : WF_vars(WriterExit(i))

FairSpec == Spec /\ Fairness

-----------------------------------------------------------------------------
(* Properties.                                                             *)

\* A guest that was confirmed, and is there, is in the roster of the client that
\* confirmed it, or about to be: handleInvitationResponse sends the confirmation
\* after AddPeer, and nothing that becomes of the guest's other invitations (a
\* refusal, the collision of a second answer, a connection that ends) takes it
\* out again.
JoinedInRoster ==
    \A g \in Guest : Up(g) /\ guest[g].confirmedBy # Nil =>
        LET s == host[guest[g].confirmedBy]
        IN  \/ s.peers[g] # Nil
            \/ \E n \in DOMAIN s.addPeer : s.peerId[s.addPeer[n]] = g

\* Nothing is under way between a host and a guest.
Settled(h, g) ==
    /\ host[h].handler = Idle
    /\ ~host[h].syncRoster /\ host[h].sending = {}
    /\ host[h].addPeer = <<>> /\ host[h].updatePeer = <<>>
    /\ host[h].deletePeer = <<>>
    /\ \A i \in Invite : Invitee[i] = g => out[i] = <<>>
    /\ guest[g].updateRoster = <<>>

\* When all is settled, a guest has the rank its leader keeps for it: although
\* waitForInvitation takes the rank of the invitation received last, which may
\* not be the one that was accepted, and although rosters that come before the
\* confirmation are dropped, the last roster it gets puts it right.  (A guest
\* that dropped a confirmation, because it overtook SetLeader, and joins with a
\* later one is left out: it may miss every roster.  So are sessions in which a
\* rank was changed: the goroutines of syncRoster may send a roster read before
\* the change after one read later.)
RankSettles ==
    \A h \in Host, g \in Guest :
        Settled(h, g) /\ Up(g) /\ ~guest[g].ignored
                      /\ rankChanges = 0 /\ guest[g].confirmedBy = h
                      /\ LeaderOf(g) = h /\ GetPeer(h, g)
            => guest[g].Rank = host[h].peerRank[host[h].peers[g]]

\* A peer that has sent a heartbeat and then falls silent, without an error on
\* its connection, leaves the roster: its timer closes the connection, and the
\* writer goroutine has it deleted.
SilentDropped ==
    \A h \in Host, g \in Guest :
        (GetPeer(h, g) /\ host[h].peers[g] \in host[h].timed /\ ~Up(g))
            ~> ~GetPeer(h, g)

=============================================================================
