---------------------------- MODULE JoiningProofs -----------------------------
(***************************************************************************)
(* The safety of Joining for any number of hosts, guests and invitations:  *)
(* every variable keeps its type, a guest that was confirmed is in the     *)
(* roster, and the rank of a guest settles.                                *)
(***************************************************************************)
EXTENDS Joining, SequenceTheorems, TLAPS

-----------------------------------------------------------------------------
(* Types.                                                                  *)

\* An outstanding invitation is this host's, was dialled, and its Peer has no
\* id yet; nor has the Peer of one that was not dialled.
OutstandingInv ==
    \A h \in Host, i \in Invite :
        /\ i \in host[h].outstanding =>
             /\ Inviter[i] = h /\ host[h].peerId[i] = Nil
             /\ conn[i] \notin {"none", "dialling"}
        /\ conn[i] \in {"none", "dialling"} => host[h].peerId[i] = Nil

Confirming(h) == host[h].handler.pc \in {"confirm", "sendConfirm"}

\* The handler confirms an invitation, and a guest knows the one it received.
HandlerInv == \A h \in Host : Confirming(h) => host[h].handler.invite # Nil

ReceivedInv ==
    \A g \in Guest : guest[g].invitationReceived => guest[g].invitation # Nil

TypeInv == TypeOK /\ OutstandingInv /\ HandlerInv /\ ReceivedInv

-----------------------------------------------------------------------------
(* Confirmed guests.                                                       *)

\* The session a guest is invited to: all its invitations are from one host.
OneHostEach ==
    \A i, j \in Invite : Invitee[i] = Invitee[j] => Inviter[i] = Inviter[j]

\* A Random stands for one guest of a host (two guests of a host can be told
\* apart by it).
RandomsDiffer ==
    \A i, j \in Invite :
        Inviter[i] = Inviter[j] /\ Random[i] = Random[j]
            => Invitee[i] = Invitee[j]

\* What a guest holds is about invitations to it.
OwnInv ==
    /\ \A g \in Guest, i \in Invite :
         i \in {guest[g].invitation, guest[g].leader,
                guest[g].setLeader, guest[g].dialog} => Invitee[i] = g
    /\ \A g \in Guest : \A n \in DOMAIN guest[g].fromBrowser :
         Invitee[guest[g].fromBrowser[n].invite] = g
    /\ \A r \in responses : Invitee[r.invite] = Invitee[r.dialled]

\* The Peer of an invitation gets the id of the guest that was invited.
PeerIdInv ==
    \A h \in Host, i \in Invite : host[h].peerId[i] # Nil =>
        Inviter[i] = h /\ host[h].peerId[i] = Invitee[i]

\* Only guests that have set a leader have a timer.
TimedInv ==
    \A h \in Host : \A i \in host[h].timed : guest[Invitee[i]].leader # Nil

\* The Peer of an invitation has got its id.
Accepted(i) == host[Inviter[i]].peerId[i] # Nil

\* The connection of a guest that was accepted, and is there, is not closed.
CloseInv ==
    \A i \in Invite : conn[i] \in {"closing", "closed"} =>
        \/ ~Up(Invitee[i])
        \/ i \notin host[Inviter[i]].outstanding /\ ~Accepted(i)

\* Nor is the deletion of a guest that is there ever requested.
DeleteInv ==
    \A h \in Host : \A n \in DOMAIN host[h].deletePeer :
        host[h].deletePeer[n] # Nil => ~Up(host[h].deletePeer[n])

InRoster(h, g) ==
    \/ host[h].peers[g] # Nil
    \/ \E n \in DOMAIN host[h].addPeer : host[h].peerId[host[h].addPeer[n]] = g

\* A guest that was accepted, and is there, is in the roster or about to be.
AcceptedInv ==
    \A i \in Invite :
        Accepted(i) /\ Up(Invitee[i]) => InRoster(Inviter[i], Invitee[i])

IsConfirmation(m) == m.type = "JoinConfirmation" /\ m.Success

\* Only who was accepted is confirmed.
ConfirmInv ==
    /\ \A h \in Host : Confirming(h) =>
         host[h].peerId[host[h].handler.invite] # Nil
    /\ \A i \in Invite : \A n \in DOMAIN out[i] :
         IsConfirmation(out[i][n]) => Accepted(i)
    /\ \A g \in Guest : guest[g].confirmedBy # Nil =>
         \E i \in Invite : /\ Invitee[i] = g /\ Accepted(i)
                           /\ Inviter[i] = guest[g].confirmedBy

RosterInv ==
    OwnInv /\ PeerIdInv /\ TimedInv /\ CloseInv /\ DeleteInv /\ AcceptedInv
      /\ ConfirmInv

-----------------------------------------------------------------------------
(* Ranks, as long as none is changed.                                      *)

Has(roster, g) == \E e \in roster : e.id = g

\* A roster is true of g, whose Peer is that of i: it has the rank of i.
TrueOf(roster, i, g) ==
    \A e \in roster : e.id = g => i # Nil /\ e.rank = RankOffered[i]

HasRoster(m) == m.type \in {"JoinConfirmation", "RosterUpdate"}

\* No rank is changed, so none is to be updated.
NoChangeInv ==
    \A h \in Host : host[h].updatePeer = <<>> /\ host[h].peerRank = RankOffered

\* The rosters that a host holds, that are on a connection and that a guest has
\* received are true of the guests that are there.
HeldTrue(h) ==
    \A g \in Guest : Up(g) =>
        /\ TrueOf(host[h].handler.roster, host[h].peers[g], g)
        /\ \A roster \in host[h].sending : TrueOf(roster, host[h].peers[g], g)

OutTrue(i) ==
    Up(Invitee[i]) => \A n \in DOMAIN out[i] : HasRoster(out[i][n]) =>
        TrueOf(out[i][n].Roster,
               host[Inviter[i]].peers[Invitee[i]], Invitee[i])

TakenTrue(i) ==
    LET g == Invitee[i]
    IN  Up(g) => \A n \in DOMAIN guest[g].updateRoster :
          TrueOf(guest[g].updateRoster[n], host[Inviter[i]].peers[g], g)

TrueInv ==
    /\ \A h \in Host : HeldTrue(h)
    /\ \A i \in Invite : OutTrue(i) /\ TakenTrue(i)

\* Who was accepted, or has answered, has started; a guest has a rank once it
\* has a leader that confirmed it, and rosters only then.
JoinInv ==
    /\ \A i \in Invite : Accepted(i) => guest[Invitee[i]].started
    /\ \A r \in responses : guest[Invitee[r.dialled]].started
    /\ \A g \in Guest :
         IF guest[g].Rank = Unknown
         THEN guest[g].updateRoster = <<>> /\ guest[g].confirmedBy = Nil
         ELSE guest[g].leader # Nil /\ guest[g].confirmedBy # Nil

\* A roster with g will be sent.
Pending(h, g) ==
    \/ host[h].addPeer # <<>>
    \/ host[h].syncRoster
    \/ \E roster \in host[h].sending : Has(roster, g)
    \/ host[h].handler.pc \in {"confirm", "sendConfirm", "broadcast"}
    \/ host[h].handler.pc = "sendBroadcast" /\ Has(host[h].handler.roster, g)

IsRoster(m, g) == m.type = "RosterUpdate" /\ Has(m.Roster, g)

\* One was sent, or was sent after a confirmation.
Sent(h, g) ==
    LET i == host[h].peers[g]
    IN  i # Nil /\ \E n \in DOMAIN out[i] : IsRoster(out[i][n], g)

SentAfter(h, g) ==
    LET i == host[h].peers[g]
    IN  /\ i # Nil
        /\ \E n, m \in DOMAIN out[i] :
             n < m /\ IsConfirmation(out[i][n]) /\ IsRoster(out[i][m], g)

\* The confirmation of i is still to come.
Awaited(i) ==
    \/ Confirming(Inviter[i]) /\ host[Inviter[i]].handler.invite = i
    \/ \E n \in DOMAIN out[i] : IsConfirmation(out[i][n])

\* A guest that has joined has its rank, or a roster with it is on its way.
RankDue(h, g) ==
    \/ Pending(h, g)
    \/ Sent(h, g)
    \/ \E n \in DOMAIN guest[g].updateRoster : Has(guest[g].updateRoster[n], g)
    \/ /\ host[h].peers[g] # Nil
       /\ guest[g].Rank = RankOffered[host[h].peers[g]]

\* One that has not joined is still to get every confirmation, and after that
\* of the invitation it is in the roster for, a roster.
Due(i) ==
    LET h == Inviter[i]
        g == Invitee[i]
    IN  Accepted(i) /\ Up(g) /\ ~guest[g].ignored =>
          IF guest[g].Rank = Unknown
          THEN Awaited(i) /\ (Pending(h, g) \/ SentAfter(h, g))
          ELSE RankDue(h, g)

DueInv == \A i \in Invite : Due(i)

SettleInv ==
    /\ JoinInv
    /\ rankChanges = 0 => NoChangeInv /\ TrueInv /\ DueInv

IInv == TypeInv /\ RosterInv /\ SettleInv

-----------------------------------------------------------------------------
(* What the actions of a host do to its record.                            *)

\* A step of host h leaves the other hosts alone.
StepOf(h) ==
    /\ host' \in [Host -> Hosts]
    /\ \A k \in Host \ {h} : host'[k] = host[k]

\* Groups of fields that a step may leave alone.
SameIds(h) ==
    /\ host'[h].outstanding = host[h].outstanding
    /\ host'[h].peerId = host[h].peerId

SamePeers(h) ==
    /\ host'[h].peers = host[h].peers
    /\ host'[h].addPeer = host[h].addPeer

SameRanks(h) ==
    /\ host'[h].peerRank = host[h].peerRank
    /\ host'[h].updatePeer = host[h].updatePeer

SameTimed(h) == host'[h].timed = host[h].timed

SameDelete(h) == host'[h].deletePeer = host[h].deletePeer

SameSync(h) ==
    /\ host'[h].syncRoster = host[h].syncRoster
    /\ host'[h].sending = host[h].sending

SameHandler(h) == host'[h].handler = host[h].handler

Same(h) ==
    /\ SameIds(h) /\ SamePeers(h) /\ SameRanks(h) /\ SameTimed(h)
    /\ SameDelete(h) /\ SameSync(h) /\ SameHandler(h)

\* A record replaces that of h.
LEMMA HostUpdate ==
    ASSUME host \in [Host -> Hosts], NEW h \in Host, NEW t \in Hosts,
           host' = [host EXCEPT ![h] = t]
    PROVE  StepOf(h) /\ host'[h] = t
BY DEF StepOf


\* Starting a session changes nothing of these.
LEMMA HostInitEffect ==
    ASSUME TypeInv, NEW h \in Host, HostInit(h)
    PROVE  /\ StepOf(h)
           /\ Same(h)
<1> DEFINE t == [host[h] EXCEPT !.phase = "wait",
                  !.becomeLeader = TRUE]
<1>1. host \in [Host -> Hosts] /\ host[h] \in Hosts
  BY DEF TypeInv, TypeOK
<1>2. host' = [host EXCEPT ![h] = t]
  BY Zenon DEF HostInit
<1>3. TRUE \in BOOLEAN /\ FALSE \in BOOLEAN
  OBVIOUS
<1>8. t \in Hosts
  BY <1>1, <1>3 DEF Hosts
<1>9. StepOf(h) /\ host'[h] = t
  BY <1>1, <1>2, <1>8, HostUpdate
<1> QED
  BY <1>1, <1>9
     DEF Hosts, SameIds, SamePeers, SameRanks, SameTimed, SameDelete,
         SameSync, SameHandler, Same

\* Nor does entering the loop.
LEMMA EnterLoopEffect ==
    ASSUME TypeInv, NEW h \in Host, EnterLoop(h)
    PROVE  /\ StepOf(h)
           /\ Same(h)
<1> DEFINE t == [host[h] EXCEPT !.phase = "loop"]
<1>1. host \in [Host -> Hosts] /\ host[h] \in Hosts
  BY DEF TypeInv, TypeOK
<1>2. host' = [host EXCEPT ![h] = t]
  BY Zenon DEF EnterLoop
<1>8. t \in Hosts
  BY <1>1 DEF Hosts
<1>9. StepOf(h) /\ host'[h] = t
  BY <1>1, <1>2, <1>8, HostUpdate
<1> QED
  BY <1>1, <1>9
     DEF Hosts, SameIds, SamePeers, SameRanks, SameTimed, SameDelete,
         SameSync, SameHandler, Same

\* Becoming leader forgets the invitations and synchronises the roster.
LEMMA BecomeLeaderEffect ==
    ASSUME TypeInv, NEW h \in Host, DoBecomeLeader(h)
    PROVE  /\ StepOf(h)
           /\ host'[h].outstanding = {}
           /\ host'[h].peerId = host[h].peerId
           /\ host'[h].syncRoster = TRUE
           /\ host'[h].sending = host[h].sending
           /\ SamePeers(h) /\ SameRanks(h) /\ SameTimed(h) /\ SameDelete(h)
           /\ SameHandler(h)
<1> DEFINE t == [host[h] EXCEPT !.becomeLeader = FALSE,
                  !.isLeader = TRUE,
                  !.outstanding = {},
                  !.syncRoster = TRUE]
<1>1. host \in [Host -> Hosts] /\ host[h] \in Hosts
  BY DEF TypeInv, TypeOK
<1>2. host' = [host EXCEPT ![h] = t]
  BY Zenon DEF DoBecomeLeader
<1>3. TRUE \in BOOLEAN /\ FALSE \in BOOLEAN
  OBVIOUS
<1>4. {} \in SUBSET Invite
  OBVIOUS
<1>8. t \in Hosts
  BY <1>1, <1>3, <1>4 DEF Hosts
<1>9. StepOf(h) /\ host'[h] = t
  BY <1>1, <1>2, <1>8, HostUpdate
<1> QED
  BY <1>1, <1>9
     DEF Hosts, SamePeers, SameRanks, SameTimed, SameDelete, SameHandler

\* A dialled invitation is outstanding, in place of one of the same Random.
LEMMA DialEffect ==
    ASSUME TypeInv, NEW h \in Host, NEW i \in Invite,
           host' = [host EXCEPT ![h].outstanding =
             {j \in @ : Random[j] # Random[i]} \cup {i}]
    PROVE  /\ StepOf(h)
           /\ host'[h].outstanding =
                {j \in host[h].outstanding : Random[j] # Random[i]} \cup {i}
           /\ host'[h].peerId = host[h].peerId
           /\ SamePeers(h) /\ SameRanks(h) /\ SameTimed(h) /\ SameDelete(h)
           /\ SameSync(h) /\ SameHandler(h)
<1> DEFINE t == [host[h] EXCEPT !.outstanding = 
                  {j \in @ : Random[j] # Random[i]} \cup {i}]
<1>1. host \in [Host -> Hosts] /\ host[h] \in Hosts
  BY DEF TypeInv, TypeOK
<1>2. host' = [host EXCEPT ![h] = t]
  BY Zenon
<1>3. {j \in host[h].outstanding : Random[j] # Random[i]} \cup {i}
        \in SUBSET Invite
  BY <1>1 DEF Hosts
<1>8. t \in Hosts
  BY <1>1, <1>3 DEF Hosts
<1>9. StepOf(h) /\ host'[h] = t
  BY <1>1, <1>2, <1>8, HostUpdate
<1> QED
  BY <1>1, <1>9
     DEF Hosts, SamePeers, SameRanks, SameTimed, SameDelete, SameSync,
         SameHandler

\* A refused invitation is no longer outstanding.
LEMMA RefuseEffect ==
    ASSUME TypeInv, NEW h \in Host, NEW i \in Invite,
           Refuse(h, i, Nil)
    PROVE  /\ StepOf(h)
           /\ host'[h].outstanding = host[h].outstanding \ {i}
           /\ host'[h].peerId = [host[h].peerId EXCEPT ![i] = Nil]
           /\ SamePeers(h) /\ SameRanks(h) /\ SameTimed(h) /\ SameDelete(h)
           /\ SameSync(h) /\ SameHandler(h)
<1> DEFINE t == [host[h] EXCEPT !.outstanding = @ \ {i},
                  !.peerId = [@ EXCEPT ![i] = Nil]]
<1>1. host \in [Host -> Hosts] /\ host[h] \in Hosts
  BY DEF TypeInv, TypeOK
<1>2. host' = [host EXCEPT ![h] = t]
  BY Zenon DEF Refuse
<1>3. host[h].outstanding \ {i} \in SUBSET Invite
  BY <1>1 DEF Hosts
<1>4. [host[h].peerId EXCEPT ![i] = Nil] \in [Invite -> Guest \cup {Nil}]
  BY <1>1 DEF Hosts
<1>8. t \in Hosts
  BY <1>1, <1>3, <1>4 DEF Hosts
<1>9. StepOf(h) /\ host'[h] = t
  BY <1>1, <1>2, <1>8, HostUpdate
<1> QED
  BY <1>1, <1>9
     DEF Hosts, SamePeers, SameRanks, SameTimed, SameDelete, SameSync,
         SameHandler

\* An accepted one is to be added, with its id, and to be confirmed.
LEMMA AcceptEffect ==
    ASSUME TypeInv, NEW h \in Host, NEW i \in Invite,
           NEW g \in Guest, Accept(h, i, g)
    PROVE  /\ StepOf(h)
           /\ host'[h].outstanding = host[h].outstanding \ {i}
           /\ host'[h].peerId = [host[h].peerId EXCEPT ![i] = g]
           /\ host'[h].peers = host[h].peers
           /\ host'[h].addPeer = Append(host[h].addPeer, i)
           /\ host'[h].handler =
                [pc |-> "confirm", invite |-> i, roster |-> {}]
           /\ SameRanks(h) /\ SameTimed(h) /\ SameDelete(h) /\ SameSync(h)
<1> DEFINE t == [host[h] EXCEPT !.outstanding = @ \ {i},
                  !.peerId = [@ EXCEPT ![i] = g],
                  !.addPeer = Append(@, i),
                  !.handler = 
                  [Idle EXCEPT !.pc = "confirm", !.invite = i]]
<1>1. host \in [Host -> Hosts] /\ host[h] \in Hosts
  BY DEF TypeInv, TypeOK
<1>2. host' = [host EXCEPT ![h] = t]
  BY Zenon DEF Accept
<1>3. host[h].outstanding \ {i} \in SUBSET Invite
  BY <1>1 DEF Hosts
<1>4. [host[h].peerId EXCEPT ![i] = g] \in [Invite -> Guest \cup {Nil}]
  BY <1>1 DEF Hosts
<1>5. Append(host[h].addPeer, i) \in Seq(Invite)
  BY <1>1 DEF Hosts
<1>6. [Idle EXCEPT !.pc = "confirm", !.invite = i] \in Handlers
  BY DEF Idle, Handlers, Rosters
<1>8. t \in Hosts
  BY <1>1, <1>3, <1>4, <1>5, <1>6 DEF Hosts
<1>9. StepOf(h) /\ host'[h] = t
  BY <1>1, <1>2, <1>8, HostUpdate
<1> QED
  BY <1>1, <1>9
     DEF Hosts, Idle, SameRanks, SameTimed, SameDelete, SameSync

\* A roster is one.
LEMMA RosterType ==
    ASSUME TypeInv, NEW h \in Host
    PROVE  GetRoster(h) \in Rosters
<1>1. host[h] \in Hosts
  BY DEF TypeInv, TypeOK
<1>2. ASSUME NEW g \in Guest, GetPeer(h, g)
      PROVE  host[h].peerRank[host[h].peers[g]] \in Ranks
  BY <1>1, <1>2 DEF Hosts, GetPeer
<1> QED
  BY <1>2 DEF GetRoster, Rosters

\* The handler reads the roster.
LEMMA ReadEffect ==
    ASSUME TypeInv, NEW h \in Host, 
           NEW pc \in {"sendConfirm", "sendBroadcast"},
           host' = [host EXCEPT ![h].handler.pc = pc,
                                ![h].handler.roster = GetRoster(h)]
    PROVE  /\ StepOf(h)
           /\ host'[h].handler.pc = pc
           /\ host'[h].handler.invite = host[h].handler.invite
           /\ host'[h].handler.roster = GetRoster(h)
           /\ SameIds(h) /\ SamePeers(h) /\ SameRanks(h) /\ SameTimed(h)
           /\ SameDelete(h) /\ SameSync(h)
<1> DEFINE t == [host[h] EXCEPT !.handler = 
                  [@ EXCEPT !.pc = pc, !.roster = GetRoster(h)]]
<1>1. host \in [Host -> Hosts] /\ host[h] \in Hosts
  BY DEF TypeInv, TypeOK
<1>2. host' = [host EXCEPT ![h] = t]
  BY Zenon
<1>3. [host[h].handler EXCEPT !.pc = pc, !.roster = GetRoster(h)] \in Handlers
  BY <1>1, RosterType DEF Hosts, Handlers
<1>8. t \in Hosts
  BY <1>1, <1>3 DEF Hosts
<1>9. StepOf(h) /\ host'[h] = t
  BY <1>1, <1>2, <1>8, HostUpdate
<1> QED
  BY <1>1, <1>9
     DEF Hosts, SameIds, SamePeers, SameRanks, SameTimed, SameDelete, SameSync

\* The handler moves on.
LEMMA HandlerEffect ==
    ASSUME TypeInv, NEW h \in Host, NEW next \in Handlers,
           host' = [host EXCEPT ![h].handler = next]
    PROVE  /\ StepOf(h)
           /\ host'[h].handler = next
           /\ SameIds(h) /\ SamePeers(h) /\ SameRanks(h) /\ SameTimed(h)
           /\ SameDelete(h) /\ SameSync(h)
<1> DEFINE t == [host[h] EXCEPT !.handler = next]
<1>1. host \in [Host -> Hosts] /\ host[h] \in Hosts
  BY DEF TypeInv, TypeOK
<1>2. host' = [host EXCEPT ![h] = t]
  BY Zenon
<1>8. t \in Hosts
  BY <1>1 DEF Hosts
<1>9. StepOf(h) /\ host'[h] = t
  BY <1>1, <1>2, <1>8, HostUpdate
<1> QED
  BY <1>1, <1>9
     DEF Hosts, SameIds, SamePeers, SameRanks, SameTimed, SameDelete, SameSync

\* A change of rank is requested.
LEMMA ChangeEffect ==
    ASSUME TypeInv, NEW h \in Host, NEW g \in Guest,
           NEW rank \in Ranks,
           host' = [host EXCEPT ![h].updatePeer =
             Append(@, [id |-> g, rank |-> rank])]
    PROVE  /\ StepOf(h)
           /\ SameIds(h) /\ SamePeers(h) /\ SameTimed(h) /\ SameDelete(h)
           /\ SameSync(h) /\ SameHandler(h)
<1> DEFINE t == [host[h] EXCEPT !.updatePeer = 
                  Append(@, [id |-> g, rank |-> rank])]
<1>1. host \in [Host -> Hosts] /\ host[h] \in Hosts
  BY DEF TypeInv, TypeOK
<1>2. host' = [host EXCEPT ![h] = t]
  BY Zenon
<1>3. Append(host[h].updatePeer, [id |-> g, rank |-> rank])
        \in Seq([id : Guest, rank : Ranks])
  <2>1. [id |-> g, rank |-> rank] \in [id : Guest, rank : Ranks]
    OBVIOUS
  <2>2. host[h].updatePeer \in Seq([id : Guest, rank : Ranks])
    BY <1>1 DEF Hosts
  <2> HIDE DEF t
  <2> QED
    BY <2>1, <2>2, AppendProperties
<1>8. t \in Hosts
  BY <1>1, <1>3 DEF Hosts
<1>9. StepOf(h) /\ host'[h] = t
  BY <1>1, <1>2, <1>8, HostUpdate
<1> QED
  BY <1>1, <1>9
     DEF Hosts, SameIds, SamePeers, SameTimed, SameDelete, SameSync,
         SameHandler

\* The actor adds a peer, unless there is one of that id.
LEMMA AddEffect ==
    ASSUME TypeInv, NEW h \in Host, DoAddPeer(h)
    PROVE  /\ StepOf(h)
           /\ host'[h].addPeer = Tail(host[h].addPeer)
           /\ host'[h].peers =
                LET i == Head(host[h].addPeer)
                    g == host[h].peerId[i]
                IN  IF host[h].peers[g] = Nil
                    THEN [host[h].peers EXCEPT ![g] = i] ELSE host[h].peers
           /\ host'[h].syncRoster = TRUE
           /\ host'[h].sending = host[h].sending
           /\ SameIds(h) /\ SameRanks(h) /\ SameTimed(h) /\ SameDelete(h)
           /\ SameHandler(h)
<1> DEFINE i  == Head(host[h].addPeer)
           id == host[h].peerId[i]
           t == [host[h] EXCEPT !.addPeer = Tail(@),
                  !.peers = IF @[id] = Nil THEN [@ EXCEPT ![id] = i] ELSE @,
                  !.syncRoster = TRUE]
<1>1. host \in [Host -> Hosts] /\ host[h] \in Hosts
  BY DEF TypeInv, TypeOK
<1>2. host' = [host EXCEPT ![h] = t]
  BY Zenon DEF DoAddPeer
<1>3. /\ Head(host[h].addPeer) \in Invite
      /\ Tail(host[h].addPeer) \in Seq(Invite)
      /\ 1 \in DOMAIN host[h].addPeer
      /\ Head(host[h].addPeer) = host[h].addPeer[1]
  BY <1>1 DEF Hosts, DoAddPeer
<1>4. host[h].peerId[Head(host[h].addPeer)] \in Guest
  BY <1>1, <1>3 DEF TypeInv, TypeOK, PeersHaveIds, Hosts
<1>5. TRUE \in BOOLEAN
  OBVIOUS
<1>8. t \in Hosts
  BY <1>1, <1>3, <1>4, <1>5 DEF Hosts
<1>9. StepOf(h) /\ host'[h] = t
  BY <1>1, <1>2, <1>8, HostUpdate
<1> QED
  BY <1>1, <1>9
     DEF Hosts, SameIds, SameRanks, SameTimed, SameDelete, SameHandler

\* The actor changes a rank.
LEMMA UpdateEffect ==
    ASSUME TypeInv, NEW h \in Host, DoUpdatePeer(h)
    PROVE  /\ StepOf(h)
           /\ host'[h].syncRoster = TRUE
           /\ host'[h].sending = host[h].sending
           /\ SameIds(h) /\ SamePeers(h) /\ SameTimed(h) /\ SameDelete(h)
           /\ SameHandler(h)
<1> DEFINE e == Head(host[h].updatePeer)
           t == [host[h] EXCEPT !.updatePeer = Tail(@),
                  !.peerRank = 
                  [j \in Invite |-> IF j = host[h].peers[e.id]
                                    THEN e.rank ELSE @[j]],
                  !.syncRoster = TRUE]
<1>1. host \in [Host -> Hosts] /\ host[h] \in Hosts
  BY DEF TypeInv, TypeOK
<1>2. host' = [host EXCEPT ![h] = t]
  BY Zenon DEF DoUpdatePeer
<1>3. /\ Head(host[h].updatePeer) \in [id : Guest, rank : Ranks]
      /\ Tail(host[h].updatePeer) \in Seq([id : Guest, rank : Ranks])
  <2> DEFINE E == [id : Guest, rank : Ranks]
  <2>1. host[h].updatePeer \in Seq(E) /\ host[h].updatePeer # <<>>
    BY <1>1 DEF Hosts, DoUpdatePeer
  <2> HIDE DEF E
  <2>2. Head(host[h].updatePeer) \in E /\ Tail(host[h].updatePeer) \in Seq(E)
    BY <2>1, HeadTailProperties
  <2> QED
    BY <2>2 DEF E
<1>4. Head(host[h].updatePeer).rank \in Ranks
  BY <1>3
<1>5. TRUE \in BOOLEAN
  OBVIOUS
<1>8. t \in Hosts
  BY <1>1, <1>3, <1>4, <1>5 DEF Hosts
<1>9. StepOf(h) /\ host'[h] = t
  BY <1>1, <1>2, <1>8, HostUpdate
<1> QED
  BY <1>1, <1>9
     DEF Hosts, SameIds, SamePeers, SameTimed, SameDelete, SameHandler

\* The actor deletes a peer.
LEMMA DeleteEffect ==
    ASSUME TypeInv, NEW h \in Host, DoDeletePeer(h)
    PROVE  /\ StepOf(h)
           /\ host'[h].deletePeer = Tail(host[h].deletePeer)
           /\ host'[h].peers =
                [g \in Guest |-> IF g = Head(host[h].deletePeer)
                                 THEN Nil ELSE host[h].peers[g]]
           /\ host'[h].addPeer = host[h].addPeer
           /\ host'[h].syncRoster = TRUE
           /\ host'[h].sending = host[h].sending
           /\ SameIds(h) /\ SameRanks(h) /\ SameTimed(h) /\ SameHandler(h)
<1> DEFINE t == [host[h] EXCEPT !.deletePeer = Tail(@),
                  !.peers = 
                  [g \in Guest |-> IF g = Head(host[h].deletePeer)
                                   THEN Nil ELSE @[g]],
                  !.syncRoster = TRUE]
<1>1. host \in [Host -> Hosts] /\ host[h] \in Hosts
  BY DEF TypeInv, TypeOK
<1>2. host' = [host EXCEPT ![h] = t]
  BY Zenon DEF DoDeletePeer
<1>3. Tail(host[h].deletePeer) \in Seq(Guest \cup {Nil})
  <2> DEFINE D == Guest \cup {Nil}
  <2>1. host[h].deletePeer \in Seq(D) /\ host[h].deletePeer # <<>>
    BY <1>1 DEF Hosts, DoDeletePeer
  <2> HIDE DEF D
  <2>2. Tail(host[h].deletePeer) \in Seq(D)
    BY <2>1, HeadTailProperties
  <2> QED
    BY <2>2 DEF D
<1>5. TRUE \in BOOLEAN
  OBVIOUS
<1>8. t \in Hosts
  BY <1>1, <1>3, <1>5 DEF Hosts
<1>9. StepOf(h) /\ host'[h] = t
  BY <1>1, <1>2, <1>8, HostUpdate
<1> QED
  BY <1>1, <1>9
     DEF Hosts, SameIds, SameRanks, SameTimed, SameHandler

\* A roster is read to be sent.
LEMMA SyncReadsEffect ==
    ASSUME TypeInv, NEW h \in Host, SyncReads(h)
    PROVE  /\ StepOf(h)
           /\ host'[h].sending = host[h].sending \cup {GetRoster(h)}
           /\ SameIds(h) /\ SamePeers(h) /\ SameRanks(h) /\ SameTimed(h)
           /\ SameDelete(h) /\ SameHandler(h)
<1> DEFINE t == [host[h] EXCEPT !.syncRoster = FALSE,
                  !.sending = @ \cup {GetRoster(h)}]
<1>1. host \in [Host -> Hosts] /\ host[h] \in Hosts
  BY DEF TypeInv, TypeOK
<1>2. host' = [host EXCEPT ![h] = t]
  BY Zenon DEF SyncReads
<1>3. host[h].sending \cup {GetRoster(h)} \in SUBSET Rosters
  BY <1>1, RosterType DEF Hosts
<1>4. FALSE \in BOOLEAN
  OBVIOUS
<1>8. t \in Hosts
  BY <1>1, <1>3, <1>4 DEF Hosts
<1>9. StepOf(h) /\ host'[h] = t
  BY <1>1, <1>2, <1>8, HostUpdate
<1> QED
  BY <1>1, <1>9
     DEF Hosts, SameIds, SamePeers, SameRanks, SameTimed, SameDelete,
         SameHandler

\* One of them is sent.
LEMMA SyncSendsEffect ==
    ASSUME TypeInv, NEW h \in Host, NEW roster,
           host' = [host EXCEPT ![h].sending = @ \ {roster}]
    PROVE  /\ StepOf(h)
           /\ host'[h].sending = host[h].sending \ {roster}
           /\ host'[h].syncRoster = host[h].syncRoster
           /\ SameIds(h) /\ SamePeers(h) /\ SameRanks(h) /\ SameTimed(h)
           /\ SameDelete(h) /\ SameHandler(h)
<1> DEFINE t == [host[h] EXCEPT !.sending = @ \ {roster}]
<1>1. host \in [Host -> Hosts] /\ host[h] \in Hosts
  BY DEF TypeInv, TypeOK
<1>2. host' = [host EXCEPT ![h] = t]
  BY Zenon
<1>3. host[h].sending \ {roster} \in SUBSET Rosters
  BY <1>1 DEF Hosts
<1>8. t \in Hosts
  BY <1>1, <1>3 DEF Hosts
<1>9. StepOf(h) /\ host'[h] = t
  BY <1>1, <1>2, <1>8, HostUpdate
<1> QED
  BY <1>1, <1>9
     DEF Hosts, SameIds, SamePeers, SameRanks, SameTimed, SameDelete,
         SameHandler

\* Timers are started and fire.
LEMMA TimedEffect ==
    ASSUME TypeInv, NEW h \in Host, NEW T \in SUBSET Invite,
           host' = [host EXCEPT ![h].timed = T]
    PROVE  /\ StepOf(h)
           /\ host'[h].timed = T
           /\ SameIds(h) /\ SamePeers(h) /\ SameRanks(h) /\ SameDelete(h)
           /\ SameSync(h) /\ SameHandler(h)
<1> DEFINE t == [host[h] EXCEPT !.timed = T]
<1>1. host \in [Host -> Hosts] /\ host[h] \in Hosts
  BY DEF TypeInv, TypeOK
<1>2. host' = [host EXCEPT ![h] = t]
  BY Zenon
<1>8. t \in Hosts
  BY <1>1 DEF Hosts
<1>9. StepOf(h) /\ host'[h] = t
  BY <1>1, <1>2, <1>8, HostUpdate
<1> QED
  BY <1>1, <1>9
     DEF Hosts, SameIds, SamePeers, SameRanks, SameDelete, SameSync,
         SameHandler

\* A deletion is requested.
LEMMA WriterEffect ==
    ASSUME TypeInv, NEW h \in Host, NEW d \in Guest \cup {Nil},
           host' = [host EXCEPT ![h].deletePeer = @ \o <<d>>]
    PROVE  /\ StepOf(h)
           /\ host'[h].deletePeer = host[h].deletePeer \o <<d>>
           /\ SameIds(h) /\ SamePeers(h) /\ SameRanks(h) /\ SameTimed(h)
           /\ SameSync(h) /\ SameHandler(h)
<1> DEFINE t == [host[h] EXCEPT !.deletePeer = @ \o <<d>>]
<1>1. host \in [Host -> Hosts] /\ host[h] \in Hosts
  BY DEF TypeInv, TypeOK
<1>2. host' = [host EXCEPT ![h] = t]
  BY Zenon
<1>3. host[h].deletePeer \o <<d>> \in Seq(Guest \cup {Nil})
  BY <1>1 DEF Hosts
<1>8. t \in Hosts
  BY <1>1, <1>3 DEF Hosts
<1>9. StepOf(h) /\ host'[h] = t
  BY <1>1, <1>2, <1>8, HostUpdate
<1> QED
  BY <1>1, <1>9
     DEF Hosts, SameIds, SamePeers, SameRanks, SameTimed, SameSync,
         SameHandler

-----------------------------------------------------------------------------
(* What the actions of a guest do to its record.                           *)

GuestStepOf(g) ==
    /\ guest' \in [Guest -> Guests]
    /\ \A x \in Guest \ {g} : guest'[x] = guest[x]

SameStatus(g) ==
    /\ guest'[g].status = guest[g].status
    /\ guest'[g].started = guest[g].started

SameRank(g) ==
    /\ guest'[g].Rank = guest[g].Rank
    /\ guest'[g].updateRoster = guest[g].updateRoster
    /\ guest'[g].confirmedBy = guest[g].confirmedBy
    /\ guest'[g].ignored = guest[g].ignored

SameReceived(g) ==
    /\ guest'[g].invitationReceived = guest[g].invitationReceived
    /\ guest'[g].invitation = guest[g].invitation

SameLeader(g) ==
    /\ guest'[g].leader = guest[g].leader
    /\ guest'[g].setLeader = guest[g].setLeader

SameBrowser(g) ==
    /\ guest'[g].dialog = guest[g].dialog
    /\ guest'[g].fromBrowser = guest[g].fromBrowser

\* A record replaces that of g.
LEMMA GuestUpdate ==
    ASSUME guest \in [Guest -> Guests], NEW g \in Guest, NEW t \in Guests,
           guest' = [guest EXCEPT ![g] = t]
    PROVE  GuestStepOf(g) /\ guest'[g] = t
BY DEF GuestStepOf

\* The guest starts.
LEMMA GuestInitEffect ==
    ASSUME TypeInv, NEW g \in Guest, GuestInit(g)
    PROVE  /\ GuestStepOf(g)
           /\ guest'[g].status = guest[g].status
           /\ guest'[g].started = TRUE
           /\ SameRank(g) /\ SameReceived(g) /\ SameLeader(g)
           /\ SameBrowser(g)
<1> DEFINE t == [guest[g] EXCEPT !.started = TRUE]
<1>1. guest \in [Guest -> Guests] /\ guest[g] \in Guests
  BY DEF TypeInv, TypeOK
<1>2. guest' = [guest EXCEPT ![g] = t]
  BY Zenon DEF GuestInit
<1>3. TRUE \in BOOLEAN
  OBVIOUS
<1>8. t \in Guests
  BY <1>1, <1>3 DEF Guests
<1>9. GuestStepOf(g) /\ guest'[g] = t
  BY <1>1, <1>2, <1>8, GuestUpdate
<1> QED
  BY <1>1, <1>9
     DEF Guests, SameRank, SameReceived, SameLeader, SameBrowser

\* The browser answers.
LEMMA AnswerEffect ==
    ASSUME TypeInv, NEW g \in Guest, NEW a \in BOOLEAN,
           BrowserAnswers(g, a)
    PROVE  /\ GuestStepOf(g)
           /\ guest'[g].dialog = Nil
           /\ guest'[g].fromBrowser =
                Append(guest[g].fromBrowser,
                       [invite |-> guest[g].dialog, Accepted |-> a])
           /\ SameStatus(g) /\ SameRank(g) /\ SameReceived(g)
           /\ SameLeader(g)
<1> DEFINE t == [guest[g] EXCEPT !.dialog = Nil,
                  !.fromBrowser = 
                  Append(@, [invite |-> guest[g].dialog, Accepted |-> a])]
<1>1. guest \in [Guest -> Guests] /\ guest[g] \in Guests
  BY DEF TypeInv, TypeOK
<1>2. guest' = [guest EXCEPT ![g] = t]
  BY Zenon DEF BrowserAnswers
<1>3. Append(guest[g].fromBrowser,
             [invite |-> guest[g].dialog, Accepted |-> a])
        \in Seq([invite : Invite, Accepted : BOOLEAN])
  <2> DEFINE E == [invite : Invite, Accepted : BOOLEAN]
             e == [invite |-> guest[g].dialog, Accepted |-> a]
  <2>1. guest[g].fromBrowser \in Seq(E) /\ e \in E
    BY <1>1 DEF Guests, BrowserAnswers
  <2> HIDE DEF E, e, t
  <2>2. Append(guest[g].fromBrowser, e) \in Seq(E)
    BY <2>1, AppendProperties
  <2> QED
    BY <2>2 DEF E, e
<1>8. t \in Guests
  BY <1>1, <1>3 DEF Guests
<1>9. GuestStepOf(g) /\ guest'[g] = t
  BY <1>1, <1>2, <1>8, GuestUpdate
<1> QED
  BY <1>1, <1>9
     DEF Guests, SameStatus, SameRank, SameReceived, SameLeader

\* The answer of the browser is handled: nothing is noted,
LEMMA RespondEffect ==
    ASSUME TypeInv, NEW g \in Guest, guest[g].fromBrowser # <<>>,
           guest' = [guest EXCEPT ![g].fromBrowser = Tail(@)]
    PROVE  /\ GuestStepOf(g)
           /\ guest'[g].dialog = guest[g].dialog
           /\ guest'[g].fromBrowser = Tail(guest[g].fromBrowser)
           /\ SameStatus(g) /\ SameRank(g) /\ SameReceived(g)
           /\ SameLeader(g)
<1> DEFINE t == [guest[g] EXCEPT !.fromBrowser = Tail(@)]
<1>1. guest \in [Guest -> Guests] /\ guest[g] \in Guests
  BY DEF TypeInv, TypeOK
<1>2. guest' = [guest EXCEPT ![g] = t]
  BY Zenon
<1>3. Tail(guest[g].fromBrowser) \in Seq([invite : Invite, Accepted : BOOLEAN])
  <2> DEFINE E == [invite : Invite, Accepted : BOOLEAN]
  <2>1. guest[g].fromBrowser \in Seq(E) /\ guest[g].fromBrowser # <<>>
    BY <1>1 DEF Guests
  <2> HIDE DEF E, t
  <2>2. Tail(guest[g].fromBrowser) \in Seq(E)
    BY <2>1, HeadTailProperties
  <2> QED
    BY <2>2 DEF E
<1>8. t \in Guests
  BY <1>1, <1>3 DEF Guests
<1>9. GuestStepOf(g) /\ guest'[g] = t
  BY <1>1, <1>2, <1>8, GuestUpdate
<1> QED
  BY <1>1, <1>9
     DEF Guests, SameStatus, SameRank, SameReceived, SameLeader

\* the invitation is forgotten,
LEMMA RefuseInviteEffect ==
    ASSUME TypeInv, NEW g \in Guest, guest[g].fromBrowser # <<>>,
           guest' = [guest EXCEPT ![g].fromBrowser = Tail(@),
                                  ![g].invitationReceived = FALSE]
    PROVE  /\ GuestStepOf(g)
           /\ guest'[g].dialog = guest[g].dialog
           /\ guest'[g].fromBrowser = Tail(guest[g].fromBrowser)
           /\ guest'[g].invitationReceived = FALSE
           /\ guest'[g].invitation = guest[g].invitation
           /\ SameStatus(g) /\ SameRank(g) /\ SameLeader(g)
<1> DEFINE t == [guest[g] EXCEPT !.fromBrowser = Tail(@),
                  !.invitationReceived = FALSE]
<1>1. guest \in [Guest -> Guests] /\ guest[g] \in Guests
  BY DEF TypeInv, TypeOK
<1>2. guest' = [guest EXCEPT ![g] = t]
  BY Zenon
<1>3. Tail(guest[g].fromBrowser) \in Seq([invite : Invite, Accepted : BOOLEAN])
  <2> DEFINE E == [invite : Invite, Accepted : BOOLEAN]
  <2>1. guest[g].fromBrowser \in Seq(E) /\ guest[g].fromBrowser # <<>>
    BY <1>1 DEF Guests
  <2> HIDE DEF E, t
  <2>2. Tail(guest[g].fromBrowser) \in Seq(E)
    BY <2>1, HeadTailProperties
  <2> QED
    BY <2>2 DEF E
<1>4. FALSE \in BOOLEAN
  OBVIOUS
<1>8. t \in Guests
  BY <1>1, <1>3, <1>4 DEF Guests
<1>9. GuestStepOf(g) /\ guest'[g] = t
  BY <1>1, <1>2, <1>8, GuestUpdate
<1> QED
  BY <1>1, <1>9
     DEF Guests, SameStatus, SameRank, SameLeader

\* or a leader is to be set.
LEMMA AcceptInviteEffect ==
    ASSUME TypeInv, NEW g \in Guest, guest[g].fromBrowser # <<>>,
           guest' = [guest EXCEPT ![g].fromBrowser = Tail(@),
                                  ![g].setLeader = guest[g].invitation]
    PROVE  /\ GuestStepOf(g)
           /\ guest'[g].dialog = guest[g].dialog
           /\ guest'[g].fromBrowser = Tail(guest[g].fromBrowser)
           /\ guest'[g].leader = guest[g].leader
           /\ guest'[g].setLeader = guest[g].invitation
           /\ SameStatus(g) /\ SameRank(g) /\ SameReceived(g)
<1> DEFINE t == [guest[g] EXCEPT !.fromBrowser = Tail(@),
                  !.setLeader = guest[g].invitation]
<1>1. guest \in [Guest -> Guests] /\ guest[g] \in Guests
  BY DEF TypeInv, TypeOK
<1>2. guest' = [guest EXCEPT ![g] = t]
  BY Zenon
<1>3. Tail(guest[g].fromBrowser) \in Seq([invite : Invite, Accepted : BOOLEAN])
  <2> DEFINE E == [invite : Invite, Accepted : BOOLEAN]
  <2>1. guest[g].fromBrowser \in Seq(E) /\ guest[g].fromBrowser # <<>>
    BY <1>1 DEF Guests
  <2> HIDE DEF E, t
  <2>2. Tail(guest[g].fromBrowser) \in Seq(E)
    BY <2>1, HeadTailProperties
  <2> QED
    BY <2>2 DEF E
<1>8. t \in Guests
  BY <1>1, <1>3 DEF Guests
<1>9. GuestStepOf(g) /\ guest'[g] = t
  BY <1>1, <1>2, <1>8, GuestUpdate
<1> QED
  BY <1>1, <1>9
     DEF Guests, SameStatus, SameRank, SameReceived

\* The leader is set.
LEMMA SetLeaderEffect ==
    ASSUME TypeInv, NEW g \in Guest, DoSetLeader(g)
    PROVE  /\ GuestStepOf(g)
           /\ guest'[g].leader = guest[g].setLeader
           /\ guest'[g].setLeader = Nil
           /\ SameStatus(g) /\ SameRank(g) /\ SameReceived(g)
           /\ SameBrowser(g)
<1> DEFINE t == [guest[g] EXCEPT !.leader = guest[g].setLeader,
                  !.setLeader = Nil]
<1>1. guest \in [Guest -> Guests] /\ guest[g] \in Guests
  BY DEF TypeInv, TypeOK
<1>2. guest' = [guest EXCEPT ![g] = t]
  BY Zenon DEF DoSetLeader
<1>8. t \in Guests
  BY <1>1 DEF Guests
<1>9. GuestStepOf(g) /\ guest'[g] = t
  BY <1>1, <1>2, <1>8, GuestUpdate
<1> QED
  BY <1>1, <1>9
     DEF Guests, SameStatus, SameRank, SameReceived, SameBrowser

\* An invitation is received.
LEMMA InvitationEffect ==
    ASSUME TypeInv, NEW g \in Guest, NEW i \in Invite,
           ReceiveInvitation(g, i)
    PROVE  /\ GuestStepOf(g)
           /\ guest'[g].invitationReceived = TRUE
           /\ guest'[g].invitation = i
           /\ guest'[g].dialog = ShowInvitation(g, i)
           /\ guest'[g].fromBrowser = guest[g].fromBrowser
           /\ SameStatus(g) /\ SameRank(g) /\ SameLeader(g)
<1> DEFINE t == [guest[g] EXCEPT !.invitationReceived = TRUE,
                  !.invitation = i,
                  !.dialog = ShowInvitation(g, i)]
<1>1. guest \in [Guest -> Guests] /\ guest[g] \in Guests
  BY DEF TypeInv, TypeOK
<1>2. guest' = [guest EXCEPT ![g] = t]
  BY Zenon DEF ReceiveInvitation
<1>3. ShowInvitation(g, i) \in {i, guest[g].dialog}
  BY DEF ShowInvitation
<1>4. TRUE \in BOOLEAN
  OBVIOUS
<1>8. t \in Guests
  BY <1>1, <1>3, <1>4 DEF Guests
<1>9. GuestStepOf(g) /\ guest'[g] = t
  BY <1>1, <1>2, <1>8, GuestUpdate
<1> QED
  BY <1>1, <1>9
     DEF Guests, SameStatus, SameRank, SameLeader

\* A confirmation is dropped.
LEMMA IgnoreEffect ==
    ASSUME TypeInv, NEW g \in Guest, 
           guest' = [guest EXCEPT ![g].ignored = TRUE]
    PROVE  /\ GuestStepOf(g)
           /\ guest'[g].ignored = TRUE
           /\ guest'[g].Rank = guest[g].Rank
           /\ guest'[g].updateRoster = guest[g].updateRoster
           /\ guest'[g].confirmedBy = guest[g].confirmedBy
           /\ SameStatus(g) /\ SameReceived(g) /\ SameLeader(g)
           /\ SameBrowser(g)
<1> DEFINE t == [guest[g] EXCEPT !.ignored = TRUE]
<1>1. guest \in [Guest -> Guests] /\ guest[g] \in Guests
  BY DEF TypeInv, TypeOK
<1>2. guest' = [guest EXCEPT ![g] = t]
  BY Zenon
<1>3. TRUE \in BOOLEAN
  OBVIOUS
<1>8. t \in Guests
  BY <1>1, <1>3 DEF Guests
<1>9. GuestStepOf(g) /\ guest'[g] = t
  BY <1>1, <1>2, <1>8, GuestUpdate
<1> QED
  BY <1>1, <1>9
     DEF Guests, SameStatus, SameReceived, SameLeader, SameBrowser

\* The part of ReceiveConfirmation in which a guest joins.
Joins(g, i) ==
    /\ guest[g].invitationReceived /\ HeadIs(i, "JoinConfirmation")
    /\ guest' = [guest EXCEPT
         ![g].Rank         = RankOffered[guest[g].invitation],
         ![g].updateRoster = Append(@, Head(out[i]).Roster),
         ![g].confirmedBy  = Inviter[i]]

\* A guest joins.
LEMMA JoinEffect ==
    ASSUME TypeInv, NEW g \in Guest, NEW i \in Invite, Joins(g, i)
    PROVE  /\ GuestStepOf(g)
           /\ guest'[g].Rank = RankOffered[guest[g].invitation]
           /\ guest'[g].updateRoster =
                Append(guest[g].updateRoster, Head(out[i]).Roster)
           /\ guest'[g].confirmedBy = Inviter[i]
           /\ guest'[g].ignored = guest[g].ignored
           /\ SameStatus(g) /\ SameReceived(g) /\ SameLeader(g)
           /\ SameBrowser(g)
<1> DEFINE t == [guest[g] EXCEPT !.Rank = RankOffered[guest[g].invitation],
                  !.updateRoster = Append(@, Head(out[i]).Roster),
                  !.confirmedBy = Inviter[i]]
<1>1. guest \in [Guest -> Guests] /\ guest[g] \in Guests
  BY DEF TypeInv, TypeOK
<1>2. guest' = [guest EXCEPT ![g] = t]
  BY Zenon DEF Joins
<1>3. RankOffered[guest[g].invitation] \in Ranks
  BY <1>1, JoiningAssumption DEF Joins, TypeInv, ReceivedInv, Guests
<1>4. Inviter[i] \in Host
  BY JoiningAssumption
<1>5. Append(guest[g].updateRoster, Head(out[i]).Roster) \in Seq(Rosters)
  <2>1. Head(out[i]) \in Messages
    <3> HIDE DEF Messages
    <3> QED
      BY DEF TypeInv, TypeOK, Joins, HeadIs
  <2>2. Head(out[i]).Roster \in Rosters
    BY <2>1 DEF Joins, HeadIs, Messages
  <2> QED
    BY <1>1, <2>2 DEF Guests
<1>8. t \in Guests
  BY <1>1, <1>3, <1>4, <1>5 DEF Guests
<1>9. GuestStepOf(g) /\ guest'[g] = t
  BY <1>1, <1>2, <1>8, GuestUpdate
<1> QED
  BY <1>1, <1>9
     DEF Guests, SameStatus, SameReceived, SameLeader, SameBrowser

\* A guest goes.
LEMMA DownEffect ==
    ASSUME TypeInv, NEW g \in Guest, 
           guest' = [guest EXCEPT ![g].status = "down"]
    PROVE  /\ GuestStepOf(g)
           /\ guest'[g].status = "down"
           /\ guest'[g].started = guest[g].started
           /\ SameRank(g) /\ SameReceived(g) /\ SameLeader(g)
           /\ SameBrowser(g)
<1> DEFINE t == [guest[g] EXCEPT !.status = "down"]
<1>1. guest \in [Guest -> Guests] /\ guest[g] \in Guests
  BY DEF TypeInv, TypeOK
<1>2. guest' = [guest EXCEPT ![g] = t]
  BY Zenon
<1>8. t \in Guests
  BY <1>1 DEF Guests
<1>9. GuestStepOf(g) /\ guest'[g] = t
  BY <1>1, <1>2, <1>8, GuestUpdate
<1> QED
  BY <1>1, <1>9
     DEF Guests, SameRank, SameReceived, SameLeader, SameBrowser

\* A roster is received.
LEMMA RosterEffect ==
    ASSUME TypeInv, NEW g \in Guest, NEW rosters \in Seq(Rosters),
           guest' = [guest EXCEPT ![g].updateRoster = rosters]
    PROVE  /\ GuestStepOf(g)
           /\ guest'[g].Rank = guest[g].Rank
           /\ guest'[g].updateRoster = rosters
           /\ guest'[g].confirmedBy = guest[g].confirmedBy
           /\ guest'[g].ignored = guest[g].ignored
           /\ SameStatus(g) /\ SameReceived(g) /\ SameLeader(g)
           /\ SameBrowser(g)
<1> DEFINE t == [guest[g] EXCEPT !.updateRoster = rosters]
<1>1. guest \in [Guest -> Guests] /\ guest[g] \in Guests
  BY DEF TypeInv, TypeOK
<1>2. guest' = [guest EXCEPT ![g] = t]
  BY Zenon
<1>8. t \in Guests
  BY <1>1 DEF Guests
<1>9. GuestStepOf(g) /\ guest'[g] = t
  BY <1>1, <1>2, <1>8, GuestUpdate
<1> QED
  BY <1>1, <1>9
     DEF Guests, SameStatus, SameReceived, SameLeader, SameBrowser

\* A roster is taken over.
LEMMA TakeRosterEffect ==
    ASSUME TypeInv, NEW g \in Guest, 
           NEW r \in Ranks \cup {Unknown}, NEW P \in SUBSET Guest,
           guest[g].updateRoster # <<>>,
           guest' = [guest EXCEPT ![g].updateRoster = Tail(@),
                                  ![g].Rank = r, ![g].peers = P]
    PROVE  /\ GuestStepOf(g)
           /\ guest'[g].Rank = r
           /\ guest'[g].updateRoster = Tail(guest[g].updateRoster)
           /\ guest'[g].confirmedBy = guest[g].confirmedBy
           /\ guest'[g].ignored = guest[g].ignored
           /\ SameStatus(g) /\ SameReceived(g) /\ SameLeader(g)
           /\ SameBrowser(g)
<1> DEFINE t == [guest[g] EXCEPT !.updateRoster = Tail(@),
                  !.Rank = r,
                  !.peers = P]
<1>1. guest \in [Guest -> Guests] /\ guest[g] \in Guests
  BY DEF TypeInv, TypeOK
<1>2. guest' = [guest EXCEPT ![g] = t]
  BY Zenon
<1>3. Tail(guest[g].updateRoster) \in Seq(Rosters)
  BY <1>1 DEF Guests
<1>8. t \in Guests
  BY <1>1, <1>3 DEF Guests
<1>9. GuestStepOf(g) /\ guest'[g] = t
  BY <1>1, <1>2, <1>8, GuestUpdate
<1> QED
  BY <1>1, <1>9
     DEF Guests, SameStatus, SameReceived, SameLeader, SameBrowser

-----------------------------------------------------------------------------
(* Every step keeps the types.                                             *)

Conns == [Invite -> {"none", "dialling", "open", "closing", "closed"}]

\* A connection is not dialled again.
Forward ==
    \A i \in Invite : conn'[i] \in {"none", "dialling"}
        => conn[i] \in {"none", "dialling"}

LEMMA SendType ==
    ASSUME TypeInv, NEW i \in Invite, NEW m \in Messages, Send(i, m)
    PROVE  out' \in [Invite -> Seq(Messages)]
<1> HIDE DEF Messages
<1> QED
  BY DEF TypeInv, TypeOK, Send

LEMMA BroadcastType ==
    ASSUME TypeInv, NEW h \in Host, NEW m \in Messages, BroadcastToPeers(h, m)
    PROVE  out' \in [Invite -> Seq(Messages)]
<1> HIDE DEF Messages
<1> QED
  BY DEF TypeInv, TypeOK, BroadcastToPeers

\* The message at the head is taken.
LEMMA TakeType ==
    ASSUME TypeInv, NEW i \in Invite, out[i] # <<>>,
           out' = [out EXCEPT ![i] = Tail(@)]
    PROVE  /\ Head(out[i]) \in Messages
           /\ out' \in [Invite -> Seq(Messages)]
<1> HIDE DEF Messages
<1>1. out \in [Invite -> Seq(Messages)]
  BY DEF TypeInv, TypeOK
<1>2. Head(out[i]) \in Messages /\ Tail(out[i]) \in Seq(Messages)
  BY <1>1
<1> QED
  BY <1>1, <1>2

LEMMA UpdateMessage ==
    ASSUME NEW roster \in Rosters
    PROVE  [type |-> "RosterUpdate", Roster |-> roster] \in Messages
BY DEF Messages

LEMMA ConfirmMessage ==
    ASSUME NEW roster \in Rosters, NEW b \in BOOLEAN
    PROVE  [type |-> "JoinConfirmation", Success |-> b, Roster |-> roster]
             \in Messages
BY DEF Messages

\* What is left to show of a step of a host.
LEMMA HostTypeStep ==
    ASSUME TypeInv, NEW h \in Host, StepOf(h), PeersHaveIds(host'[h]),
           \A i \in Invite :
             /\ i \in host'[h].outstanding =>
                  /\ Inviter[i] = h /\ host'[h].peerId[i] = Nil
                  /\ conn'[i] \notin {"none", "dialling"}
             /\ conn'[i] \in {"none", "dialling"} => host'[h].peerId[i] = Nil,
           Confirming(h)' => host'[h].handler.invite # Nil,
           guest' = guest, conn' \in Conns, Forward,
           out' \in [Invite -> Seq(Messages)], responses' \subseteq Responses,
           rankChanges' \in 0..MaxRankChanges
    PROVE  TypeInv'
<1>1. TypeOK'
  BY DEF TypeInv, TypeOK, StepOf, Conns
<1>2. OutstandingInv'
  BY DEF TypeInv, OutstandingInv, StepOf, Forward
<1>3. HandlerInv'
  BY DEF TypeInv, HandlerInv, StepOf, Confirming
<1> QED
  BY <1>1, <1>2, <1>3 DEF TypeInv, ReceivedInv

\* The same when the host keeps its ids, peers and handler.
LEMMA QuietTypeStep ==
    ASSUME TypeInv, NEW h \in Host, StepOf(h), SameIds(h), SamePeers(h),
           SameTimed(h), SameHandler(h),
           guest' = guest, conn' \in Conns, Forward,
           out' \in [Invite -> Seq(Messages)], responses' \subseteq Responses,
           rankChanges' \in 0..MaxRankChanges
    PROVE  TypeInv'
<1>1. PeersHaveIds(host'[h])
  BY DEF TypeInv, TypeOK, PeersHaveIds, SameIds, SamePeers, SameTimed
<1>2. ASSUME NEW i \in Invite
      PROVE  /\ i \in host'[h].outstanding =>
                  /\ Inviter[i] = h /\ host'[h].peerId[i] = Nil
                  /\ conn'[i] \notin {"none", "dialling"}
             /\ conn'[i] \in {"none", "dialling"} => host'[h].peerId[i] = Nil
  BY DEF TypeInv, OutstandingInv, SameIds, Forward
<1>3. Confirming(h)' => host'[h].handler.invite # Nil
  BY DEF TypeInv, HandlerInv, Confirming, SameHandler
<1> QED
  BY <1>1, <1>2, <1>3, HostTypeStep

\* What is left to show of a step of a guest.
LEMMA GuestTypeStep ==
    ASSUME TypeInv, NEW g \in Guest, GuestStepOf(g),
           guest'[g].invitationReceived => guest'[g].invitation # Nil,
           UNCHANGED <<host, conn, rankChanges>>,
           out' \in [Invite -> Seq(Messages)], responses' \subseteq Responses
    PROVE  TypeInv'
<1>1. TypeOK'
  BY DEF TypeInv, TypeOK, GuestStepOf
<1>2. OutstandingInv' /\ HandlerInv'
  BY DEF TypeInv, OutstandingInv, HandlerInv, Confirming
<1> QED
  BY <1>1, <1>2 DEF TypeInv, ReceivedInv, GuestStepOf

\* Only the messages, or a connection, change.
LEMMA WireTypeStep ==
    ASSUME TypeInv, UNCHANGED <<host, guest, rankChanges>>,
           conn' \in Conns, Forward,
           out' \in [Invite -> Seq(Messages)], responses' \subseteq Responses
    PROVE  TypeInv'
<1>1. TypeOK'
  BY DEF TypeInv, TypeOK, Conns
<1>2. OutstandingInv'
  BY DEF TypeInv, OutstandingInv, Forward
<1> QED
  BY <1>1, <1>2 DEF TypeInv, HandlerInv, ReceivedInv, Confirming

\* The variables that a step of a host mostly leaves alone.
LEMMA WireFacts ==
    ASSUME TypeInv
    PROVE  /\ conn \in Conns /\ out \in [Invite -> Seq(Messages)]
           /\ responses \subseteq Responses
           /\ rankChanges \in 0..MaxRankChanges
BY DEF TypeInv, TypeOK, Conns

LEMMA ForwardSame ==
    ASSUME conn' = conn
    PROVE  Forward
BY DEF Forward

\* A signal in CloseChannel closes an open connection.
LEMMA CloseType ==
    ASSUME TypeInv, NEW i \in Invite,
           conn' = [conn EXCEPT ![i] = CloseSignal(i)]
    PROVE  conn' \in Conns /\ Forward
BY WireFacts DEF Conns, Forward, CloseSignal

LEMMA HostInitType ==
    ASSUME TypeInv, NEW h \in Host, HostInit(h) \/ EnterLoop(h)
    PROVE  TypeInv'
<1>1. StepOf(h) /\ Same(h)
  BY HostInitEffect, EnterLoopEffect
<1> QED
  BY <1>1, WireFacts, ForwardSame, QuietTypeStep
     DEF HostInit, EnterLoop, Same, Conns

LEMMA BecomeLeaderType ==
    ASSUME TypeInv, NEW h \in Host, DoBecomeLeader(h)
    PROVE  TypeInv'
<1>1. /\ guest' = guest /\ conn' = conn /\ out' = out
      /\ responses' = responses /\ rankChanges' = rankChanges
  BY DEF DoBecomeLeader
<1>2. /\ StepOf(h) /\ host'[h].outstanding = {}
      /\ host'[h].peerId = host[h].peerId
      /\ SamePeers(h) /\ SameTimed(h) /\ SameHandler(h)
  BY BecomeLeaderEffect
<1>3. PeersHaveIds(host'[h])
  BY <1>2 DEF TypeInv, TypeOK, PeersHaveIds, SamePeers, SameTimed
<1>4. Confirming(h)' => host'[h].handler.invite # Nil
  BY <1>2 DEF TypeInv, HandlerInv, Confirming, SameHandler
<1>5. \A i \in Invite :
        conn'[i] \in {"none", "dialling"} => host'[h].peerId[i] = Nil
  BY <1>1, <1>2 DEF TypeInv, OutstandingInv
<1> QED
  BY <1>1, <1>2, <1>3, <1>4, <1>5, WireFacts, ForwardSame, HostTypeStep

LEMMA InvitationRequestType ==
    ASSUME TypeInv, NEW h \in Host, NEW i \in Invite, NEW from,
           InvitationRequest(h, i, from)
    PROVE  TypeInv'
<1>1. conn' \in Conns /\ Forward
  BY WireFacts DEF InvitationRequest, Conns, Forward
<1> QED
  BY <1>1, WireFacts, WireTypeStep DEF InvitationRequest

LEMMA DialType ==
    ASSUME TypeInv, NEW h \in Host, NEW i \in Invite, DialInvited(h, i)
    PROVE  TypeInv'
<1>1. conn' \in Conns /\ Forward
  BY WireFacts DEF DialInvited, Conns, Forward
<1>2. CASE host' = host /\ out' = out
  BY <1>1, <1>2, WireFacts, WireTypeStep DEF DialInvited
<1>3. CASE /\ conn' = [conn EXCEPT ![i] = "open"]
           /\ out' = [out EXCEPT ![i] = <<[type |-> "Invitation"]>>]
           /\ host' = [host EXCEPT ![h].outstanding =
                {j \in @ : Random[j] # Random[i]} \cup {i}]
  <2>1. /\ StepOf(h) /\ SamePeers(h) /\ SameTimed(h) /\ SameHandler(h)
        /\ host'[h].outstanding =
             {j \in host[h].outstanding : Random[j] # Random[i]} \cup {i}
        /\ host'[h].peerId = host[h].peerId
    BY <1>3, DialEffect
  <2>2. out' \in [Invite -> Seq(Messages)]
    <3>1. [type |-> "Invitation"] \in Messages
      BY DEF Messages
    <3> HIDE DEF Messages
    <3> QED
      BY <1>3, <3>1, WireFacts
  <2>3. PeersHaveIds(host'[h])
    BY <2>1 DEF TypeInv, TypeOK, PeersHaveIds, SamePeers, SameTimed
  <2>4. Confirming(h)' => host'[h].handler.invite # Nil
    BY <2>1 DEF TypeInv, HandlerInv, Confirming, SameHandler
  <2>5. Inviter[i] = h /\ conn[i] = "dialling"
    BY DEF DialInvited
  <2>6. ASSUME NEW j \in Invite
        PROVE  /\ j \in host'[h].outstanding =>
                    /\ Inviter[j] = h /\ host'[h].peerId[j] = Nil
                    /\ conn'[j] \notin {"none", "dialling"}
               /\ conn'[j] \in {"none", "dialling"} => host'[h].peerId[j] = Nil
    BY <1>1, <1>3, <2>1, <2>5, WireFacts
       DEF TypeInv, OutstandingInv, Forward, Conns
  <2> QED
    BY <1>1, <2>1, <2>2, <2>3, <2>4, <2>6, WireFacts, HostTypeStep
       DEF DialInvited
<1> QED
  BY <1>2, <1>3 DEF DialInvited

LEMMA RefuseType ==
    ASSUME TypeInv, NEW h \in Host, NEW i \in host[h].outstanding,
           Refuse(h, i, Nil), out' \in [Invite -> Seq(Messages)],
           responses' \subseteq Responses, UNCHANGED <<guest, rankChanges>>
    PROVE  TypeInv'
<1>1. i \in Invite
  BY DEF TypeInv, TypeOK, Hosts
<1>2. /\ StepOf(h) /\ SamePeers(h) /\ SameTimed(h) /\ SameHandler(h)
      /\ host'[h].outstanding = host[h].outstanding \ {i}
      /\ host'[h].peerId = [host[h].peerId EXCEPT ![i] = Nil]
  BY <1>1, RefuseEffect
<1>3. host'[h].peerId = host[h].peerId
  <2>1. host[h].peerId \in [Invite -> Guest \cup {Nil}]
    BY DEF TypeInv, TypeOK, Hosts
  <2>2. host[h].peerId[i] = Nil
    BY <1>1 DEF TypeInv, OutstandingInv
  <2> QED
    BY <1>1, <1>2, <2>1, <2>2
<1>4. conn' \in Conns /\ Forward
  BY <1>1, CloseType DEF Refuse
<1>5. PeersHaveIds(host'[h])
  BY <1>2, <1>3 DEF TypeInv, TypeOK, PeersHaveIds, SamePeers, SameTimed
<1>6. Confirming(h)' => host'[h].handler.invite # Nil
  BY <1>2 DEF TypeInv, HandlerInv, Confirming, SameHandler
<1>7. ASSUME NEW j \in Invite
      PROVE  /\ j \in host'[h].outstanding =>
                  /\ Inviter[j] = h /\ host'[h].peerId[j] = Nil
                  /\ conn'[j] \notin {"none", "dialling"}
             /\ conn'[j] \in {"none", "dialling"} => host'[h].peerId[j] = Nil
  BY <1>2, <1>3, <1>4 DEF TypeInv, OutstandingInv, Forward
<1> QED
  BY <1>2, <1>4, <1>5, <1>6, <1>7, WireFacts, HostTypeStep

LEMMA AcceptType ==
    ASSUME TypeInv, NEW h \in Host, NEW i \in host[h].outstanding,
           NEW g \in Guest, Accept(h, i, g),
           responses' \subseteq Responses, UNCHANGED <<guest, rankChanges>>
    PROVE  TypeInv'
<1>1. i \in Invite /\ host[h] \in Hosts /\ PeersHaveIds(host[h])
  BY DEF TypeInv, TypeOK, Hosts
<1>2. /\ StepOf(h) /\ SameTimed(h)
      /\ host'[h].outstanding = host[h].outstanding \ {i}
      /\ host'[h].peerId = [host[h].peerId EXCEPT ![i] = g]
      /\ host'[h].peers = host[h].peers
      /\ host'[h].addPeer = Append(host[h].addPeer, i)
      /\ host'[h].handler = [pc |-> "confirm", invite |-> i, roster |-> {}]
  BY <1>1, AcceptEffect
<1>3. host[h].peerId[i] = Nil /\ conn[i] \notin {"none", "dialling"}
  BY <1>1 DEF TypeInv, OutstandingInv
<1>4. g # Nil /\ i # Nil
  BY <1>1, JoiningAssumption
<1>5. PeersHaveIds(host'[h])
  <2>1. \A x \in Guest : host'[h].peers[x] # Nil
           => host'[h].peerId[host'[h].peers[x]] = x
    BY <1>1, <1>2, <1>3, <1>4, JoiningAssumption DEF PeersHaveIds, Hosts
  <2>2. \A n \in DOMAIN host'[h].addPeer :
           host'[h].peerId[host'[h].addPeer[n]] # Nil
    BY <1>1, <1>2, <1>3, <1>4 DEF PeersHaveIds, Hosts
  <2>3. \A j \in host'[h].timed : host'[h].peerId[j] # Nil
    BY <1>1, <1>2, <1>3, <1>4 DEF PeersHaveIds, Hosts, SameTimed
  <2> QED
    BY <2>1, <2>2, <2>3 DEF PeersHaveIds
<1>6. Confirming(h)' => host'[h].handler.invite # Nil
  BY <1>2, <1>4
<1>7. ASSUME NEW j \in Invite
      PROVE  /\ j \in host'[h].outstanding =>
                  /\ Inviter[j] = h /\ host'[h].peerId[j] = Nil
                  /\ conn'[j] \notin {"none", "dialling"}
             /\ conn'[j] \in {"none", "dialling"} => host'[h].peerId[j] = Nil
  <2>1. host[h].peerId \in [Invite -> Guest \cup {Nil}] /\ conn' = conn
    BY <1>1 DEF Hosts, Accept
  <2>2. j # i => host'[h].peerId[j] = host[h].peerId[j]
    BY <1>2, <2>1
  <2> QED
    BY <1>2, <1>3, <2>1, <2>2 DEF TypeInv, OutstandingInv
<1> QED
  BY <1>2, <1>5, <1>6, <1>7, WireFacts, ForwardSame, HostTypeStep DEF Accept

LEMMA HandleResponseType ==
    ASSUME TypeInv, NEW h \in Host, NEW r, HandleResponse(h, r)
    PROVE  TypeInv'
<1> DEFINE g   == Invitee[r.dialled]
           ois == {i \in host[h].outstanding : Random[i] = Random[r.invite]}
<1>1. /\ r \in Responses /\ responses' \subseteq Responses
      /\ guest' = guest /\ rankChanges' = rankChanges
  BY WireFacts DEF HandleResponse
<1>2. g \in Guest
  BY <1>1, JoiningAssumption DEF Responses
<1>3. CASE UNCHANGED <<host, conn, out>>
  BY <1>1, <1>3, WireFacts, ForwardSame, WireTypeStep
<1>4. ASSUME NEW oi \in ois, Refuse(h, oi, Nil), UNCHANGED out
      PROVE  TypeInv'
  BY <1>1, <1>4, WireFacts, RefuseType
<1>5. ASSUME NEW oi \in ois, PeerIdCollision(h, oi, g)
      PROVE  TypeInv'
  <2>1. oi \in Invite
    BY DEF TypeInv, TypeOK, Hosts
  <2>2. JoinRefused \in Messages
    BY DEF JoinRefused, Messages, Rosters
  <2>3. out' \in [Invite -> Seq(Messages)]
    BY <1>5, <2>1, <2>2, SendType DEF PeerIdCollision
  <2> QED
    BY <1>1, <1>5, <2>3, RefuseType DEF PeerIdCollision
<1>6. ASSUME NEW oi \in ois, PeerAccepted(h, oi, g)
      PROVE  TypeInv'
  BY <1>1, <1>2, <1>6, AcceptType DEF PeerAccepted
<1> QED
  BY <1>3, <1>4, <1>5, <1>6 DEF HandleResponse

LEMMA ReadRosterType ==
    ASSUME TypeInv, NEW h \in Host, ReadRoster(h)
    PROVE  TypeInv'
<1>1. PICK pc \in {"sendConfirm", "sendBroadcast"} :
        /\ host' = [host EXCEPT ![h].handler.pc = pc,
                                ![h].handler.roster = GetRoster(h)]
        /\ pc = "sendConfirm" => host[h].handler.pc = "confirm"
  BY DEF ReadRoster
<1>2. /\ StepOf(h) /\ SameIds(h) /\ SamePeers(h) /\ SameTimed(h)
      /\ host'[h].handler.pc = pc
      /\ host'[h].handler.invite = host[h].handler.invite
  BY <1>1, ReadEffect
<1>3. PeersHaveIds(host'[h])
  BY <1>2 DEF TypeInv, TypeOK, PeersHaveIds, SameIds, SamePeers, SameTimed
<1>4. Confirming(h)' => host'[h].handler.invite # Nil
  BY <1>1, <1>2 DEF TypeInv, HandlerInv, Confirming
<1>5. conn' = conn
  BY DEF ReadRoster
<1>6. ASSUME NEW j \in Invite
      PROVE  /\ j \in host'[h].outstanding =>
                  /\ Inviter[j] = h /\ host'[h].peerId[j] = Nil
                  /\ conn'[j] \notin {"none", "dialling"}
             /\ conn'[j] \in {"none", "dialling"} => host'[h].peerId[j] = Nil
  BY <1>2, <1>5 DEF TypeInv, OutstandingInv, SameIds
<1> QED
  BY <1>2, <1>3, <1>4, <1>5, <1>6, WireFacts, ForwardSame, HostTypeStep
     DEF ReadRoster

\* The handler sends what it has read.
LEMMA HandlerType ==
    ASSUME TypeInv, NEW h \in Host, NEW next \in Handlers,
           next.pc \notin {"confirm", "sendConfirm"},
           host' = [host EXCEPT ![h].handler = next],
           out' \in [Invite -> Seq(Messages)],
           UNCHANGED <<guest, conn, responses, rankChanges>>
    PROVE  TypeInv'
<1>1. /\ StepOf(h) /\ SameIds(h) /\ SamePeers(h) /\ SameTimed(h)
      /\ host'[h].handler = next
  BY HandlerEffect
<1>2. PeersHaveIds(host'[h])
  BY <1>1 DEF TypeInv, TypeOK, PeersHaveIds, SameIds, SamePeers, SameTimed
<1>3. Confirming(h)' => host'[h].handler.invite # Nil
  BY <1>1 DEF Confirming
<1>4. ASSUME NEW j \in Invite
      PROVE  /\ j \in host'[h].outstanding =>
                  /\ Inviter[j] = h /\ host'[h].peerId[j] = Nil
                  /\ conn'[j] \notin {"none", "dialling"}
             /\ conn'[j] \in {"none", "dialling"} => host'[h].peerId[j] = Nil
  BY <1>1 DEF TypeInv, OutstandingInv, SameIds
<1> QED
  BY <1>1, <1>2, <1>3, <1>4, WireFacts, ForwardSame, HostTypeStep

LEMMA SendConfirmationType ==
    ASSUME TypeInv, NEW h \in Host, SendConfirmation(h)
    PROVE  TypeInv'
<1> DEFINE m == [type |-> "JoinConfirmation", Success |-> TRUE,
                 Roster |-> host[h].handler.roster]
           next == [Idle EXCEPT !.pc = "broadcast"]
<1>1. host[h].handler \in Handlers
  BY DEF TypeInv, TypeOK, Hosts
<1>2. host[h].handler.invite \in Invite /\ host[h].handler.roster \in Rosters
  BY <1>1 DEF TypeInv, HandlerInv, Confirming, SendConfirmation, Confirm,
              Handlers
<1>3. m \in Messages
  BY <1>2, ConfirmMessage
<1>4. next \in Handlers /\ next.pc = "broadcast"
  BY DEF Idle, Handlers, Rosters
<1>5. /\ Send(host[h].handler.invite, m)
      /\ host' = [host EXCEPT ![h].handler = next]
      /\ UNCHANGED <<guest, conn, responses, rankChanges>>
  BY DEF SendConfirmation, Confirm
<1>6. out' \in [Invite -> Seq(Messages)]
  BY <1>2, <1>3, <1>5, SendType
<1> QED
  BY <1>4, <1>5, <1>6, HandlerType

LEMMA SendBroadcastType ==
    ASSUME TypeInv, NEW h \in Host, SendBroadcast(h)
    PROVE  TypeInv'
<1>1. host[h].handler.roster \in Rosters
  BY DEF TypeInv, TypeOK, Hosts, Handlers
<1>2. out' \in [Invite -> Seq(Messages)]
  BY <1>1, UpdateMessage, BroadcastType DEF SendBroadcast
<1>3. Idle \in Handlers /\ Idle.pc = "idle"
  BY DEF Idle, Handlers, Rosters
<1> QED
  BY <1>2, <1>3, HandlerType DEF SendBroadcast

LEMMA RankChangeType ==
    ASSUME TypeInv, NEW h \in Host, NEW from, NEW g \in Guest,
           NEW rank \in Ranks, RankChangeRequest(h, from, g, rank)
    PROVE  TypeInv'
<1>1. /\ StepOf(h) /\ SameIds(h) /\ SamePeers(h) /\ SameTimed(h)
      /\ SameHandler(h)
  BY ChangeEffect DEF RankChangeRequest
<1>2. rankChanges' \in 0..MaxRankChanges
  BY WireFacts, JoiningAssumption DEF RankChangeRequest
<1> QED
  BY <1>1, <1>2, WireFacts, ForwardSame, QuietTypeStep DEF RankChangeRequest

LEMMA DoAddPeerType ==
    ASSUME TypeInv, NEW h \in Host, DoAddPeer(h)
    PROVE  TypeInv'
<1> DEFINE i == Head(host[h].addPeer)
           g == host[h].peerId[i]
<1>1. /\ StepOf(h) /\ SameIds(h) /\ SameTimed(h) /\ SameHandler(h)
      /\ host'[h].addPeer = Tail(host[h].addPeer)
      /\ host'[h].peers = IF host[h].peers[g] = Nil
                          THEN [host[h].peers EXCEPT ![g] = i]
                          ELSE host[h].peers
  BY AddEffect
<1>2. /\ host[h] \in Hosts /\ PeersHaveIds(host[h])
      /\ host[h].addPeer # <<>> /\ conn' = conn
  BY DEF TypeInv, TypeOK, DoAddPeer
<1>3. PeersHaveIds(host'[h])
  <2>1. \A x \in Guest : host'[h].peers[x] # Nil
           => host'[h].peerId[host'[h].peers[x]] = x
    BY <1>1, <1>2 DEF PeersHaveIds, Hosts, SameIds
  <2>2. \A n \in DOMAIN host'[h].addPeer :
           host'[h].peerId[host'[h].addPeer[n]] # Nil
    BY <1>1, <1>2 DEF PeersHaveIds, Hosts, SameIds
  <2> QED
    BY <1>1, <1>2, <2>1, <2>2 DEF PeersHaveIds, SameIds, SameTimed
<1>4. Confirming(h)' => host'[h].handler.invite # Nil
  BY <1>1 DEF TypeInv, HandlerInv, Confirming, SameHandler
<1>5. ASSUME NEW j \in Invite
      PROVE  /\ j \in host'[h].outstanding =>
                  /\ Inviter[j] = h /\ host'[h].peerId[j] = Nil
                  /\ conn'[j] \notin {"none", "dialling"}
             /\ conn'[j] \in {"none", "dialling"} => host'[h].peerId[j] = Nil
  BY <1>1, <1>2 DEF TypeInv, OutstandingInv, SameIds
<1> QED
  BY <1>1, <1>3, <1>4, <1>5, WireFacts, ForwardSame, HostTypeStep DEF DoAddPeer

LEMMA DoDeletePeerType ==
    ASSUME TypeInv, NEW h \in Host, DoDeletePeer(h)
    PROVE  TypeInv'
<1>1. /\ StepOf(h) /\ SameIds(h) /\ SameTimed(h) /\ SameHandler(h)
      /\ host'[h].addPeer = host[h].addPeer
      /\ host'[h].peers =
           [g \in Guest |-> IF g = Head(host[h].deletePeer)
                            THEN Nil ELSE host[h].peers[g]]
  BY DeleteEffect
<1>2. PeersHaveIds(host[h]) /\ conn' = conn
  BY DEF TypeInv, TypeOK, DoDeletePeer
<1>3. PeersHaveIds(host'[h])
  BY <1>1, <1>2 DEF PeersHaveIds, SameIds, SameTimed
<1>4. Confirming(h)' => host'[h].handler.invite # Nil
  BY <1>1 DEF TypeInv, HandlerInv, Confirming, SameHandler
<1>5. ASSUME NEW j \in Invite
      PROVE  /\ j \in host'[h].outstanding =>
                  /\ Inviter[j] = h /\ host'[h].peerId[j] = Nil
                  /\ conn'[j] \notin {"none", "dialling"}
             /\ conn'[j] \in {"none", "dialling"} => host'[h].peerId[j] = Nil
  BY <1>1, <1>2 DEF TypeInv, OutstandingInv, SameIds
<1> QED
  BY <1>1, <1>3, <1>4, <1>5, WireFacts, ForwardSame, HostTypeStep
     DEF DoDeletePeer

LEMMA DoUpdatePeerType ==
    ASSUME TypeInv, NEW h \in Host, DoUpdatePeer(h)
    PROVE  TypeInv'
BY UpdateEffect, WireFacts, ForwardSame, QuietTypeStep DEF DoUpdatePeer

LEMMA SyncReadsType ==
    ASSUME TypeInv, NEW h \in Host, SyncReads(h)
    PROVE  TypeInv'
BY SyncReadsEffect, WireFacts, ForwardSame, QuietTypeStep DEF SyncReads

LEMMA SyncSendsType ==
    ASSUME TypeInv, NEW h \in Host, SyncSends(h)
    PROVE  TypeInv'
<1>1. PICK roster \in host[h].sending :
        /\ BroadcastToPeers(h, [type |-> "RosterUpdate", Roster |-> roster])
        /\ host' = [host EXCEPT ![h].sending = @ \ {roster}]
        /\ UNCHANGED <<guest, conn, responses, rankChanges>>
  BY DEF SyncSends
<1>2. roster \in Rosters
  BY DEF TypeInv, TypeOK, Hosts
<1>3. out' \in [Invite -> Seq(Messages)]
  BY <1>1, <1>2, UpdateMessage, BroadcastType
<1>4. /\ StepOf(h) /\ SameIds(h) /\ SamePeers(h) /\ SameTimed(h)
      /\ SameHandler(h)
  BY <1>1, SyncSendsEffect
<1> QED
  BY <1>1, <1>3, <1>4, WireFacts, ForwardSame, QuietTypeStep

\* Timers of peers that have their ids.
LEMMA TimedType ==
    ASSUME TypeInv, NEW h \in Host, NEW T \in SUBSET Invite,
           \A i \in T : host[h].peerId[i] # Nil,
           host' = [host EXCEPT ![h].timed = T],
           conn' \in Conns, Forward,
           UNCHANGED <<guest, out, responses, rankChanges>>
    PROVE  TypeInv'
<1>1. /\ StepOf(h) /\ SameIds(h) /\ SamePeers(h) /\ SameHandler(h)
      /\ host'[h].timed = T
  BY TimedEffect
<1>3. PeersHaveIds(host'[h])
  BY <1>1 DEF TypeInv, TypeOK, PeersHaveIds, SameIds, SamePeers
<1>4. Confirming(h)' => host'[h].handler.invite # Nil
  BY <1>1 DEF TypeInv, HandlerInv, Confirming, SameHandler
<1>5. ASSUME NEW j \in Invite
      PROVE  /\ j \in host'[h].outstanding =>
                  /\ Inviter[j] = h /\ host'[h].peerId[j] = Nil
                  /\ conn'[j] \notin {"none", "dialling"}
             /\ conn'[j] \in {"none", "dialling"} => host'[h].peerId[j] = Nil
  BY <1>1 DEF TypeInv, OutstandingInv, SameIds, Forward
<1> QED
  BY <1>1, <1>3, <1>4, <1>5, WireFacts, HostTypeStep

LEMMA HeartbeatType ==
    ASSUME TypeInv, NEW h \in Host, NEW g \in Guest, Heartbeat(h, g)
    PROVE  TypeInv'
<1> DEFINE T == host[h].timed \cup {host[h].peers[g]}
<1>1. host[h] \in Hosts /\ PeersHaveIds(host[h]) /\ host[h].peers[g] # Nil
  BY DEF TypeInv, TypeOK, Heartbeat, GetPeer
<1>2. T \in SUBSET Invite /\ \A i \in T : host[h].peerId[i] # Nil
  BY <1>1, JoiningAssumption DEF Hosts, PeersHaveIds
<1>3. host' = [host EXCEPT ![h].timed = T]
  BY DEF Heartbeat
<1> HIDE DEF T
<1> QED
  BY <1>2, <1>3, WireFacts, ForwardSame, TimedType DEF Heartbeat

LEMMA PeerTimeoutType ==
    ASSUME TypeInv, NEW h \in Host, NEW i \in Invite, PeerTimeout(h, i)
    PROVE  TypeInv'
<1> DEFINE T == host[h].timed \ {i}
<1>1. host[h] \in Hosts /\ PeersHaveIds(host[h])
  BY DEF TypeInv, TypeOK
<1>2. T \in SUBSET Invite /\ \A j \in T : host[h].peerId[j] # Nil
  BY <1>1 DEF Hosts, PeersHaveIds
<1>3. host' = [host EXCEPT ![h].timed = T]
  BY DEF PeerTimeout
<1> HIDE DEF T
<1> QED
  BY <1>2, <1>3, CloseType, TimedType DEF PeerTimeout

LEMMA ConnectionLostType ==
    ASSUME TypeInv, NEW i \in Invite, ConnectionLost(i)
    PROVE  TypeInv'
<1>1. conn' \in Conns /\ Forward
  BY WireFacts DEF ConnectionLost, Conns, Forward
<1> QED
  BY <1>1, WireFacts, WireTypeStep DEF ConnectionLost

LEMMA WriterExitType ==
    ASSUME TypeInv, NEW i \in Invite, WriterExit(i)
    PROVE  TypeInv'
<1> DEFINE h == Inviter[i]
           d == host[h].peerId[i]
<1>1. h \in Host
  BY JoiningAssumption
<1>2. d \in Guest \cup {Nil}
  BY <1>1 DEF TypeInv, TypeOK, Hosts
<1>3. /\ conn[i] = "closing" /\ conn' = [conn EXCEPT ![i] = "closed"]
      /\ host' = [host EXCEPT ![h].deletePeer = @ \o <<d>>]
      /\ UNCHANGED <<guest, responses, rankChanges>>
  BY DEF WriterExit, WriterEnds
<1>4. PICK n \in 0..Len(out[i]) : out' = [out EXCEPT ![i] = SubSeq(@, 1, n)]
  BY DEF WriterExit, WriterEnds
<1>5. out' \in [Invite -> Seq(Messages)]
  <2> HIDE DEF Messages
  <2>1. SubSeq(out[i], 1, n) \in Seq(Messages)
    BY WireFacts
  <2> QED
    BY <1>4, <2>1, WireFacts
<1>6. conn' \in Conns /\ Forward
  BY <1>3, WireFacts DEF Conns, Forward
<1>7. /\ StepOf(h) /\ SameIds(h) /\ SamePeers(h) /\ SameTimed(h)
      /\ SameHandler(h)
  BY <1>1, <1>2, <1>3, WriterEffect
<1> HIDE DEF h, d
<1> QED
  BY <1>1, <1>3, <1>5, <1>6, <1>7, WireFacts, QuietTypeStep

-----------------------------------------------------------------------------
\* The steps of a guest that concern its browser and its leader.
LEMMA GuestInitType ==
    ASSUME TypeInv, NEW g \in Guest, GuestInit(g)
    PROVE  TypeInv'
BY GuestInitEffect, WireFacts, GuestTypeStep
   DEF GuestInit, TypeInv, ReceivedInv, SameReceived

LEMMA BrowserAnswersType ==
    ASSUME TypeInv, NEW g \in Guest, NEW a \in BOOLEAN, BrowserAnswers(g, a)
    PROVE  TypeInv'
BY AnswerEffect, WireFacts, GuestTypeStep
   DEF BrowserAnswers, TypeInv, ReceivedInv, SameReceived

\* The answer at the head of what the browser has sent.
LEMMA AnswerType ==
    ASSUME TypeInv, NEW g \in Guest, guest[g].fromBrowser # <<>>
    PROVE  LET E == [invite : Invite, Accepted : BOOLEAN]
           IN  /\ guest[g].fromBrowser \in Seq(E)
               /\ Head(guest[g].fromBrowser) \in E
<1> DEFINE E == [invite : Invite, Accepted : BOOLEAN]
<1>1. guest[g].fromBrowser \in Seq(E)
  BY DEF TypeInv, TypeOK, Guests
<1> HIDE DEF E
<1>2. Head(guest[g].fromBrowser) \in E
  BY <1>1, HeadTailProperties
<1> QED
  BY <1>1, <1>2 DEF E

LEMMA GuestRespondsType ==
    ASSUME TypeInv, NEW g \in Guest, GuestResponds(g)
    PROVE  TypeInv'
<1> DEFINE a == Head(guest[g].fromBrowser)
           i == guest[g].invitation
           answer == [invite |-> a.invite, dialled |-> i,
                      Accepted |-> a.Accepted]
<1>1. guest[g].fromBrowser # <<>> /\ UNCHANGED <<host, conn, out, rankChanges>>
  BY DEF GuestResponds
<1>2. guest[g].invitationReceived => i \in Invite
  BY DEF TypeInv, TypeOK, ReceivedInv, Guests
<1>3. guest[g].invitationReceived => answer \in Responses
  BY <1>1, <1>2, AnswerType DEF Responses
<1>4. responses' \subseteq Responses
  BY <1>3, WireFacts DEF GuestResponds
<1>5. CASE guest' = [guest EXCEPT ![g].fromBrowser = Tail(@)]
  BY <1>1, <1>4, <1>5, RespondEffect, WireFacts, GuestTypeStep
     DEF TypeInv, ReceivedInv, SameReceived
<1>6. CASE guest' = [guest EXCEPT ![g].fromBrowser = Tail(@),
                                  ![g].invitationReceived = FALSE]
  BY <1>1, <1>4, <1>6, RefuseInviteEffect, WireFacts, GuestTypeStep
<1>7. CASE guest' = [guest EXCEPT ![g].fromBrowser = Tail(@),
                                  ![g].setLeader = i]
  BY <1>1, <1>4, <1>7, AcceptInviteEffect, WireFacts, GuestTypeStep
     DEF TypeInv, ReceivedInv, SameReceived
<1> QED
  BY <1>5, <1>6, <1>7 DEF GuestResponds

LEMMA DoSetLeaderType ==
    ASSUME TypeInv, NEW g \in Guest, DoSetLeader(g)
    PROVE  TypeInv'
<1>1. responses' \subseteq Responses
  BY WireFacts DEF DoSetLeader
<1> QED
  BY <1>1, SetLeaderEffect, WireFacts, GuestTypeStep
     DEF DoSetLeader, TypeInv, ReceivedInv, SameReceived

\* The steps that handle a message.
LEMMA ReceiveInvitationType ==
    ASSUME TypeInv, NEW g \in Guest, NEW i \in Invite, ReceiveInvitation(g, i)
    PROVE  TypeInv'
<1>1. out' \in [Invite -> Seq(Messages)]
  BY TakeType DEF ReceiveInvitation, HeadIs
<1>2. i # Nil
  BY JoiningAssumption
<1> QED
  BY <1>1, <1>2, InvitationEffect, WireFacts, GuestTypeStep
     DEF ReceiveInvitation

LEMMA ReceiveConfirmationType ==
    ASSUME TypeInv, NEW g \in Guest, NEW i \in Invite,
           ReceiveConfirmation(g, i)
    PROVE  TypeInv'
<1> DEFINE m == Head(out[i])
<1>1. /\ UNCHANGED <<host, conn, responses, rankChanges>>
      /\ out[i] # <<>> /\ m.type = "JoinConfirmation"
      /\ out' = [out EXCEPT ![i] = Tail(@)]
  BY DEF ReceiveConfirmation, HeadIs
<1>2. m \in Messages /\ out' \in [Invite -> Seq(Messages)]
  BY <1>1, TakeType
<1>4. CASE guest' = guest
  BY <1>1, <1>2, <1>4, WireFacts, ForwardSame, WireTypeStep
<1>5. CASE guest' = [guest EXCEPT ![g].ignored = TRUE]
  BY <1>1, <1>2, <1>5, IgnoreEffect, WireFacts, GuestTypeStep
     DEF TypeInv, ReceivedInv, SameReceived
<1>6. CASE guest' = [guest EXCEPT ![g].status = "down"]
  BY <1>1, <1>2, <1>6, DownEffect, WireFacts, GuestTypeStep
     DEF TypeInv, ReceivedInv, SameReceived
<1>7. CASE Joins(g, i)
  BY <1>1, <1>2, <1>7, JoinEffect, WireFacts, GuestTypeStep
     DEF TypeInv, ReceivedInv, SameReceived
<1> QED
  BY <1>4, <1>5, <1>6, <1>7 DEF ReceiveConfirmation, Joins

LEMMA DropMessageType ==
    ASSUME TypeInv, NEW g \in Guest, NEW i \in Invite, DropMessage(g, i)
    PROVE  TypeInv'
<1>1. out' \in [Invite -> Seq(Messages)]
  BY TakeType DEF DropMessage
<1> QED
  BY <1>1, WireFacts, ForwardSame, WireTypeStep DEF DropMessage

\* The rosters a guest has got once it has handled the head of out[i].
Received(g, i) ==
    IF LeaderOf(g) = Inviter[i]
    THEN Append(guest[g].updateRoster, Head(out[i]).Roster)
    ELSE guest[g].updateRoster

LEMMA ReceiveRosterUpdate ==
    ASSUME TypeInv, NEW g \in Guest, NEW i \in Invite, ReceiveRoster(g, i)
    PROVE  /\ Received(g, i) \in Seq(Rosters)
           /\ guest' = [guest EXCEPT ![g].updateRoster = Received(g, i)]
           /\ out' \in [Invite -> Seq(Messages)]
<1>1. Head(out[i]) \in Messages /\ out' \in [Invite -> Seq(Messages)]
  BY TakeType DEF ReceiveRoster, HeadIs
<1>2. Head(out[i]).Roster \in Rosters
  BY <1>1 DEF ReceiveRoster, HeadIs, Messages
<1>3. guest \in [Guest -> Guests] /\ guest[g].updateRoster \in Seq(Rosters)
  BY DEF TypeInv, TypeOK, Guests
<1>4. Received(g, i) \in Seq(Rosters)
  BY <1>2, <1>3 DEF Received
<1>5. guest' = [guest EXCEPT ![g].updateRoster = Received(g, i)]
  BY Zenon DEF ReceiveRoster, Received
<1> QED
  BY <1>1, <1>4, <1>5

LEMMA ReceiveRosterType ==
    ASSUME TypeInv, NEW g \in Guest, NEW i \in Invite, ReceiveRoster(g, i)
    PROVE  TypeInv'
<1>1. GuestStepOf(g) /\ SameReceived(g)
  BY ReceiveRosterUpdate, RosterEffect
<1> QED
  BY <1>1, ReceiveRosterUpdate, WireFacts, GuestTypeStep
     DEF ReceiveRoster, TypeInv, ReceivedInv, SameReceived

\* What a guest makes of the roster at the head.
LEMMA DoUpdateRosterEffect ==
    ASSUME TypeInv, NEW g \in Guest, DoUpdateRoster(g)
    PROVE  LET roster == Head(guest[g].updateRoster)
           IN  /\ GuestStepOf(g)
               /\ SameStatus(g) /\ SameReceived(g) /\ SameLeader(g)
               /\ SameBrowser(g)
               /\ guest'[g].updateRoster = Tail(guest[g].updateRoster)
               /\ guest'[g].confirmedBy = guest[g].confirmedBy
               /\ guest'[g].ignored = guest[g].ignored
               /\ IF \E e \in roster : e.id = g
                  THEN \E e \in roster : e.id = g /\ guest'[g].Rank = e.rank
                  ELSE guest'[g].Rank = guest[g].Rank
<1> DEFINE roster == Head(guest[g].updateRoster)
           mine   == {e.rank : e \in {x \in roster : x.id = g}}
           P == {x \in Guest \ {g} : Up(x) /\ \E e \in roster : e.id = x}
<1>1. /\ guest[g] \in Guests /\ guest[g].updateRoster # <<>>
      /\ guest[g].updateRoster \in Seq(Rosters)
  BY DEF TypeInv, TypeOK, Guests, DoUpdateRoster
<1>2. roster \in Rosters
  BY <1>1
<1>3. mine \subseteq Ranks /\ guest[g].Rank \in Ranks \cup {Unknown}
  BY <1>1, <1>2 DEF Rosters, Guests
<1>4. PICK rank \in IF mine = {} THEN {guest[g].Rank} ELSE mine :
         guest' = [guest EXCEPT ![g].updateRoster = Tail(@),
                                ![g].Rank = rank, ![g].peers = P]
  BY DEF DoUpdateRoster
<1>5. rank \in Ranks \cup {Unknown} /\ P \in SUBSET Guest
  BY <1>3, <1>4
<1>6. IF \E e \in roster : e.id = g
      THEN \E e \in roster : e.id = g /\ rank = e.rank
      ELSE rank = guest[g].Rank
  BY <1>4
<1> HIDE DEF roster, mine, P
<1>7. /\ GuestStepOf(g)
      /\ SameStatus(g) /\ SameReceived(g) /\ SameLeader(g) /\ SameBrowser(g)
      /\ guest'[g].Rank = rank
      /\ guest'[g].updateRoster = Tail(guest[g].updateRoster)
      /\ guest'[g].confirmedBy = guest[g].confirmedBy
      /\ guest'[g].ignored = guest[g].ignored
  BY <1>1, <1>4, <1>5, TakeRosterEffect
<1> QED
  BY <1>6, <1>7 DEF roster

LEMMA DoUpdateRosterType ==
    ASSUME TypeInv, NEW g \in Guest, DoUpdateRoster(g)
    PROVE  TypeInv'
<1>1. GuestStepOf(g) /\ SameReceived(g)
  BY DoUpdateRosterEffect
<1> QED
  BY <1>1, WireFacts, GuestTypeStep
     DEF DoUpdateRoster, TypeInv, ReceivedInv, SameReceived

LEMMA ExitType ==
    ASSUME TypeInv, NEW g \in Guest, Exit(g)
    PROVE  TypeInv'
<1>1. GuestStepOf(g) /\ SameReceived(g)
  BY DownEffect DEF Exit
<1> QED
  BY <1>1, WireFacts, GuestTypeStep
     DEF Exit, TypeInv, ReceivedInv, SameReceived

-----------------------------------------------------------------------------
LEMMA TypeInit == Init => TypeInv
BY JoiningAssumption
   DEF Init, TypeInv, TypeOK, OutstandingInv, HandlerInv, ReceivedInv, Hosts,
       Guests, Handlers, Rosters, Idle, PeersHaveIds, Confirming, Unknown

LEMMA TypeStep == TypeInv /\ [Next]_vars => TypeInv'
<1> SUFFICES ASSUME TypeInv, [Next]_vars PROVE TypeInv'
  OBVIOUS
<1>1. ASSUME NEW h \in Host, HostNext(h) PROVE TypeInv'
  BY <1>1, HostInitType, BecomeLeaderType, InvitationRequestType, DialType,
     HandleResponseType, ReadRosterType, SendConfirmationType,
     SendBroadcastType, RankChangeType, DoAddPeerType, DoUpdatePeerType,
     DoDeletePeerType, SyncReadsType, SyncSendsType, HeartbeatType,
     PeerTimeoutType
     DEF HostNext
<1>2. ASSUME NEW g \in Guest, GuestNext(g) PROVE TypeInv'
  BY <1>2, GuestInitType, BrowserAnswersType, GuestRespondsType,
     DoSetLeaderType, DoUpdateRosterType, ExitType, ReceiveInvitationType,
     ReceiveConfirmationType, ReceiveRosterType, DropMessageType
     DEF GuestNext
<1>3. ASSUME NEW i \in Invite, ConnectionLost(i) \/ WriterExit(i)
      PROVE  TypeInv'
  BY <1>3, ConnectionLostType, WriterExitType
<1>4. CASE UNCHANGED vars
  BY <1>4 DEF vars, TypeInv, TypeOK, OutstandingInv, HandlerInv, ReceivedInv,
              Confirming
<1> QED
  BY <1>1, <1>2, <1>3, <1>4 DEF Next

\* Every variable keeps its type, whatever the hosts, guests and invitations,
\* and every peer in a roster, to be added or with a timer has its id.
THEOREM JoiningTypeCorrect == Spec => []TypeOK
<1>1. Spec => []TypeInv
  BY TypeInit, TypeStep, PTL DEF Spec
<1>2. TypeInv => TypeOK
  BY DEF TypeInv
<1> QED
  BY <1>1, <1>2, PTL

-----------------------------------------------------------------------------
(* Every step keeps RosterInv.                                             *)

\* No confirmation is new.
OldConfirmations ==
    \A i \in Invite : \A n \in DOMAIN out'[i] :
        IsConfirmation(out'[i][n])
            => \E m \in DOMAIN out[i] : out[i][m] = out'[i][n]

\* No connection of a guest that is there and was accepted, or may be, closes.
CloseOK ==
    \A i \in Invite : conn'[i] \in {"closing", "closed"} =>
        \/ conn[i] \in {"closing", "closed"}
        \/ ~Up(Invitee[i])
        \/ i \notin host'[Inviter[i]].outstanding /\ ~Accepted(i)'

\* The messages after one is taken, some are lost, or others are sent.
LEMMA TakeOld ==
    ASSUME TypeInv, NEW i \in Invite, out[i] # <<>>,
           out' = [out EXCEPT ![i] = Tail(@)]
    PROVE  OldConfirmations
<1> HIDE DEF Messages
<1>1. out \in [Invite -> Seq(Messages)]
  BY DEF TypeInv, TypeOK
<1>2. ASSUME NEW n \in DOMAIN Tail(out[i])
      PROVE  n + 1 \in DOMAIN out[i] /\ out[i][n + 1] = Tail(out[i])[n]
  BY <1>1
<1> QED
  BY <1>1, <1>2 DEF OldConfirmations

LEMMA LoseOld ==
    ASSUME TypeInv, NEW i \in Invite, NEW n \in 0..Len(out[i]),
           out' = [out EXCEPT ![i] = SubSeq(@, 1, n)]
    PROVE  OldConfirmations
<1> HIDE DEF Messages
<1>1. out \in [Invite -> Seq(Messages)]
  BY DEF TypeInv, TypeOK
<1>2. ASSUME NEW k \in DOMAIN SubSeq(out[i], 1, n)
      PROVE  k \in DOMAIN out[i] /\ out[i][k] = SubSeq(out[i], 1, n)[k]
  BY <1>1
<1> QED
  BY <1>1, <1>2 DEF OldConfirmations

LEMMA SendOld ==
    ASSUME TypeInv, NEW i \in Invite, NEW m, Send(i, m), ~IsConfirmation(m)
    PROVE  OldConfirmations
<1> HIDE DEF Messages
<1>1. out \in [Invite -> Seq(Messages)]
  BY DEF TypeInv, TypeOK
<1>2. ASSUME NEW n \in DOMAIN Append(out[i], m), Append(out[i], m)[n] # m
      PROVE  n \in DOMAIN out[i] /\ out[i][n] = Append(out[i], m)[n]
  BY <1>1, <1>2
<1> QED
  BY <1>1, <1>2 DEF OldConfirmations, Send

LEMMA BroadcastOld ==
    ASSUME TypeInv, NEW h \in Host, NEW m, BroadcastToPeers(h, m),
           ~IsConfirmation(m)
    PROVE  OldConfirmations
<1> HIDE DEF Messages
<1>1. out \in [Invite -> Seq(Messages)]
  BY DEF TypeInv, TypeOK
<1>2. ASSUME NEW i \in Invite,
             NEW n \in DOMAIN Append(out[i], m), Append(out[i], m)[n] # m
      PROVE  n \in DOMAIN out[i] /\ out[i][n] = Append(out[i], m)[n]
  BY <1>1, <1>2
<1> QED
  BY <1>1, <1>2 DEF OldConfirmations, BroadcastToPeers

LEMMA SameOld ==
    ASSUME out' = out
    PROVE  OldConfirmations
BY DEF OldConfirmations

LEMMA SameClose ==
    ASSUME conn' = conn
    PROVE  CloseOK
BY DEF CloseOK

\* What is left to show of a step of a host that keeps the ids of its peers.
LEMMA HostRosterStep ==
    ASSUME TypeInv, RosterInv, NEW h \in Host, StepOf(h),
           host'[h].peerId = host[h].peerId,
           \A i \in host'[h].outstanding \ host[h].outstanding :
             conn'[i] \notin {"closing", "closed"},
           guest' = guest, responses' \subseteq responses,
           \A i \in host'[h].timed : guest[Invitee[i]].leader # Nil,
           CloseOK,
           \A n \in DOMAIN host'[h].deletePeer :
             host'[h].deletePeer[n] # Nil => ~Up(host'[h].deletePeer[n]),
           \A g \in Guest : Up(g) /\ InRoster(h, g) => InRoster(h, g)',
           Confirming(h)' => host[h].peerId[host'[h].handler.invite] # Nil,
           \A i \in Invite : \A n \in DOMAIN out'[i] :
             IsConfirmation(out'[i][n]) => Accepted(i)
    PROVE  RosterInv'
<1>1. \A i \in Invite : Inviter[i] \in Host /\ Invitee[i] \in Guest
  BY JoiningAssumption
<1>2. \A i \in Invite : Accepted(i)' <=> Accepted(i)
  BY <1>1 DEF Accepted, StepOf
<1>3. \A g \in Guest : Up(g)' <=> Up(g)
  BY DEF Up
<1>4. OwnInv'
  BY DEF RosterInv, OwnInv
<1>5. PeerIdInv'
  BY DEF RosterInv, PeerIdInv, StepOf
<1>6. TimedInv'
  BY DEF RosterInv, TimedInv, StepOf
<1>7. CloseInv'
  <2> SUFFICES ASSUME NEW i \in Invite, conn'[i] \in {"closing", "closed"},
                      Up(Invitee[i])
               PROVE  /\ i \notin host'[Inviter[i]].outstanding
                      /\ ~Accepted(i)'
    BY <1>1, <1>3 DEF CloseInv
  <2>1. CASE conn[i] \in {"closing", "closed"}
    <3>1. i \notin host[Inviter[i]].outstanding /\ ~Accepted(i)
      BY <2>1 DEF RosterInv, CloseInv
    <3> QED
      BY <1>1, <1>2, <3>1 DEF StepOf
  <2>2. CASE conn[i] \notin {"closing", "closed"}
    BY <2>2 DEF CloseOK
  <2> QED
    BY <2>1, <2>2
<1>8. DeleteInv'
  BY DEF RosterInv, DeleteInv, StepOf, Up
<1>9. AcceptedInv'
  BY <1>1, <1>2, <1>3 DEF RosterInv, AcceptedInv, InRoster, StepOf
<1>10. ConfirmInv'
  <2>1. \A k \in Host : Confirming(k)' =>
          host'[k].peerId[host'[k].handler.invite] # Nil
    BY DEF RosterInv, ConfirmInv, StepOf, Confirming
  <2>2. \A g \in Guest : guest'[g].confirmedBy # Nil =>
          \E i \in Invite : /\ Invitee[i] = g /\ Accepted(i)'
                            /\ Inviter[i] = guest'[g].confirmedBy
    BY <1>2 DEF RosterInv, ConfirmInv
  <2> QED
    BY <1>2, <2>1, <2>2 DEF ConfirmInv
<1> QED
  BY <1>4, <1>5, <1>6, <1>7, <1>8, <1>9, <1>10 DEF RosterInv

\* The confirmations that are there.
LEMMA OldAccepted ==
    ASSUME RosterInv, OldConfirmations
    PROVE  \A i \in Invite : \A n \in DOMAIN out'[i] :
             IsConfirmation(out'[i][n]) => Accepted(i)
BY DEF RosterInv, ConfirmInv, OldConfirmations

\* Most steps of a host leave all of this alone.
LEMMA QuietRosterStep ==
    ASSUME TypeInv, RosterInv, NEW h \in Host, StepOf(h), SameIds(h),
           SamePeers(h), SameTimed(h), SameDelete(h),
           guest' = guest, responses' \subseteq responses, CloseOK,
           Confirming(h)' =>
             /\ Confirming(h)
             /\ host'[h].handler.invite = host[h].handler.invite,
           OldConfirmations
    PROVE  RosterInv'
<1>1. \A i \in host'[h].timed : guest[Invitee[i]].leader # Nil
  BY DEF RosterInv, TimedInv, SameTimed
<1>2. \A n \in DOMAIN host'[h].deletePeer :
        host'[h].deletePeer[n] # Nil => ~Up(host'[h].deletePeer[n])
  BY DEF RosterInv, DeleteInv, SameDelete
<1>3. \A g \in Guest : Up(g) /\ InRoster(h, g) => InRoster(h, g)'
  BY DEF InRoster, SamePeers, SameIds
<1>4. Confirming(h)' => host[h].peerId[host'[h].handler.invite] # Nil
  BY DEF RosterInv, ConfirmInv
<1> QED
  BY <1>1, <1>2, <1>3, <1>4, OldAccepted, HostRosterStep DEF SameIds

LEMMA SameConfirming ==
    ASSUME NEW h, SameHandler(h)
    PROVE  Confirming(h)' =>
             /\ Confirming(h)
             /\ host'[h].handler.invite = host[h].handler.invite
BY DEF SameHandler, Confirming

\* Only a connection, or the messages, change.
LEMMA WireRosterStep ==
    ASSUME TypeInv, RosterInv, host' = host, guest' = guest,
           responses' \subseteq responses, CloseOK, OldConfirmations
    PROVE  RosterInv'
<1>1. \A i \in Invite : Accepted(i)' <=> Accepted(i)
  BY DEF Accepted
<1>2. \A g \in Guest : Up(g)' <=> Up(g)
  BY DEF Up
<1>3. OwnInv' /\ PeerIdInv' /\ TimedInv'
  BY DEF RosterInv, OwnInv, PeerIdInv, TimedInv
<1>4. CloseInv'
  BY <1>1, <1>2, JoiningAssumption DEF RosterInv, CloseInv, CloseOK
<1>5. DeleteInv'
  BY DEF RosterInv, DeleteInv, Up
<1>6. AcceptedInv'
  BY <1>1, <1>2, JoiningAssumption DEF RosterInv, AcceptedInv, InRoster
<1>7. ConfirmInv'
  BY <1>1, OldAccepted DEF RosterInv, ConfirmInv, Confirming
<1> QED
  BY <1>3, <1>4, <1>5, <1>6, <1>7 DEF RosterInv

LEMMA HostInitRoster ==
    ASSUME TypeInv, RosterInv, NEW h \in Host, HostInit(h) \/ EnterLoop(h)
    PROVE  RosterInv'
<1>1. StepOf(h) /\ Same(h)
  BY HostInitEffect, EnterLoopEffect
<1> QED
  BY <1>1, SameClose, SameOld, SameConfirming, QuietRosterStep
     DEF HostInit, EnterLoop, Same

LEMMA BecomeLeaderRoster ==
    ASSUME TypeInv, RosterInv, NEW h \in Host, DoBecomeLeader(h)
    PROVE  RosterInv'
<1>1. /\ guest' = guest /\ conn' = conn /\ out' = out /\ responses' = responses
  BY DEF DoBecomeLeader
<1>2. /\ StepOf(h) /\ host'[h].outstanding = {}
      /\ host'[h].peerId = host[h].peerId
      /\ SamePeers(h) /\ SameTimed(h) /\ SameDelete(h) /\ SameHandler(h)
  BY BecomeLeaderEffect
<1>3. \A i \in host'[h].timed : guest[Invitee[i]].leader # Nil
  BY <1>2 DEF RosterInv, TimedInv, SameTimed
<1>4. \A n \in DOMAIN host'[h].deletePeer :
        host'[h].deletePeer[n] # Nil => ~Up(host'[h].deletePeer[n])
  BY <1>2 DEF RosterInv, DeleteInv, SameDelete
<1>5. \A g \in Guest : Up(g) /\ InRoster(h, g) => InRoster(h, g)'
  BY <1>2 DEF InRoster, SamePeers
<1>6. Confirming(h)' => host[h].peerId[host'[h].handler.invite] # Nil
  BY <1>2, SameConfirming DEF RosterInv, ConfirmInv
<1> QED
  BY <1>1, <1>2, <1>3, <1>4, <1>5, <1>6, SameClose, SameOld, OldAccepted,
     HostRosterStep

LEMMA InvitationRequestRoster ==
    ASSUME TypeInv, RosterInv, NEW h \in Host, NEW i \in Invite, NEW from,
           InvitationRequest(h, i, from)
    PROVE  RosterInv'
<1>1. Inviter[i] = h /\ conn[i] = "none" /\ host' = host
  BY DEF InvitationRequest
<1>2. i \notin host[h].outstanding /\ ~Accepted(i)
  BY <1>1 DEF TypeInv, OutstandingInv, Accepted
<1>3. CloseOK
  BY <1>1, <1>2, WireFacts DEF CloseOK, InvitationRequest, Conns, Accepted
<1> QED
  BY <1>3, SameOld, WireRosterStep DEF InvitationRequest

LEMMA DialRoster ==
    ASSUME TypeInv, RosterInv, NEW h \in Host, NEW i \in Invite,
           DialInvited(h, i)
    PROVE  RosterInv'
<1>1. /\ Inviter[i] = h /\ conn[i] = "dialling"
      /\ guest' = guest /\ responses' = responses
  BY DEF DialInvited
<1>2. i \notin host[h].outstanding /\ ~Accepted(i)
  BY <1>1 DEF TypeInv, OutstandingInv, Accepted
<1>3. CASE conn' = [conn EXCEPT ![i] = "closed"] /\ UNCHANGED <<host, out>>
  <2>1. CloseOK
    BY <1>1, <1>2, <1>3, WireFacts DEF CloseOK, Conns, Accepted
  <2> QED
    BY <1>1, <1>3, <2>1, SameOld, WireRosterStep
<1>4. CASE /\ conn' = [conn EXCEPT ![i] = "open"]
           /\ out' = [out EXCEPT ![i] = <<[type |-> "Invitation"]>>]
           /\ host' = [host EXCEPT ![h].outstanding =
                {j \in @ : Random[j] # Random[i]} \cup {i}]
  <2>1. /\ StepOf(h) /\ SamePeers(h) /\ SameTimed(h) /\ SameDelete(h)
        /\ SameHandler(h)
        /\ host'[h].outstanding =
             {j \in host[h].outstanding : Random[j] # Random[i]} \cup {i}
        /\ host'[h].peerId = host[h].peerId
    BY <1>4, DialEffect
  <2>2. CloseOK
    BY <1>4, WireFacts DEF CloseOK, Conns
  <2>3. \A j \in host'[h].outstanding \ host[h].outstanding :
          conn'[j] \notin {"closing", "closed"}
    BY <1>4, <2>1, WireFacts DEF Conns
  <2>4. OldConfirmations
    BY <1>4, WireFacts DEF OldConfirmations, IsConfirmation
  <2>5. \A j \in host'[h].timed : guest[Invitee[j]].leader # Nil
    BY <2>1 DEF RosterInv, TimedInv, SameTimed
  <2>6. \A n \in DOMAIN host'[h].deletePeer :
          host'[h].deletePeer[n] # Nil => ~Up(host'[h].deletePeer[n])
    BY <2>1 DEF RosterInv, DeleteInv, SameDelete
  <2>7. \A g \in Guest : Up(g) /\ InRoster(h, g) => InRoster(h, g)'
    BY <2>1 DEF InRoster, SamePeers
  <2>8. Confirming(h)' => host[h].peerId[host'[h].handler.invite] # Nil
    BY <2>1, SameConfirming DEF RosterInv, ConfirmInv
  <2> QED
    BY <1>1, <2>1, <2>2, <2>3, <2>4, <2>5, <2>6, <2>7, <2>8, OldAccepted,
       HostRosterStep
<1> QED
  BY <1>3, <1>4 DEF DialInvited

LEMMA RefuseRoster ==
    ASSUME TypeInv, RosterInv, NEW h \in Host, NEW i \in host[h].outstanding,
           Refuse(h, i, Nil), OldConfirmations,
           responses' \subseteq responses, guest' = guest
    PROVE  RosterInv'
<1>1. /\ i \in Invite /\ Inviter[i] = h /\ host[h].peerId[i] = Nil
      /\ host[h].peerId \in [Invite -> Guest \cup {Nil}]
  BY DEF TypeInv, TypeOK, Hosts, OutstandingInv
<1>2. /\ StepOf(h) /\ SamePeers(h) /\ SameTimed(h) /\ SameDelete(h)
      /\ SameHandler(h)
      /\ host'[h].outstanding = host[h].outstanding \ {i}
      /\ host'[h].peerId = [host[h].peerId EXCEPT ![i] = Nil]
  BY <1>1, RefuseEffect
<1>3. host'[h].peerId = host[h].peerId
  BY <1>1, <1>2
<1>4. CloseOK
  BY <1>1, <1>2, <1>3, WireFacts
     DEF CloseOK, Refuse, CloseSignal, Conns, Accepted
<1>5. \A j \in host'[h].timed : guest[Invitee[j]].leader # Nil
  BY <1>2 DEF RosterInv, TimedInv, SameTimed
<1>6. \A n \in DOMAIN host'[h].deletePeer :
        host'[h].deletePeer[n] # Nil => ~Up(host'[h].deletePeer[n])
  BY <1>2 DEF RosterInv, DeleteInv, SameDelete
<1>7. \A g \in Guest : Up(g) /\ InRoster(h, g) => InRoster(h, g)'
  BY <1>2, <1>3 DEF InRoster, SamePeers
<1>8. Confirming(h)' => host[h].peerId[host'[h].handler.invite] # Nil
  BY <1>2, SameConfirming DEF RosterInv, ConfirmInv
<1> QED
  BY <1>2, <1>3, <1>4, <1>5, <1>6, <1>7, <1>8, OldAccepted, HostRosterStep

\* The one step that gives a peer its id.
LEMMA AcceptRoster ==
    ASSUME TypeInv, RosterInv, NEW h \in Host, NEW i \in host[h].outstanding,
           Accept(h, i, Invitee[i]), ~GetPeer(h, Invitee[i]),
           responses' \subseteq responses, guest' = guest
    PROVE  RosterInv'
<1> DEFINE g == Invitee[i]
<1>1. /\ i \in Invite /\ Inviter[i] = h /\ host[h].peerId[i] = Nil
      /\ host[h] \in Hosts /\ g \in Guest /\ g # Nil
      /\ conn' = conn /\ out' = out
  <2>1. host[h] \in Hosts
    BY DEF TypeInv, TypeOK
  <2>2. i \in Invite
    BY <2>1 DEF Hosts
  <2>3. Inviter[i] = h /\ host[h].peerId[i] = Nil
    BY <2>2 DEF TypeInv, OutstandingInv
  <2>4. g \in Guest /\ g # Nil
    BY <2>2, JoiningAssumption
  <2> QED
    BY <2>1, <2>2, <2>3, <2>4 DEF Accept
<1>2. /\ StepOf(h) /\ SameTimed(h) /\ SameDelete(h)
      /\ host'[h].outstanding = host[h].outstanding \ {i}
      /\ host'[h].peerId = [host[h].peerId EXCEPT ![i] = g]
      /\ host'[h].peers = host[h].peers
      /\ host'[h].addPeer = Append(host[h].addPeer, i)
      /\ host'[h].handler = [pc |-> "confirm", invite |-> i, roster |-> {}]
  BY <1>1, AcceptEffect
<1>3. /\ host'[h].peerId[i] = g
      /\ \A j \in Invite \ {i} : host'[h].peerId[j] = host[h].peerId[j]
  BY <1>1, <1>2 DEF Hosts
<1>4. \A j \in Invite : Accepted(j)' <=> Accepted(j) \/ j = i
  BY <1>1, <1>2, <1>3, JoiningAssumption DEF Accepted, StepOf
<1>5. \A x \in Guest : Up(x)' <=> Up(x)
  BY DEF Up
<1>6. OwnInv'
  BY DEF RosterInv, OwnInv
<1>7. PeerIdInv'
  <2> SUFFICES ASSUME NEW k \in Host, NEW j \in Invite,
                      host'[k].peerId[j] # Nil
               PROVE  Inviter[j] = k /\ host'[k].peerId[j] = Invitee[j]
    BY DEF PeerIdInv
  <2>1. CASE k = h /\ j = i
    BY <1>1, <1>3, <2>1
  <2>2. CASE ~(k = h /\ j = i)
    <3>1. host'[k].peerId[j] = host[k].peerId[j]
      BY <1>2, <1>3, <2>2 DEF StepOf
    <3> QED
      BY <3>1 DEF RosterInv, PeerIdInv
  <2> QED
    BY <2>1, <2>2
<1>8. TimedInv'
  BY <1>2 DEF RosterInv, TimedInv, StepOf, SameTimed
<1>9. CloseInv'
  <2> SUFFICES ASSUME NEW j \in Invite, conn[j] \in {"closing", "closed"},
                      Up(Invitee[j])
               PROVE  /\ j \notin host'[Inviter[j]].outstanding
                      /\ ~Accepted(j)'
    BY <1>1, <1>5, JoiningAssumption DEF CloseInv
  <2>1. j \notin host[Inviter[j]].outstanding /\ ~Accepted(j)
    BY DEF RosterInv, CloseInv
  <2>2. j # i
    BY <1>1, <2>1
  <2> QED
    BY <1>2, <1>4, <2>1, <2>2, JoiningAssumption DEF StepOf
<1>10. DeleteInv'
  BY <1>2 DEF RosterInv, DeleteInv, StepOf, SameDelete, Up
<1>11. \A k \in Host, x \in Guest : InRoster(k, x) => InRoster(k, x)'
  <2> SUFFICES ASSUME NEW x \in Guest, InRoster(h, x)
               PROVE  InRoster(h, x)'
    <3>1. \A k \in Host \ {h} : host'[k] = host[k]
      BY <1>2 DEF StepOf
    <3>2. \A k \in Host \ {h}, x \in Guest : InRoster(k, x) => InRoster(k, x)'
      BY <3>1 DEF InRoster
    <3> QED
      BY <3>2
  <2>1. CASE host[h].peers[x] # Nil
    BY <1>2, <2>1 DEF InRoster
  <2>2. ASSUME NEW n \in DOMAIN host[h].addPeer,
               host[h].peerId[host[h].addPeer[n]] = x
        PROVE  InRoster(h, x)'
    <3>1. host[h].addPeer[n] \in Invite /\ host[h].addPeer[n] # i
      BY <1>1, <2>2, JoiningAssumption DEF Hosts
    <3>2. /\ n \in DOMAIN host'[h].addPeer
          /\ host'[h].addPeer[n] = host[h].addPeer[n]
      BY <1>1, <1>2 DEF Hosts
    <3> QED
      BY <1>3, <2>2, <3>1, <3>2 DEF InRoster
  <2> QED
    BY <2>1, <2>2 DEF InRoster
<1>12. InRoster(h, g)'
  <2>1. /\ Len(host[h].addPeer) + 1 \in DOMAIN host'[h].addPeer
        /\ host'[h].addPeer[Len(host[h].addPeer) + 1] = i
    BY <1>1, <1>2 DEF Hosts
  <2> QED
    BY <1>3, <2>1 DEF InRoster
<1>13. AcceptedInv'
  BY <1>1, <1>4, <1>5, <1>11, <1>12, JoiningAssumption
     DEF RosterInv, AcceptedInv
<1>14. ConfirmInv'
  <2>1. \A k \in Host : Confirming(k)' =>
          host'[k].peerId[host'[k].handler.invite] # Nil
    BY <1>1, <1>2, <1>3 DEF RosterInv, ConfirmInv, StepOf, Confirming
  <2>2. \A x \in Guest : guest'[x].confirmedBy # Nil =>
          \E j \in Invite : /\ Invitee[j] = x /\ Accepted(j)'
                            /\ Inviter[j] = guest'[x].confirmedBy
    BY <1>4 DEF RosterInv, ConfirmInv
  <2> QED
    BY <1>1, <1>4, <2>1, <2>2 DEF RosterInv, ConfirmInv
<1> QED
  BY <1>6, <1>7, <1>8, <1>9, <1>10, <1>13, <1>14 DEF RosterInv

\* The outstanding invitation an answer is for is one to its sender.
LEMMA ResponseFinds ==
    ASSUME TypeInv, RosterInv, OneHostEach, RandomsDiffer, NEW h \in Host,
           NEW r \in responses, Inviter[r.dialled] = h,
           NEW i \in host[h].outstanding, Random[i] = Random[r.invite]
    PROVE  Invitee[i] = Invitee[r.dialled]
<1>1. /\ r.invite \in Invite /\ r.dialled \in Invite /\ i \in Invite
      /\ Inviter[i] = h
  BY DEF TypeInv, TypeOK, Hosts, Responses, OutstandingInv
<1>2. Invitee[r.invite] = Invitee[r.dialled]
  BY DEF RosterInv, OwnInv
<1>3. Inviter[r.invite] = h
  BY <1>1, <1>2 DEF OneHostEach
<1> QED
  BY <1>1, <1>2, <1>3 DEF RandomsDiffer

LEMMA HandleResponseRoster ==
    ASSUME TypeInv, RosterInv, OneHostEach, RandomsDiffer, NEW h \in Host,
           NEW r, HandleResponse(h, r)
    PROVE  RosterInv'
<1> DEFINE g   == Invitee[r.dialled]
           ois == {i \in host[h].outstanding : Random[i] = Random[r.invite]}
<1>1. /\ r \in responses /\ Inviter[r.dialled] = h
      /\ responses' \subseteq responses /\ guest' = guest
  BY DEF HandleResponse
<1>2. CASE UNCHANGED <<host, conn, out>>
  BY <1>1, <1>2, SameClose, SameOld, WireRosterStep
<1>3. ASSUME NEW oi \in ois, Refuse(h, oi, Nil), UNCHANGED out
      PROVE  RosterInv'
  BY <1>1, <1>3, SameOld, RefuseRoster
<1>4. ASSUME NEW oi \in ois, PeerIdCollision(h, oi, g)
      PROVE  RosterInv'
  <2>1. oi \in Invite
    BY DEF TypeInv, TypeOK, Hosts
  <2>2. ~IsConfirmation(JoinRefused)
    BY DEF JoinRefused, IsConfirmation
  <2>3. OldConfirmations
    BY <1>4, <2>1, <2>2, SendOld DEF PeerIdCollision
  <2> QED
    BY <1>1, <1>4, <2>3, RefuseRoster DEF PeerIdCollision
<1>5. ASSUME NEW oi \in ois, PeerAccepted(h, oi, g)
      PROVE  RosterInv'
  <2>1. Invitee[oi] = g
    BY <1>1, ResponseFinds
  <2> QED
    BY <1>1, <1>5, <2>1, AcceptRoster DEF PeerAccepted
<1> QED
  BY <1>2, <1>3, <1>4, <1>5 DEF HandleResponse

LEMMA ReadRosterRoster ==
    ASSUME TypeInv, RosterInv, NEW h \in Host, ReadRoster(h)
    PROVE  RosterInv'
<1>1. PICK pc \in {"sendConfirm", "sendBroadcast"} :
        /\ host' = [host EXCEPT ![h].handler.pc = pc,
                                ![h].handler.roster = GetRoster(h)]
        /\ pc = "sendConfirm" => host[h].handler.pc = "confirm"
  BY DEF ReadRoster
<1>2. /\ StepOf(h) /\ SameIds(h) /\ SamePeers(h) /\ SameTimed(h)
      /\ SameDelete(h) /\ host'[h].handler.pc = pc
      /\ host'[h].handler.invite = host[h].handler.invite
  BY <1>1, ReadEffect
<1>3. Confirming(h)' => Confirming(h)
  BY <1>1, <1>2 DEF Confirming
<1> QED
  BY <1>2, <1>3, SameClose, SameOld, QuietRosterStep DEF ReadRoster

LEMMA SendConfirmationRoster ==
    ASSUME TypeInv, RosterInv, NEW h \in Host, SendConfirmation(h)
    PROVE  RosterInv'
<1> DEFINE m == [type |-> "JoinConfirmation", Success |-> TRUE,
                 Roster |-> host[h].handler.roster]
           next == [Idle EXCEPT !.pc = "broadcast"]
           i == host[h].handler.invite
<1>1. /\ Send(i, m) /\ host' = [host EXCEPT ![h].handler = next]
      /\ UNCHANGED <<guest, conn, responses, rankChanges>>
  BY DEF SendConfirmation, Confirm
<1>2. Confirming(h)
  BY DEF SendConfirmation, Confirm, Confirming
<1>3. i \in Invite /\ host[h].peerId[i] # Nil
  BY <1>2 DEF TypeInv, TypeOK, HandlerInv, Hosts, Handlers, RosterInv,
              ConfirmInv
<1>4. Accepted(i)
  BY <1>3 DEF RosterInv, PeerIdInv, Accepted
<1>5. next \in Handlers /\ next.pc = "broadcast"
  BY DEF Idle, Handlers, Rosters
<1>6. /\ StepOf(h) /\ SameIds(h) /\ SamePeers(h) /\ SameTimed(h)
      /\ SameDelete(h) /\ host'[h].handler = next
  BY <1>1, <1>5, HandlerEffect
<1>7. ~Confirming(h)'
  BY <1>5, <1>6 DEF Confirming
<1>8. \A j \in Invite : \A n \in DOMAIN out'[j] :
        IsConfirmation(out'[j][n]) => Accepted(j)
  <2> HIDE DEF Messages, m, i
  <2>1. ASSUME NEW j \in Invite, j # i
        PROVE  out'[j] = out[j]
    BY <1>1, <1>3, <2>1, WireFacts DEF Send
  <2>2. ASSUME NEW n \in DOMAIN out'[i], out'[i][n] # m
        PROVE  n \in DOMAIN out[i] /\ out[i][n] = out'[i][n]
    BY <1>1, <1>3, <2>2, WireFacts DEF Send
  <2> QED
    BY <1>4, <2>1, <2>2 DEF RosterInv, ConfirmInv
<1>9. \A j \in host'[h].timed : guest[Invitee[j]].leader # Nil
  BY <1>6 DEF RosterInv, TimedInv, SameTimed
<1>10. \A n \in DOMAIN host'[h].deletePeer :
        host'[h].deletePeer[n] # Nil => ~Up(host'[h].deletePeer[n])
  BY <1>6 DEF RosterInv, DeleteInv, SameDelete
<1>11. \A g \in Guest : Up(g) /\ InRoster(h, g) => InRoster(h, g)'
  BY <1>6 DEF InRoster, SamePeers, SameIds
<1> QED
  BY <1>1, <1>6, <1>7, <1>8, <1>9, <1>10, <1>11, SameClose, HostRosterStep
     DEF SameIds

LEMMA SendBroadcastRoster ==
    ASSUME TypeInv, RosterInv, NEW h \in Host, SendBroadcast(h)
    PROVE  RosterInv'
<1> DEFINE m == [type |-> "RosterUpdate", Roster |-> host[h].handler.roster]
<1>1. ~IsConfirmation(m) /\ Idle \in Handlers /\ Idle.pc = "idle"
  BY DEF IsConfirmation, Idle, Handlers, Rosters
<1>2. /\ BroadcastToPeers(h, m) /\ host' = [host EXCEPT ![h].handler = Idle]
      /\ UNCHANGED <<guest, conn, responses, rankChanges>>
  BY DEF SendBroadcast
<1>3. OldConfirmations
  BY <1>1, <1>2, BroadcastOld
<1>4. /\ StepOf(h) /\ SameIds(h) /\ SamePeers(h) /\ SameTimed(h)
      /\ SameDelete(h) /\ host'[h].handler = Idle
  BY <1>1, <1>2, HandlerEffect
<1>5. ~Confirming(h)'
  BY <1>1, <1>4 DEF Confirming
<1> QED
  BY <1>2, <1>3, <1>4, <1>5, SameClose, QuietRosterStep

LEMMA RankChangeRoster ==
    ASSUME TypeInv, RosterInv, NEW h \in Host, NEW from, NEW g \in Guest,
           NEW rank \in Ranks, RankChangeRequest(h, from, g, rank)
    PROVE  RosterInv'
<1>1. /\ StepOf(h) /\ SameIds(h) /\ SamePeers(h) /\ SameTimed(h)
      /\ SameDelete(h) /\ SameHandler(h)
  BY ChangeEffect DEF RankChangeRequest
<1> QED
  BY <1>1, SameClose, SameOld, SameConfirming, QuietRosterStep
     DEF RankChangeRequest

\* A peer that is added is in the roster; the others stay there.
LEMMA AddKeeps ==
    ASSUME TypeInv, NEW h \in Host, DoAddPeer(h), NEW x \in Guest,
           InRoster(h, x)
    PROVE  InRoster(h, x)'
<1> DEFINE i == Head(host[h].addPeer)
           g == host[h].peerId[i]
<1>1. /\ host'[h].peerId = host[h].peerId
      /\ host'[h].addPeer = Tail(host[h].addPeer)
      /\ host'[h].peers = IF host[h].peers[g] = Nil
                          THEN [host[h].peers EXCEPT ![g] = i]
                          ELSE host[h].peers
  BY AddEffect DEF SameIds
<1>2. /\ host[h] \in Hosts /\ PeersHaveIds(host[h])
      /\ host[h].addPeer # <<>> /\ host[h].addPeer \in Seq(Invite)
      /\ host[h].peers \in [Guest -> Invite \cup {Nil}]
  BY DEF TypeInv, TypeOK, DoAddPeer, Hosts
<1>3. i \in Invite /\ i # Nil
  BY <1>2, JoiningAssumption
<1>4. CASE host[h].peers[x] # Nil
  BY <1>1, <1>2, <1>3, <1>4 DEF InRoster
<1>5. ASSUME NEW n \in DOMAIN host[h].addPeer,
             host[h].peerId[host[h].addPeer[n]] = x
      PROVE  InRoster(h, x)'
  <2>1. CASE n = 1
    <3>1. g = x
      BY <1>2, <1>5, <2>1
    <3> QED
      BY <1>1, <1>2, <1>3, <3>1 DEF InRoster
  <2>2. CASE n # 1
    <3>1. /\ n - 1 \in DOMAIN Tail(host[h].addPeer)
          /\ Tail(host[h].addPeer)[n - 1] = host[h].addPeer[n]
      BY <1>2, <2>2
    <3> QED
      BY <1>1, <1>5, <3>1 DEF InRoster
  <2> QED
    BY <2>1, <2>2
<1> QED
  BY <1>4, <1>5 DEF InRoster

LEMMA DoAddPeerRoster ==
    ASSUME TypeInv, RosterInv, NEW h \in Host, DoAddPeer(h)
    PROVE  RosterInv'
<1>1. /\ StepOf(h) /\ SameIds(h) /\ SameTimed(h) /\ SameDelete(h)
      /\ SameHandler(h)
  BY AddEffect
<1>2. \A j \in host'[h].timed : guest[Invitee[j]].leader # Nil
  BY <1>1 DEF RosterInv, TimedInv, SameTimed
<1>3. \A n \in DOMAIN host'[h].deletePeer :
        host'[h].deletePeer[n] # Nil => ~Up(host'[h].deletePeer[n])
  BY <1>1 DEF RosterInv, DeleteInv, SameDelete
<1>4. Confirming(h)' => host[h].peerId[host'[h].handler.invite] # Nil
  BY <1>1, SameConfirming DEF RosterInv, ConfirmInv
<1>5. /\ guest' = guest /\ conn' = conn /\ out' = out /\ responses' = responses
  BY DEF DoAddPeer
<1> QED
  BY <1>1, <1>2, <1>3, <1>4, <1>5, AddKeeps, SameClose, SameOld, OldAccepted,
     HostRosterStep DEF SameIds

\* Only a guest that is gone is deleted.
LEMMA DeleteKeeps ==
    ASSUME TypeInv, RosterInv, NEW h \in Host, DoDeletePeer(h),
           NEW x \in Guest, Up(x)
    PROVE  host'[h].peers[x] = host[h].peers[x]
<1> DEFINE d == Head(host[h].deletePeer)
<1>1. host'[h].peers =
        [g \in Guest |-> IF g = d THEN Nil ELSE host[h].peers[g]]
  BY DeleteEffect
<1>2. /\ 1 \in DOMAIN host[h].deletePeer /\ d = host[h].deletePeer[1]
  <2> DEFINE D == Guest \cup {Nil}
  <2>1. host[h].deletePeer \in Seq(D) /\ host[h].deletePeer # <<>>
    BY DEF TypeInv, TypeOK, Hosts, DoDeletePeer
  <2> HIDE DEF D
  <2> QED
    BY <2>1
<1>3. d # Nil => ~Up(d)
  BY <1>2 DEF RosterInv, DeleteInv
<1>4. x # d
  BY <1>3, JoiningAssumption
<1> QED
  BY <1>1, <1>4

LEMMA DoDeletePeerRoster ==
    ASSUME TypeInv, RosterInv, NEW h \in Host, DoDeletePeer(h)
    PROVE  RosterInv'
<1>1. /\ StepOf(h) /\ SameIds(h) /\ SameTimed(h) /\ SameHandler(h)
      /\ host'[h].addPeer = host[h].addPeer
      /\ host'[h].deletePeer = Tail(host[h].deletePeer)
  BY DeleteEffect
<1>2. \A j \in host'[h].timed : guest[Invitee[j]].leader # Nil
  BY <1>1 DEF RosterInv, TimedInv, SameTimed
<1>3. \A n \in DOMAIN host'[h].deletePeer :
        host'[h].deletePeer[n] # Nil => ~Up(host'[h].deletePeer[n])
  <2> DEFINE D == Guest \cup {Nil}
  <2>1. host[h].deletePeer \in Seq(D) /\ host[h].deletePeer # <<>>
    BY DEF TypeInv, TypeOK, Hosts, DoDeletePeer
  <2> HIDE DEF D
  <2>2. ASSUME NEW n \in DOMAIN Tail(host[h].deletePeer)
        PROVE  /\ n + 1 \in DOMAIN host[h].deletePeer
               /\ Tail(host[h].deletePeer)[n] = host[h].deletePeer[n + 1]
    BY <2>1
  <2> QED
    BY <1>1, <2>2 DEF RosterInv, DeleteInv
<1>4. Confirming(h)' => host[h].peerId[host'[h].handler.invite] # Nil
  BY <1>1, SameConfirming DEF RosterInv, ConfirmInv
<1>5. /\ guest' = guest /\ conn' = conn /\ out' = out /\ responses' = responses
  BY DEF DoDeletePeer
<1>6. \A g \in Guest : Up(g) /\ InRoster(h, g) => InRoster(h, g)'
  BY <1>1, DeleteKeeps DEF InRoster, SameIds
<1> QED
  BY <1>1, <1>2, <1>3, <1>4, <1>5, <1>6, SameClose, SameOld, OldAccepted,
     HostRosterStep DEF SameIds

LEMMA DoUpdatePeerRoster ==
    ASSUME TypeInv, RosterInv, NEW h \in Host, DoUpdatePeer(h)
    PROVE  RosterInv'
BY UpdateEffect, SameClose, SameOld, SameConfirming, QuietRosterStep
   DEF DoUpdatePeer

LEMMA SyncReadsRoster ==
    ASSUME TypeInv, RosterInv, NEW h \in Host, SyncReads(h)
    PROVE  RosterInv'
BY SyncReadsEffect, SameClose, SameOld, SameConfirming, QuietRosterStep
   DEF SyncReads

LEMMA SyncSendsRoster ==
    ASSUME TypeInv, RosterInv, NEW h \in Host, SyncSends(h)
    PROVE  RosterInv'
<1>1. PICK roster \in host[h].sending :
        /\ BroadcastToPeers(h, [type |-> "RosterUpdate", Roster |-> roster])
        /\ host' = [host EXCEPT ![h].sending = @ \ {roster}]
        /\ UNCHANGED <<guest, conn, responses, rankChanges>>
  BY DEF SyncSends
<1>2. ~IsConfirmation([type |-> "RosterUpdate", Roster |-> roster])
  BY DEF IsConfirmation
<1>3. OldConfirmations
  BY <1>1, <1>2, BroadcastOld
<1>4. /\ StepOf(h) /\ SameIds(h) /\ SamePeers(h) /\ SameTimed(h)
      /\ SameDelete(h) /\ SameHandler(h)
  BY <1>1, SyncSendsEffect
<1> QED
  BY <1>1, <1>3, <1>4, SameClose, SameConfirming, QuietRosterStep

LEMMA HeartbeatRoster ==
    ASSUME TypeInv, RosterInv, NEW h \in Host, NEW g \in Guest, Heartbeat(h, g)
    PROVE  RosterInv'
<1> DEFINE i == host[h].peers[g]
           T == host[h].timed \cup {i}
<1>1. /\ host[h] \in Hosts /\ PeersHaveIds(host[h]) /\ i # Nil
      /\ LeaderOf(g) = h
  BY DEF TypeInv, TypeOK, Heartbeat, Heartbeating, GetPeer
<1>2. i \in Invite /\ host[h].peerId[i] = g /\ T \in SUBSET Invite
  BY <1>1 DEF Hosts, PeersHaveIds
<1>3. Invitee[i] = g
  BY <1>2, JoiningAssumption DEF RosterInv, PeerIdInv
<1>4. guest[g].leader # Nil
  BY <1>1, JoiningAssumption DEF LeaderOf
<1>5. host' = [host EXCEPT ![h].timed = T]
  BY DEF Heartbeat
<1> HIDE DEF T
<1>6. /\ StepOf(h) /\ SameIds(h) /\ SamePeers(h) /\ SameDelete(h)
      /\ SameHandler(h) /\ host'[h].timed = T
  BY <1>2, <1>5, TimedEffect
<1>7. \A j \in host'[h].timed : guest[Invitee[j]].leader # Nil
  BY <1>3, <1>4, <1>6 DEF RosterInv, TimedInv, T
<1>8. \A n \in DOMAIN host'[h].deletePeer :
        host'[h].deletePeer[n] # Nil => ~Up(host'[h].deletePeer[n])
  BY <1>6 DEF RosterInv, DeleteInv, SameDelete
<1>9. \A x \in Guest : Up(x) /\ InRoster(h, x) => InRoster(h, x)'
  BY <1>6 DEF InRoster, SamePeers, SameIds
<1>10. Confirming(h)' => host[h].peerId[host'[h].handler.invite] # Nil
  BY <1>6, SameConfirming DEF RosterInv, ConfirmInv
<1>11. /\ guest' = guest /\ conn' = conn /\ out' = out
       /\ responses' = responses
  BY DEF Heartbeat
<1> QED
  BY <1>6, <1>7, <1>8, <1>9, <1>10, <1>11, SameClose, SameOld, OldAccepted,
     HostRosterStep DEF SameIds

\* A timer that fires is that of a guest that is gone: one that is there still
\* follows the host it was invited by.
LEMMA PeerTimeoutGone ==
    ASSUME TypeInv, RosterInv, OneHostEach, NEW h \in Host, NEW i \in Invite,
           PeerTimeout(h, i)
    PROVE  ~Up(Invitee[i])
<1> DEFINE g == Invitee[i]
           j == guest[g].leader
<1>1. /\ i \in host[h].timed /\ ~Heartbeating(host[h].peerId[i], h)
      /\ PeersHaveIds(host[h])
  BY DEF PeerTimeout, TypeInv, TypeOK
<1>2. host[h].peerId[i] # Nil
  BY <1>1 DEF PeersHaveIds
<1>3. host[h].peerId[i] = g /\ Inviter[i] = h /\ g \in Guest
  BY <1>2, JoiningAssumption DEF RosterInv, PeerIdInv
<1>4. j # Nil
  BY <1>1 DEF RosterInv, TimedInv
<1>5. j \in Invite
  BY <1>3, <1>4 DEF TypeInv, TypeOK, Guests
<1>6. Invitee[j] = g
  BY <1>3, <1>5 DEF RosterInv, OwnInv
<1>7. LeaderOf(g) = h
  BY <1>3, <1>4, <1>5, <1>6 DEF LeaderOf, OneHostEach
<1> QED
  BY <1>1, <1>3, <1>7 DEF Heartbeating

LEMMA PeerTimeoutRoster ==
    ASSUME TypeInv, RosterInv, OneHostEach, NEW h \in Host, NEW i \in Invite,
           PeerTimeout(h, i)
    PROVE  RosterInv'
<1> DEFINE T == host[h].timed \ {i}
<1>1. T \in SUBSET Invite
  BY DEF TypeInv, TypeOK, Hosts
<1>2. /\ host' = [host EXCEPT ![h].timed = T]
      /\ conn' = [conn EXCEPT ![i] = CloseSignal(i)]
      /\ guest' = guest /\ out' = out /\ responses' = responses
  BY DEF PeerTimeout
<1> HIDE DEF T
<1>3. /\ StepOf(h) /\ SameIds(h) /\ SamePeers(h) /\ SameDelete(h)
      /\ SameHandler(h) /\ host'[h].timed = T
  BY <1>1, <1>2, TimedEffect
<1>4. CloseOK
  BY <1>2, PeerTimeoutGone, WireFacts DEF CloseOK, Conns
<1>5. \A j \in host'[h].timed : guest[Invitee[j]].leader # Nil
  BY <1>3 DEF RosterInv, TimedInv, T
<1>6. \A n \in DOMAIN host'[h].deletePeer :
        host'[h].deletePeer[n] # Nil => ~Up(host'[h].deletePeer[n])
  BY <1>3 DEF RosterInv, DeleteInv, SameDelete
<1>7. \A x \in Guest : Up(x) /\ InRoster(h, x) => InRoster(h, x)'
  BY <1>3 DEF InRoster, SamePeers, SameIds
<1>8. Confirming(h)' => host[h].peerId[host'[h].handler.invite] # Nil
  BY <1>3, SameConfirming DEF RosterInv, ConfirmInv
<1> QED
  BY <1>2, <1>3, <1>4, <1>5, <1>6, <1>7, <1>8, SameOld, OldAccepted,
     HostRosterStep DEF SameIds

LEMMA ConnectionLostRoster ==
    ASSUME TypeInv, RosterInv, NEW i \in Invite, ConnectionLost(i)
    PROVE  RosterInv'
<1>1. CloseOK
  BY WireFacts DEF CloseOK, Conns, ConnectionLost
<1> QED
  BY <1>1, SameOld, WireRosterStep DEF ConnectionLost

LEMMA WriterExitRoster ==
    ASSUME TypeInv, RosterInv, NEW i \in Invite, WriterExit(i)
    PROVE  RosterInv'
<1> DEFINE h == Inviter[i]
           d == host[h].peerId[i]
<1>1. h \in Host
  BY JoiningAssumption
<1>2. d \in Guest \cup {Nil}
  BY <1>1 DEF TypeInv, TypeOK, Hosts
<1>3. /\ conn[i] = "closing" /\ conn' = [conn EXCEPT ![i] = "closed"]
      /\ host' = [host EXCEPT ![h].deletePeer = @ \o <<d>>]
      /\ UNCHANGED <<guest, responses, rankChanges>>
  BY DEF WriterExit, WriterEnds
<1>4. PICK n \in 0..Len(out[i]) : out' = [out EXCEPT ![i] = SubSeq(@, 1, n)]
  BY DEF WriterExit, WriterEnds
<1>5. OldConfirmations
  BY <1>4, LoseOld
<1>6. CloseOK
  BY <1>3, WireFacts DEF CloseOK, Conns
<1>7. /\ StepOf(h) /\ SameIds(h) /\ SamePeers(h) /\ SameTimed(h)
      /\ SameHandler(h)
      /\ host'[h].deletePeer = host[h].deletePeer \o <<d>>
  BY <1>1, <1>2, <1>3, WriterEffect
<1>8. d # Nil => ~Up(d)
  BY <1>1, <1>3 DEF RosterInv, CloseInv, Accepted, PeerIdInv
<1>9. \A k \in DOMAIN host'[h].deletePeer :
        host'[h].deletePeer[k] # Nil => ~Up(host'[h].deletePeer[k])
  <2> DEFINE D == Guest \cup {Nil}
  <2>1. host[h].deletePeer \in Seq(D) /\ d \in D
    BY <1>1, <1>2 DEF TypeInv, TypeOK, Hosts
  <2> HIDE DEF D, h, d
  <2>2. ASSUME NEW k \in DOMAIN (host[h].deletePeer \o <<d>>),
               (host[h].deletePeer \o <<d>>)[k] # d
        PROVE  /\ k \in DOMAIN host[h].deletePeer
               /\ (host[h].deletePeer \o <<d>>)[k] = host[h].deletePeer[k]
    BY <2>1, <2>2
  <2> QED
    BY <1>1, <1>7, <1>8, <2>2 DEF RosterInv, DeleteInv
<1>10. \A j \in host'[h].timed : guest[Invitee[j]].leader # Nil
  BY <1>1, <1>7 DEF RosterInv, TimedInv, SameTimed
<1>11. \A x \in Guest : Up(x) /\ InRoster(h, x) => InRoster(h, x)'
  BY <1>7 DEF InRoster, SamePeers, SameIds
<1>12. Confirming(h)' => host[h].peerId[host'[h].handler.invite] # Nil
  BY <1>1, <1>7, SameConfirming DEF RosterInv, ConfirmInv
<1> HIDE DEF h, d
<1> QED
  BY <1>1, <1>3, <1>5, <1>6, <1>7, <1>9, <1>10, <1>11, <1>12, OldAccepted,
     HostRosterStep DEF SameIds

-----------------------------------------------------------------------------
\* What is left to show of a step of a guest.
LEMMA GuestRosterStep ==
    ASSUME TypeInv, RosterInv, NEW g \in Guest, GuestStepOf(g),
           UNCHANGED <<host, conn>>, OldConfirmations,
           \A i \in Invite :
             i \in {guest'[g].invitation, guest'[g].leader,
                    guest'[g].setLeader, guest'[g].dialog} => Invitee[i] = g,
           \A n \in DOMAIN guest'[g].fromBrowser :
             Invitee[guest'[g].fromBrowser[n].invite] = g,
           \A r \in responses' : Invitee[r.invite] = Invitee[r.dialled],
           guest[g].leader # Nil => guest'[g].leader # Nil,
           guest'[g].status = "up" => Up(g),
           guest'[g].confirmedBy # Nil =>
             \E i \in Invite : /\ Invitee[i] = g /\ Accepted(i)
                               /\ Inviter[i] = guest'[g].confirmedBy
    PROVE  RosterInv'
<1>1. \A i \in Invite : Accepted(i)' <=> Accepted(i)
  BY DEF Accepted
<1>2. \A x \in Guest : Up(x)' => Up(x)
  BY DEF Up, GuestStepOf
<1>3. OwnInv'
  BY DEF RosterInv, OwnInv, GuestStepOf
<1>4. PeerIdInv'
  BY DEF RosterInv, PeerIdInv
<1>5. TimedInv'
  <2>1. \A i \in Invite : guest[Invitee[i]].leader # Nil =>
          guest'[Invitee[i]].leader # Nil
    BY JoiningAssumption DEF GuestStepOf
  <2>2. \A h \in Host : host[h].timed \subseteq Invite
    BY DEF TypeInv, TypeOK, Hosts
  <2> QED
    BY <2>1, <2>2 DEF RosterInv, TimedInv
<1>6. CloseInv'
  BY <1>1, <1>2, JoiningAssumption DEF RosterInv, CloseInv
<1>7. DeleteInv'
  <2>1. \A h \in Host : host[h].deletePeer \in Seq(Guest \cup {Nil})
    BY DEF TypeInv, TypeOK, Hosts
  <2>2. \A h \in Host : \A n \in DOMAIN host[h].deletePeer :
          host[h].deletePeer[n] \in Guest \cup {Nil}
    <3> DEFINE D == Guest \cup {Nil}
    <3> HIDE DEF D
    <3>1. \A h \in Host : host[h].deletePeer \in Seq(D)
      BY <2>1 DEF D
    <3>2. \A h \in Host : \A n \in DOMAIN host[h].deletePeer :
            host[h].deletePeer[n] \in D
      BY <3>1
    <3> QED
      BY <3>2 DEF D
  <2> QED
    BY <1>2, <2>2 DEF RosterInv, DeleteInv
<1>8. AcceptedInv'
  BY <1>1, <1>2, JoiningAssumption DEF RosterInv, AcceptedInv, InRoster
<1>9. ConfirmInv'
  <2>1. \A h \in Host : Confirming(h)' =>
          host'[h].peerId[host'[h].handler.invite] # Nil
    BY DEF RosterInv, ConfirmInv, Confirming
  <2>2. \A x \in Guest : guest'[x].confirmedBy # Nil =>
          \E i \in Invite : /\ Invitee[i] = x /\ Accepted(i)'
                            /\ Inviter[i] = guest'[x].confirmedBy
    BY <1>1 DEF RosterInv, ConfirmInv, GuestStepOf
  <2> QED
    BY <1>1, <2>1, <2>2, OldAccepted DEF ConfirmInv
<1> QED
  BY <1>3, <1>4, <1>5, <1>6, <1>7, <1>8, <1>9 DEF RosterInv

\* What a guest has, it had; steps that change less are left less to show.
LEMMA OwnFacts ==
    ASSUME RosterInv, NEW g \in Guest
    PROVE  /\ \A i \in Invite :
                i \in {guest[g].invitation, guest[g].leader,
                       guest[g].setLeader, guest[g].dialog} => Invitee[i] = g
           /\ \A n \in DOMAIN guest[g].fromBrowser :
                Invitee[guest[g].fromBrowser[n].invite] = g
           /\ \A r \in responses : Invitee[r.invite] = Invitee[r.dialled]
           /\ guest[g].confirmedBy # Nil =>
                \E i \in Invite : /\ Invitee[i] = g /\ Accepted(i)
                                  /\ Inviter[i] = guest[g].confirmedBy
BY DEF RosterInv, OwnInv, ConfirmInv

LEMMA QuietGuestStep ==
    ASSUME TypeInv, RosterInv, NEW g \in Guest, GuestStepOf(g),
           SameReceived(g), SameLeader(g), SameBrowser(g),
           UNCHANGED <<host, conn, responses>>, OldConfirmations,
           guest'[g].status = "up" => Up(g),
           guest'[g].confirmedBy = guest[g].confirmedBy
    PROVE  RosterInv'
<1>1. \A i \in Invite :
        i \in {guest'[g].invitation, guest'[g].leader,
               guest'[g].setLeader, guest'[g].dialog} => Invitee[i] = g
  BY OwnFacts DEF SameReceived, SameLeader, SameBrowser
<1>2. \A n \in DOMAIN guest'[g].fromBrowser :
        Invitee[guest'[g].fromBrowser[n].invite] = g
  BY OwnFacts DEF SameBrowser
<1>3. guest[g].leader # Nil => guest'[g].leader # Nil
  BY DEF SameLeader
<1> QED
  BY <1>1, <1>2, <1>3, OwnFacts, GuestRosterStep

LEMMA GuestInitRoster ==
    ASSUME TypeInv, RosterInv, NEW g \in Guest, GuestInit(g)
    PROVE  RosterInv'
BY GuestInitEffect, SameOld, QuietGuestStep DEF GuestInit, SameRank, Up

LEMMA ExitRoster ==
    ASSUME TypeInv, RosterInv, NEW g \in Guest, Exit(g)
    PROVE  RosterInv'
BY DownEffect, SameOld, QuietGuestStep DEF Exit, SameRank, Up

LEMMA DoUpdateRosterRoster ==
    ASSUME TypeInv, RosterInv, NEW g \in Guest, DoUpdateRoster(g)
    PROVE  RosterInv'
BY DoUpdateRosterEffect, SameOld, QuietGuestStep
   DEF DoUpdateRoster, SameStatus, Up

LEMMA ReceiveRosterRoster ==
    ASSUME TypeInv, RosterInv, NEW g \in Guest, NEW i \in Invite,
           ReceiveRoster(g, i)
    PROVE  RosterInv'
<1>1. OldConfirmations
  BY TakeOld DEF ReceiveRoster, HeadIs
<1>2. /\ GuestStepOf(g) /\ SameStatus(g) /\ SameReceived(g) /\ SameLeader(g)
      /\ SameBrowser(g) /\ guest'[g].confirmedBy = guest[g].confirmedBy
  BY ReceiveRosterUpdate, RosterEffect
<1> QED
  BY <1>1, <1>2, QuietGuestStep DEF ReceiveRoster, SameStatus, Up

LEMMA DropMessageRoster ==
    ASSUME TypeInv, RosterInv, NEW g \in Guest, NEW i \in Invite,
           DropMessage(g, i)
    PROVE  RosterInv'
BY TakeOld, SameClose, WireRosterStep DEF DropMessage

LEMMA BrowserAnswersRoster ==
    ASSUME TypeInv, RosterInv, NEW g \in Guest, NEW a \in BOOLEAN,
           BrowserAnswers(g, a)
    PROVE  RosterInv'
<1> DEFINE e == [invite |-> guest[g].dialog, Accepted |-> a]
<1>1. /\ GuestStepOf(g) /\ SameStatus(g) /\ SameRank(g) /\ SameReceived(g)
      /\ SameLeader(g) /\ guest'[g].dialog = Nil
      /\ guest'[g].fromBrowser = Append(guest[g].fromBrowser, e)
  BY AnswerEffect
<1>2. /\ UNCHANGED <<host, conn, out, responses>> /\ guest[g].dialog # Nil
  BY DEF BrowserAnswers
<1>3. guest[g].dialog \in Invite
  BY <1>2 DEF TypeInv, TypeOK, Guests
<1>4. Invitee[e.invite] = g
  BY <1>3, OwnFacts
<1>5. \A n \in DOMAIN guest'[g].fromBrowser :
        Invitee[guest'[g].fromBrowser[n].invite] = g
  <2> DEFINE E == [invite : Invite, Accepted : BOOLEAN]
  <2>1. guest[g].fromBrowser \in Seq(E)
    BY DEF TypeInv, TypeOK, Guests
  <2> HIDE DEF E, e
  <2>2. ASSUME NEW n \in DOMAIN Append(guest[g].fromBrowser, e),
               Append(guest[g].fromBrowser, e)[n] # e
        PROVE  /\ n \in DOMAIN guest[g].fromBrowser
               /\ Append(guest[g].fromBrowser, e)[n] = guest[g].fromBrowser[n]
    BY <2>1, <2>2
  <2> QED
    BY <1>1, <1>4, <2>2, OwnFacts
<1>6. \A i \in Invite :
        i \in {guest'[g].invitation, guest'[g].leader,
               guest'[g].setLeader, guest'[g].dialog} => Invitee[i] = g
  BY <1>1, OwnFacts, JoiningAssumption DEF SameReceived, SameLeader
<1>7. /\ guest[g].leader # Nil => guest'[g].leader # Nil
      /\ guest'[g].status = "up" => Up(g)
      /\ guest'[g].confirmedBy = guest[g].confirmedBy
  BY <1>1 DEF SameLeader, SameStatus, SameRank, Up
<1>8. /\ guest'[g].confirmedBy # Nil =>
           \E i \in Invite : /\ Invitee[i] = g /\ Accepted(i)
                             /\ Inviter[i] = guest'[g].confirmedBy
      /\ \A r \in responses' : Invitee[r.invite] = Invitee[r.dialled]
  BY <1>2, <1>7, OwnFacts
<1> HIDE DEF e
<1> QED
  BY <1>1, <1>2, <1>5, <1>6, <1>7, <1>8, SameOld, GuestRosterStep

\* The answers that are left once the first is handled.
LEMMA AnswersLeft ==
    ASSUME TypeInv, RosterInv, NEW g \in Guest, guest[g].fromBrowser # <<>>
    PROVE  /\ Invitee[Head(guest[g].fromBrowser).invite] = g
           /\ \A n \in DOMAIN Tail(guest[g].fromBrowser) :
                Invitee[Tail(guest[g].fromBrowser)[n].invite] = g
<1> DEFINE E == [invite : Invite, Accepted : BOOLEAN]
<1>1. guest[g].fromBrowser \in Seq(E)
  BY DEF TypeInv, TypeOK, Guests
<1> HIDE DEF E
<1>2. /\ 1 \in DOMAIN guest[g].fromBrowser
      /\ Head(guest[g].fromBrowser) = guest[g].fromBrowser[1]
  BY <1>1
<1>3. ASSUME NEW n \in DOMAIN Tail(guest[g].fromBrowser)
      PROVE  /\ n + 1 \in DOMAIN guest[g].fromBrowser
             /\ Tail(guest[g].fromBrowser)[n] = guest[g].fromBrowser[n + 1]
  BY <1>1
<1> QED
  BY <1>2, <1>3, OwnFacts

LEMMA GuestRespondsRoster ==
    ASSUME TypeInv, RosterInv, NEW g \in Guest, GuestResponds(g)
    PROVE  RosterInv'
<1> DEFINE a == Head(guest[g].fromBrowser)
           i == guest[g].invitation
           answer == [invite |-> a.invite, dialled |-> i,
                      Accepted |-> a.Accepted]
<1>1. guest[g].fromBrowser # <<>> /\ UNCHANGED <<host, conn, out>>
  BY DEF GuestResponds
<1>2. guest[g].invitationReceived => i \in Invite /\ Invitee[i] = g
  BY OwnFacts DEF TypeInv, TypeOK, ReceivedInv, Guests
<1>3. guest[g].invitationReceived =>
        Invitee[answer.invite] = Invitee[answer.dialled]
  BY <1>1, <1>2, AnswersLeft
<1>4. \A r \in responses' : Invitee[r.invite] = Invitee[r.dialled]
  <2>1. CASE responses' = responses
    BY <2>1, OwnFacts
  <2>2. CASE /\ guest[g].invitationReceived
             /\ responses' = responses \cup {answer}
    <3> HIDE DEF answer
    <3> QED
      BY <1>3, <2>2, OwnFacts
  <2> QED
    BY <2>1, <2>2 DEF GuestResponds
<1>5. /\ GuestStepOf(g) /\ SameStatus(g) /\ SameRank(g)
      /\ guest'[g].dialog = guest[g].dialog
      /\ guest'[g].fromBrowser = Tail(guest[g].fromBrowser)
      /\ guest'[g].invitation = i /\ guest'[g].leader = guest[g].leader
      /\ guest'[g].setLeader \in {guest[g].setLeader, i}
  <2>1. CASE guest' = [guest EXCEPT ![g].fromBrowser = Tail(@)]
    BY <1>1, <2>1, RespondEffect DEF SameReceived, SameLeader
  <2>2. CASE guest' = [guest EXCEPT ![g].fromBrowser = Tail(@),
                                    ![g].invitationReceived = FALSE]
    BY <1>1, <2>2, RefuseInviteEffect DEF SameLeader
  <2>3. CASE guest' = [guest EXCEPT ![g].fromBrowser = Tail(@),
                                    ![g].setLeader = i]
    BY <1>1, <2>3, AcceptInviteEffect DEF SameReceived
  <2> QED
    BY <2>1, <2>2, <2>3 DEF GuestResponds
<1>6. \A j \in Invite :
        j \in {guest'[g].invitation, guest'[g].leader,
               guest'[g].setLeader, guest'[g].dialog} => Invitee[j] = g
  BY <1>5, OwnFacts
<1>7. /\ guest[g].leader # Nil => guest'[g].leader # Nil
      /\ guest'[g].status = "up" => Up(g)
      /\ guest'[g].confirmedBy = guest[g].confirmedBy
  BY <1>5 DEF SameStatus, SameRank, Up
<1>8. guest'[g].confirmedBy # Nil =>
        \E j \in Invite : /\ Invitee[j] = g /\ Accepted(j)
                          /\ Inviter[j] = guest'[g].confirmedBy
  BY <1>7, OwnFacts
<1>9. \A n \in DOMAIN guest'[g].fromBrowser :
        Invitee[guest'[g].fromBrowser[n].invite] = g
  BY <1>1, <1>5, AnswersLeft
<1> HIDE DEF a, i, answer
<1> QED
  BY <1>1, <1>4, <1>5, <1>6, <1>7, <1>8, <1>9, SameOld, GuestRosterStep

LEMMA DoSetLeaderRoster ==
    ASSUME TypeInv, RosterInv, NEW g \in Guest, DoSetLeader(g)
    PROVE  RosterInv'
<1>1. /\ GuestStepOf(g) /\ SameStatus(g) /\ SameRank(g) /\ SameReceived(g)
      /\ SameBrowser(g) /\ guest'[g].leader = guest[g].setLeader
      /\ guest'[g].setLeader = Nil
  BY SetLeaderEffect
<1>2. /\ UNCHANGED <<host, conn, out>> /\ responses' \subseteq responses
      /\ guest[g].setLeader # Nil
  BY DEF DoSetLeader
<1>3. \A i \in Invite :
        i \in {guest'[g].invitation, guest'[g].leader,
               guest'[g].setLeader, guest'[g].dialog} => Invitee[i] = g
  BY <1>1, OwnFacts, JoiningAssumption DEF SameReceived, SameBrowser
<1>4. /\ \A n \in DOMAIN guest'[g].fromBrowser :
           Invitee[guest'[g].fromBrowser[n].invite] = g
      /\ \A r \in responses' : Invitee[r.invite] = Invitee[r.dialled]
  BY <1>1, <1>2, OwnFacts DEF SameBrowser
<1>5. /\ guest'[g].leader # Nil
      /\ guest'[g].status = "up" => Up(g)
      /\ guest'[g].confirmedBy = guest[g].confirmedBy
  BY <1>1, <1>2 DEF SameStatus, SameRank, Up
<1> QED
  BY <1>1, <1>2, <1>3, <1>4, <1>5, OwnFacts, SameOld, GuestRosterStep

LEMMA ReceiveInvitationRoster ==
    ASSUME TypeInv, RosterInv, NEW g \in Guest, NEW i \in Invite,
           ReceiveInvitation(g, i)
    PROVE  RosterInv'
<1>1. OldConfirmations
  BY TakeOld DEF ReceiveInvitation, HeadIs
<1>2. /\ GuestStepOf(g) /\ SameStatus(g) /\ SameRank(g) /\ SameLeader(g)
      /\ guest'[g].invitation = i
      /\ guest'[g].dialog \in {i, guest[g].dialog}
      /\ guest'[g].fromBrowser = guest[g].fromBrowser
  BY InvitationEffect DEF ShowInvitation
<1>3. Invitee[i] = g /\ UNCHANGED <<host, conn, responses>>
  BY DEF ReceiveInvitation
<1>4. \A j \in Invite :
        j \in {guest'[g].invitation, guest'[g].leader,
               guest'[g].setLeader, guest'[g].dialog} => Invitee[j] = g
  BY <1>2, <1>3, OwnFacts DEF SameLeader
<1>5. /\ guest[g].leader # Nil => guest'[g].leader # Nil
      /\ guest'[g].status = "up" => Up(g)
      /\ guest'[g].confirmedBy = guest[g].confirmedBy
  BY <1>2 DEF SameLeader, SameStatus, SameRank, Up
<1> QED
  BY <1>1, <1>2, <1>3, <1>4, <1>5, OwnFacts, GuestRosterStep

LEMMA ReceiveConfirmationRoster ==
    ASSUME TypeInv, RosterInv, NEW g \in Guest, NEW i \in Invite,
           ReceiveConfirmation(g, i)
    PROVE  RosterInv'
<1> DEFINE m == Head(out[i])
<1>1. /\ UNCHANGED <<host, conn, responses>> /\ Invitee[i] = g
      /\ out[i] # <<>> /\ m.type = "JoinConfirmation"
      /\ out' = [out EXCEPT ![i] = Tail(@)]
  BY DEF ReceiveConfirmation, HeadIs
<1>2. OldConfirmations
  BY <1>1, TakeOld
<1>3. CASE guest' = guest
  BY <1>1, <1>2, <1>3, SameClose, WireRosterStep
<1>4. CASE guest' = [guest EXCEPT ![g].ignored = TRUE]
  BY <1>1, <1>2, <1>4, IgnoreEffect, QuietGuestStep DEF SameStatus, Up
<1>5. CASE guest' = [guest EXCEPT ![g].status = "down"]
  BY <1>1, <1>2, <1>5, DownEffect, QuietGuestStep DEF SameRank, Up
<1>6. CASE Joins(g, i) /\ m.Success
  <2>5. /\ GuestStepOf(g) /\ SameStatus(g) /\ SameReceived(g)
        /\ SameLeader(g) /\ SameBrowser(g)
        /\ guest'[g].confirmedBy = Inviter[i]
    BY <1>6, JoinEffect
  <2>6. Accepted(i)
    <3>1. 1 \in DOMAIN out[i] /\ out[i][1] = m
      <4> HIDE DEF Messages
      <4> QED
        BY <1>1, WireFacts
    <3> QED
      BY <1>1, <1>6, <3>1 DEF RosterInv, ConfirmInv, IsConfirmation
  <2>7. \A j \in Invite :
          j \in {guest'[g].invitation, guest'[g].leader,
                 guest'[g].setLeader, guest'[g].dialog} => Invitee[j] = g
    BY <2>5, OwnFacts DEF SameReceived, SameLeader, SameBrowser
  <2>8. \A n \in DOMAIN guest'[g].fromBrowser :
          Invitee[guest'[g].fromBrowser[n].invite] = g
    BY <2>5, OwnFacts DEF SameBrowser
  <2>9. /\ guest[g].leader # Nil => guest'[g].leader # Nil
        /\ guest'[g].status = "up" => Up(g)
    BY <2>5 DEF SameLeader, SameStatus, Up
  <2> QED
    BY <1>1, <1>2, <2>5, <2>6, <2>7, <2>8, <2>9, OwnFacts, GuestRosterStep
<1> QED
  BY <1>3, <1>4, <1>5, <1>6 DEF ReceiveConfirmation, Joins

-----------------------------------------------------------------------------
LEMMA RosterInit == Init => RosterInv
BY JoiningAssumption
   DEF Init, RosterInv, OwnInv, PeerIdInv, TimedInv, CloseInv, DeleteInv,
       AcceptedInv, ConfirmInv, Accepted, Confirming, Idle

LEMMA RosterStep ==
    ASSUME OneHostEach, RandomsDiffer
    PROVE  TypeInv /\ RosterInv /\ [Next]_vars => RosterInv'
<1> SUFFICES ASSUME TypeInv, RosterInv, [Next]_vars PROVE RosterInv'
  OBVIOUS
<1>1. ASSUME NEW h \in Host, HostNext(h) PROVE RosterInv'
  BY <1>1, HostInitRoster, BecomeLeaderRoster, InvitationRequestRoster,
     DialRoster, HandleResponseRoster, ReadRosterRoster,
     SendConfirmationRoster, SendBroadcastRoster, RankChangeRoster,
     DoAddPeerRoster, DoUpdatePeerRoster, DoDeletePeerRoster,
     SyncReadsRoster, SyncSendsRoster, HeartbeatRoster, PeerTimeoutRoster
     DEF HostNext
<1>2. ASSUME NEW g \in Guest, GuestNext(g) PROVE RosterInv'
  BY <1>2, GuestInitRoster, BrowserAnswersRoster, GuestRespondsRoster,
     DoSetLeaderRoster, DoUpdateRosterRoster, ExitRoster,
     ReceiveInvitationRoster, ReceiveConfirmationRoster,
     ReceiveRosterRoster, DropMessageRoster
     DEF GuestNext
<1>3. ASSUME NEW i \in Invite, ConnectionLost(i) \/ WriterExit(i)
      PROVE  RosterInv'
  BY <1>3, ConnectionLostRoster, WriterExitRoster
<1>4. CASE UNCHANGED vars
  BY <1>4, SameClose, SameOld, WireRosterStep DEF vars
<1> QED
  BY <1>1, <1>2, <1>3, <1>4 DEF Next

\* In any session in which every guest is invited by one host, and no two
\* guests of a host are given the same Random: a guest that was confirmed, and
\* is there, is in the roster of the host that confirmed it or is about to be
\* added to it, whatever becomes of its other invitations and connections.
THEOREM ConfirmedStaysInRoster ==
    ASSUME OneHostEach, RandomsDiffer
    PROVE  Spec => []JoinedInRoster
<1>1. Init => TypeInv /\ RosterInv
  BY TypeInit, RosterInit
<1>2. TypeInv /\ RosterInv /\ [Next]_vars => TypeInv' /\ RosterInv'
  BY TypeStep, RosterStep
<1>3. TypeInv /\ RosterInv => JoinedInRoster
  BY DEF RosterInv, ConfirmInv, AcceptedInv, InRoster, JoinedInRoster
<1> QED
  BY <1>1, <1>2, <1>3, PTL DEF Spec

-----------------------------------------------------------------------------
(* Every step keeps SettleInv.                                             *)

LEMMA UnknownNoRank == Unknown \notin Ranks
BY DEF Unknown, Ranks, Viewer, Editor, Director

\* The peers of guests that are there stay.
PeersStay(h) ==
    \A g \in Guest : Up(g) /\ host[h].peers[g] # Nil
        => host'[h].peers[g] = host[h].peers[g]

\* Nothing is lost on the connection of a guest that is there.
OutKept ==
    \A i \in Invite : Accepted(i) /\ Up(Invitee[i]) =>
        \A n \in DOMAIN out[i] : n \in DOMAIN out'[i] /\ out'[i][n] = out[i][n]

\* Rosters that are sent are true.
NewTrue ==
    \A i \in Invite : Up(Invitee[i]) =>
        \A n \in DOMAIN out'[i] : HasRoster(out'[i][n]) =>
            \/ \E m \in DOMAIN out[i] : out'[i][n] = out[i][m]
            \/ TrueOf(out'[i][n].Roster, host'[Inviter[i]].peers[Invitee[i]],
                      Invitee[i])

LEMMA TrueStays ==
    ASSUME NEW roster, NEW g, NEW i, NEW j, TrueOf(roster, i, g),
           i # Nil => j = i
    PROVE  TrueOf(roster, j, g)
BY DEF TrueOf

LEMMA SameOut ==
    ASSUME out' = out
    PROVE  OutKept /\ NewTrue
BY DEF OutKept, NewTrue

LEMMA SamePeersStay ==
    ASSUME NEW h, SamePeers(h)
    PROVE  PeersStay(h)
BY DEF PeersStay, SamePeers

\* A peer in the roster was accepted.
LEMMA PeerWasAccepted ==
    ASSUME TypeInv, RosterInv, NEW h \in Host, NEW g \in Guest,
           host[h].peers[g] # Nil
    PROVE  LET i == host[h].peers[g]
           IN  i \in Invite /\ Inviter[i] = h /\ Invitee[i] = g /\ Accepted(i)
<1> DEFINE i == host[h].peers[g]
<1>1. i \in Invite /\ host[h].peerId[i] = g
  BY DEF TypeInv, TypeOK, Hosts, PeersHaveIds
<1>2. g # Nil
  BY JoiningAssumption
<1> QED
  BY <1>1, <1>2 DEF RosterInv, PeerIdInv, Accepted

\* The connection of an accepted guest that is there is open.
LEMMA AcceptedOpen ==
    ASSUME TypeInv, RosterInv, NEW i \in Invite, Accepted(i), Up(Invitee[i])
    PROVE  conn[i] = "open"
<1>1. conn[i] \notin {"closing", "closed"}
  BY DEF RosterInv, CloseInv
<1>2. conn[i] \notin {"none", "dialling"}
  BY JoiningAssumption DEF TypeInv, OutstandingInv, Accepted
<1> QED
  BY <1>1, <1>2, WireFacts DEF Conns

LEMMA TrueHostStep ==
    ASSUME TypeInv, TrueInv, NEW h \in Host, StepOf(h), guest' = guest,
           PeersStay(h), HeldTrue(h)', NewTrue
    PROVE  TrueInv'
<1>1. \A i \in Invite : Inviter[i] \in Host /\ Invitee[i] \in Guest
  BY JoiningAssumption
<1>2. \A g \in Guest : Up(g)' <=> Up(g)
  BY DEF Up
<1>3. \A k \in Host, g \in Guest : Up(g) /\ host[k].peers[g] # Nil
        => host'[k].peers[g] = host[k].peers[g]
  BY DEF StepOf, PeersStay
<1>4. ASSUME NEW k \in Host PROVE HeldTrue(k)'
  <2>1. CASE k = h
    BY <2>1
  <2>2. CASE k # h
    BY <1>2, <2>2 DEF TrueInv, HeldTrue, StepOf
  <2> QED
    BY <2>1, <2>2
<1>5. ASSUME NEW i \in Invite PROVE OutTrue(i)'
  <2> DEFINE g == Invitee[i]
             p == host[Inviter[i]].peers[g]
             q == host'[Inviter[i]].peers[g]
  <2> SUFFICES ASSUME Up(g), NEW n \in DOMAIN out'[i], HasRoster(out'[i][n])
               PROVE  TrueOf(out'[i][n].Roster, q, g)
    BY <1>1, <1>2 DEF OutTrue
  <2>1. ASSUME NEW m \in DOMAIN out[i], out'[i][n] = out[i][m]
        PROVE  TrueOf(out'[i][n].Roster, q, g)
    <3>1. TrueOf(out[i][m].Roster, p, g)
      BY <2>1 DEF TrueInv, OutTrue
    <3> QED
      BY <1>1, <1>3, <2>1, <3>1, TrueStays
  <2> QED
    BY <2>1 DEF NewTrue
<1>6. ASSUME NEW i \in Invite PROVE TakenTrue(i)'
  BY <1>1, <1>2, <1>3, TrueStays DEF TrueInv, TakenTrue
<1> QED
  BY <1>4, <1>5, <1>6 DEF TrueInv

\* What is held stays true.
LEMMA HeldStays ==
    ASSUME TrueInv, NEW h \in Host, guest' = guest, PeersStay(h),
           SameSync(h), SameHandler(h)
    PROVE  HeldTrue(h)'
BY TrueStays DEF TrueInv, HeldTrue, Up, PeersStay, SameSync, SameHandler

\* What was sent stays sent.
LEMMA SentStays ==
    ASSUME TypeInv, RosterInv, NEW h \in Host, NEW g \in Guest, Up(g),
           host[h].peers[g] # Nil => host'[h].peers[g] = host[h].peers[g],
           OutKept
    PROVE  /\ Sent(h, g) => Sent(h, g)'
           /\ SentAfter(h, g) => SentAfter(h, g)'
<1> SUFFICES ASSUME host[h].peers[g] # Nil
             PROVE  /\ Sent(h, g) => Sent(h, g)'
                    /\ SentAfter(h, g) => SentAfter(h, g)'
  BY DEF Sent, SentAfter
<1> DEFINE i == host[h].peers[g]
<1>1. i \in Invite /\ Invitee[i] = g /\ Accepted(i)
  BY PeerWasAccepted
<1>2. \A n \in DOMAIN out[i] : n \in DOMAIN out'[i] /\ out'[i][n] = out[i][n]
  BY <1>1 DEF OutKept
<1>3. host'[h].peers[g] = i
  OBVIOUS
<1> QED
  BY <1>2, <1>3 DEF Sent, SentAfter

LEMMA DueHostStep ==
    ASSUME TypeInv, RosterInv, DueInv, NEW h \in Host, StepOf(h),
           guest' = guest, host'[h].peerId = host[h].peerId, PeersStay(h),
           OutKept,
           \A i \in Invite :
             Inviter[i] = h /\ Accepted(i) /\ Up(Invitee[i]) /\ Awaited(i)
               => Awaited(i)',
           \A g \in Guest : Up(g) /\ InRoster(h, g) /\ Pending(h, g) =>
             \/ Pending(h, g)'
             \/ /\ host[h].peers[g] # Nil /\ Sent(h, g)'
                /\ Awaited(host[h].peers[g]) => SentAfter(h, g)'
    PROVE  DueInv'
<1> SUFFICES ASSUME NEW i \in Invite PROVE Due(i)'
  BY DEF DueInv
<1> DEFINE k == Inviter[i]
           g == Invitee[i]
<1>1. k \in Host /\ g \in Guest
  BY JoiningAssumption
<1>2. Accepted(i)' <=> Accepted(i)
  BY <1>1 DEF Accepted, StepOf
<1> SUFFICES ASSUME Accepted(i), Up(g), ~guest[g].ignored
             PROVE  IF guest[g].Rank = Unknown
                    THEN /\ Awaited(i)'
                         /\ Pending(k, g)' \/ SentAfter(k, g)'
                    ELSE RankDue(k, g)'
  BY <1>2 DEF Due, Up
<1>3. host[k].peers[g] # Nil => host'[k].peers[g] = host[k].peers[g]
  BY <1>1 DEF PeersStay, StepOf
<1>4. /\ Sent(k, g) => Sent(k, g)'
      /\ SentAfter(k, g) => SentAfter(k, g)'
  BY <1>1, <1>3, SentStays
<1>5. InRoster(k, g)
  BY DEF RosterInv, AcceptedInv
<1>6. Awaited(i) => Awaited(i)'
  <2>1. CASE k = h
    BY <2>1
  <2>2. CASE k # h
    BY <1>1, <2>2 DEF Awaited, Confirming, StepOf, OutKept
  <2> QED
    BY <2>1, <2>2
<1>7. Pending(k, g) =>
        \/ Pending(k, g)'
        \/ /\ host[k].peers[g] # Nil /\ Sent(k, g)'
           /\ Awaited(host[k].peers[g]) => SentAfter(k, g)'
  <2>1. CASE k = h
    BY <1>1, <1>5, <2>1
  <2>2. CASE k # h
    BY <1>1, <2>2 DEF Pending, StepOf
  <2> QED
    BY <2>1, <2>2
<1>8. CASE guest[g].Rank = Unknown
  <2>1. Awaited(i) /\ (Pending(k, g) \/ SentAfter(k, g))
    BY <1>8 DEF DueInv, Due
  <2>2. host[k].peers[g] # Nil => Awaited(host[k].peers[g])
    BY <1>1, <1>8, PeerWasAccepted DEF DueInv, Due
  <2> HIDE DEF k, g
  <2> QED
    BY <1>4, <1>6, <1>7, <1>8, <2>1, <2>2
<1>9. CASE guest[g].Rank # Unknown
  <2>1. RankDue(k, g)
    BY <1>9 DEF DueInv, Due
  <2>2. CASE Pending(k, g) \/ Sent(k, g)
    BY <1>4, <1>7, <1>9, <2>2 DEF RankDue
  <2>3. CASE ~(Pending(k, g) \/ Sent(k, g))
    BY <1>3, <1>9, <2>1, <2>3 DEF RankDue
  <2> QED
    BY <2>2, <2>3
<1> QED
  BY <1>8, <1>9

\* The confirmations that are awaited of h stay so.
AwaitedStays(h) ==
    \A i \in Invite :
        Inviter[i] = h /\ Accepted(i) /\ Up(Invitee[i]) /\ Awaited(i)
            => Awaited(i)'

\* A roster that is to be sent stays so, or is sent.
PendingStays(h) ==
    \A g \in Guest : Up(g) /\ InRoster(h, g) /\ Pending(h, g) =>
        \/ Pending(h, g)'
        \/ /\ host[h].peers[g] # Nil /\ Sent(h, g)'
           /\ Awaited(host[h].peers[g]) => SentAfter(h, g)'

\* What is left to show of a step of a host that keeps the ids of its peers.
LEMMA HostSettleStep ==
    ASSUME TypeInv, RosterInv, SettleInv, NEW h \in Host, StepOf(h),
           guest' = guest, responses' \subseteq responses,
           rankChanges' = rankChanges, host'[h].peerId = host[h].peerId,
           rankChanges = 0 =>
             /\ host'[h].updatePeer = <<>> /\ host'[h].peerRank = RankOffered
             /\ PeersStay(h) /\ HeldTrue(h)' /\ NewTrue /\ OutKept
             /\ AwaitedStays(h) /\ PendingStays(h)
    PROVE  SettleInv'
<1>1. JoinInv'
  <2>1. \A i \in Invite : Accepted(i)' <=> Accepted(i)
    BY JoiningAssumption DEF Accepted, StepOf
  <2> QED
    BY <2>1 DEF SettleInv, JoinInv
<1>2. ASSUME rankChanges = 0 PROVE NoChangeInv'
  BY <1>2 DEF SettleInv, NoChangeInv, StepOf
<1>3. ASSUME rankChanges = 0 PROVE TrueInv'
  BY <1>3, TrueHostStep DEF SettleInv
<1>4. ASSUME rankChanges = 0 PROVE DueInv'
  BY <1>4, DueHostStep DEF SettleInv, AwaitedStays, PendingStays
<1> QED
  BY <1>1, <1>2, <1>3, <1>4 DEF SettleInv

LEMMA SameNoChange ==
    ASSUME SettleInv, NEW h \in Host, SameRanks(h), rankChanges = 0
    PROVE  host'[h].updatePeer = <<>> /\ host'[h].peerRank = RankOffered
BY DEF SettleInv, NoChangeInv, SameRanks

\* The handler stays where it is.
LEMMA HandlerAwaitedStays ==
    ASSUME NEW h \in Host, SameHandler(h), OutKept
    PROVE  AwaitedStays(h)
BY DEF AwaitedStays, Awaited, Confirming, SameHandler, OutKept

\* Most steps of a host leave all of this alone.
LEMMA QuietSettleStep ==
    ASSUME TypeInv, RosterInv, SettleInv, NEW h \in Host, StepOf(h),
           host'[h].peerId = host[h].peerId, SamePeers(h), SameRanks(h),
           SameSync(h), SameHandler(h), guest' = guest,
           responses' \subseteq responses, rankChanges' = rankChanges,
           NewTrue, OutKept
    PROVE  SettleInv'
<1>1. PendingStays(h)
  BY DEF PendingStays, Pending, SamePeers, SameSync, SameHandler
<1>2. PeersStay(h)
  BY SamePeersStay
<1>3. rankChanges = 0 => HeldTrue(h)'
  BY <1>2, HeldStays DEF SettleInv
<1> QED
  BY <1>1, <1>2, <1>3, SameNoChange, HandlerAwaitedStays, HostSettleStep

\* Only the connections, or the messages, change.
LEMMA WireSettleStep ==
    ASSUME TypeInv, RosterInv, SettleInv, host' = host, guest' = guest,
           responses' \subseteq responses, rankChanges' = rankChanges,
           NewTrue, OutKept
    PROVE  SettleInv'
<1>1. SUFFICES ASSUME Host # {} PROVE SettleInv'
  <2>1. Host = {} => Invite = {}
    BY JoiningAssumption
  <2>2. ASSUME Invite = {}, Host = {} PROVE SettleInv'
    BY <2>2 DEF SettleInv, JoinInv, NoChangeInv, TrueInv, DueInv
  <2> QED
    BY <2>1, <2>2
<1>2. PICK h \in Host : TRUE
  BY <1>1
<1>3. /\ StepOf(h) /\ host'[h].peerId = host[h].peerId /\ SamePeers(h)
      /\ SameRanks(h) /\ SameSync(h) /\ SameHandler(h)
  BY DEF TypeInv, TypeOK, StepOf, SamePeers, SameRanks, SameSync, SameHandler
<1> QED
  BY <1>3, QuietSettleStep

LEMMA HostInitSettle ==
    ASSUME TypeInv, RosterInv, SettleInv, NEW h \in Host,
           HostInit(h) \/ EnterLoop(h)
    PROVE  SettleInv'
<1>1. StepOf(h) /\ Same(h)
  BY HostInitEffect, EnterLoopEffect
<1> QED
  BY <1>1, SameOut, QuietSettleStep DEF HostInit, EnterLoop, Same, SameIds

\* The actor does something that starts a syncRoster.
LEMMA SyncSettleStep ==
    ASSUME TypeInv, RosterInv, SettleInv, NEW h \in Host, StepOf(h),
           host'[h].peerId = host[h].peerId, PeersStay(h), SameRanks(h),
           SameHandler(h), host'[h].syncRoster = TRUE,
           host'[h].sending = host[h].sending,
           UNCHANGED <<guest, out, responses, rankChanges>>
    PROVE  SettleInv'
<1>1. PendingStays(h)
  BY DEF PendingStays, Pending
<1>2. rankChanges = 0 => HeldTrue(h)'
  BY TrueStays DEF SettleInv, TrueInv, HeldTrue, Up, PeersStay, SameHandler
<1> QED
  BY <1>1, <1>2, SameOut, SameNoChange, HandlerAwaitedStays, HostSettleStep

LEMMA BecomeLeaderSettle ==
    ASSUME TypeInv, RosterInv, SettleInv, NEW h \in Host, DoBecomeLeader(h)
    PROVE  SettleInv'
BY BecomeLeaderEffect, SamePeersStay, SyncSettleStep DEF DoBecomeLeader

LEMMA DoAddPeerSettle ==
    ASSUME TypeInv, RosterInv, SettleInv, NEW h \in Host, DoAddPeer(h)
    PROVE  SettleInv'
<1> DEFINE i == Head(host[h].addPeer)
           g == host[h].peerId[i]
<1>1. /\ StepOf(h) /\ SameIds(h) /\ SameRanks(h) /\ SameHandler(h)
      /\ host'[h].syncRoster = TRUE /\ host'[h].sending = host[h].sending
      /\ host'[h].peers = IF host[h].peers[g] = Nil
                          THEN [host[h].peers EXCEPT ![g] = i]
                          ELSE host[h].peers
  BY AddEffect
<1>2. host[h].peers \in [Guest -> Invite \cup {Nil}]
  BY DEF TypeInv, TypeOK, Hosts
<1>3. PeersStay(h)
  BY <1>1, <1>2 DEF PeersStay
<1> QED
  BY <1>1, <1>3, SyncSettleStep DEF DoAddPeer, SameIds

LEMMA DoDeletePeerSettle ==
    ASSUME TypeInv, RosterInv, SettleInv, NEW h \in Host, DoDeletePeer(h)
    PROVE  SettleInv'
<1>1. PeersStay(h)
  BY DeleteKeeps DEF PeersStay
<1> QED
  BY <1>1, DeleteEffect, SyncSettleStep DEF DoDeletePeer, SameIds

\* Once a rank is changed, nothing is left to show but JoinInv.
LEMMA ChangedSettleStep ==
    ASSUME TypeInv, RosterInv, SettleInv, NEW h \in Host, StepOf(h),
           SameIds(h), guest' = guest, responses' = responses,
           rankChanges' # 0
    PROVE  SettleInv'
<1>1. \A i \in Invite : Accepted(i)' <=> Accepted(i)
  BY JoiningAssumption DEF Accepted, StepOf, SameIds
<1>2. JoinInv'
  BY <1>1 DEF SettleInv, JoinInv
<1> QED
  BY <1>2 DEF SettleInv

LEMMA RankChangeSettle ==
    ASSUME TypeInv, RosterInv, SettleInv, NEW h \in Host, NEW from,
           NEW g \in Guest, NEW rank \in Ranks,
           RankChangeRequest(h, from, g, rank)
    PROVE  SettleInv'
<1>1. StepOf(h) /\ SameIds(h)
  BY ChangeEffect DEF RankChangeRequest
<1>2. rankChanges' # 0
  BY WireFacts DEF RankChangeRequest
<1> QED
  BY <1>1, <1>2, ChangedSettleStep DEF RankChangeRequest

LEMMA DoUpdatePeerSettle ==
    ASSUME TypeInv, RosterInv, SettleInv, NEW h \in Host, DoUpdatePeer(h)
    PROVE  SettleInv'
<1>1. rankChanges' # 0
  BY DEF SettleInv, NoChangeInv, DoUpdatePeer
<1> QED
  BY <1>1, UpdateEffect, ChangedSettleStep DEF DoUpdatePeer

LEMMA InvitationRequestSettle ==
    ASSUME TypeInv, RosterInv, SettleInv, NEW h \in Host, NEW i, NEW from,
           InvitationRequest(h, i, from)
    PROVE  SettleInv'
BY SameOut, WireSettleStep DEF InvitationRequest

LEMMA DialSettle ==
    ASSUME TypeInv, RosterInv, SettleInv, NEW h \in Host, NEW i \in Invite,
           DialInvited(h, i)
    PROVE  SettleInv'
<1>1. /\ Inviter[i] = h /\ conn[i] = "dialling"
      /\ UNCHANGED <<guest, responses, rankChanges>>
  BY DEF DialInvited
<1>2. CASE UNCHANGED <<host, out>>
  BY <1>1, <1>2, SameOut, WireSettleStep
<1>3. CASE /\ out' = [out EXCEPT ![i] = <<[type |-> "Invitation"]>>]
           /\ host' = [host EXCEPT ![h].outstanding =
                {j \in @ : Random[j] # Random[i]} \cup {i}]
  <2>1. /\ StepOf(h) /\ SamePeers(h) /\ SameRanks(h) /\ SameSync(h)
        /\ SameHandler(h) /\ host'[h].peerId = host[h].peerId
    BY <1>3, DialEffect
  <2>2. ~Accepted(i)
    BY <1>1 DEF TypeInv, OutstandingInv, Accepted
  <2>3. OutKept
    BY <1>3, <2>2, WireFacts DEF OutKept
  <2>4. NewTrue
    BY <1>3, WireFacts DEF NewTrue, HasRoster
  <2> QED
    BY <1>1, <2>1, <2>3, <2>4, QuietSettleStep
<1> QED
  BY <1>2, <1>3 DEF DialInvited

LEMMA TimedSettle ==
    ASSUME TypeInv, RosterInv, SettleInv, NEW h \in Host,
           NEW T \in SUBSET Invite, host' = [host EXCEPT ![h].timed = T],
           UNCHANGED <<guest, out, responses, rankChanges>>
    PROVE  SettleInv'
BY TimedEffect, SameOut, QuietSettleStep DEF SameIds

LEMMA HeartbeatSettle ==
    ASSUME TypeInv, RosterInv, SettleInv, NEW h \in Host, NEW g \in Guest,
           Heartbeat(h, g)
    PROVE  SettleInv'
<1> DEFINE T == host[h].timed \cup {host[h].peers[g]}
<1>1. T \in SUBSET Invite
  BY DEF TypeInv, TypeOK, Hosts, Heartbeat, GetPeer
<1>2. host' = [host EXCEPT ![h].timed = T]
  BY DEF Heartbeat
<1> HIDE DEF T
<1> QED
  BY <1>1, <1>2, TimedSettle DEF Heartbeat

LEMMA PeerTimeoutSettle ==
    ASSUME TypeInv, RosterInv, SettleInv, NEW h \in Host, NEW i \in Invite,
           PeerTimeout(h, i)
    PROVE  SettleInv'
<1> DEFINE T == host[h].timed \ {i}
<1>1. T \in SUBSET Invite
  BY DEF TypeInv, TypeOK, Hosts
<1>2. host' = [host EXCEPT ![h].timed = T]
  BY DEF PeerTimeout
<1> HIDE DEF T
<1> QED
  BY <1>1, <1>2, TimedSettle DEF PeerTimeout

LEMMA ConnectionLostSettle ==
    ASSUME TypeInv, RosterInv, SettleInv, NEW i, ConnectionLost(i)
    PROVE  SettleInv'
BY SameOut, WireSettleStep DEF ConnectionLost

LEMMA WriterExitSettle ==
    ASSUME TypeInv, RosterInv, SettleInv, NEW i \in Invite, WriterExit(i)
    PROVE  SettleInv'
<1> DEFINE h == Inviter[i]
           d == host[h].peerId[i]
<1>1. h \in Host
  BY JoiningAssumption
<1>2. d \in Guest \cup {Nil}
  BY <1>1 DEF TypeInv, TypeOK, Hosts
<1>3. /\ conn[i] = "closing"
      /\ host' = [host EXCEPT ![h].deletePeer = @ \o <<d>>]
      /\ UNCHANGED <<guest, responses, rankChanges>>
  BY DEF WriterExit, WriterEnds
<1>4. PICK n \in 0..Len(out[i]) : out' = [out EXCEPT ![i] = SubSeq(@, 1, n)]
  BY DEF WriterExit, WriterEnds
<1>5. ~(Accepted(i) /\ Up(Invitee[i]))
  BY <1>3 DEF RosterInv, CloseInv
<1>6. OutKept
  BY <1>4, <1>5, WireFacts DEF OutKept
<1>7. NewTrue
  <2> HIDE DEF Messages
  <2>1. ASSUME NEW k \in DOMAIN SubSeq(out[i], 1, n)
        PROVE  k \in DOMAIN out[i] /\ out[i][k] = SubSeq(out[i], 1, n)[k]
    BY WireFacts
  <2> QED
    BY <1>4, <2>1, WireFacts DEF NewTrue
<1>8. /\ StepOf(h) /\ SameIds(h) /\ SamePeers(h) /\ SameRanks(h)
      /\ SameSync(h) /\ SameHandler(h)
  BY <1>1, <1>2, <1>3, WriterEffect
<1> HIDE DEF h, d
<1> QED
  BY <1>1, <1>3, <1>6, <1>7, <1>8, QuietSettleStep DEF SameIds


\* What is sent on one connection, or on those of all peers, is kept.
LEMMA SendKept ==
    ASSUME TypeInv, NEW i \in Invite, NEW m, Send(i, m),
           HasRoster(m) /\ Up(Invitee[i]) =>
             TrueOf(m.Roster, host'[Inviter[i]].peers[Invitee[i]], Invitee[i])
    PROVE  OutKept /\ NewTrue
<1> HIDE DEF Messages
<1>1. out \in [Invite -> Seq(Messages)]
  BY DEF TypeInv, TypeOK
<1>2. \A j \in Invite : j # i => out'[j] = out[j]
  BY <1>1 DEF Send
<1>3. out'[i] = Append(out[i], m) \/ out'[i] = out[i]
  BY <1>1 DEF Send
<1>4. \A n \in DOMAIN out[i] : n \in DOMAIN out'[i] /\ out'[i][n] = out[i][n]
  BY <1>1, <1>3
<1>5. \A n \in DOMAIN out'[i] :
        (n \in DOMAIN out[i] /\ out'[i][n] = out[i][n]) \/ out'[i][n] = m
  BY <1>1, <1>3
<1> QED
  BY <1>2, <1>4, <1>5 DEF OutKept, NewTrue

LEMMA BroadcastKept ==
    ASSUME TypeInv, NEW h \in Host, NEW m, BroadcastToPeers(h, m),
           SamePeers(h),
           \A i \in Invite, g \in Guest : host[h].peers[g] = i =>
             Inviter[i] = h /\ Invitee[i] = g,
           \A g \in Guest : Up(g) => TrueOf(m.Roster, host[h].peers[g], g)
    PROVE  OutKept /\ NewTrue
<1> HIDE DEF Messages
<1>1. out \in [Invite -> Seq(Messages)]
  BY DEF TypeInv, TypeOK
<1>2. ASSUME NEW i \in Invite
      PROVE  \/ out'[i] = out[i]
             \/ /\ out'[i] = Append(out[i], m)
                /\ Inviter[i] = h /\ host[h].peers[Invitee[i]] = i
  BY <1>1 DEF BroadcastToPeers
<1>3. ASSUME NEW i \in Invite
      PROVE  \A n \in DOMAIN out[i] :
               n \in DOMAIN out'[i] /\ out'[i][n] = out[i][n]
  BY <1>1, <1>2
<1>4. ASSUME NEW i \in Invite, NEW n \in DOMAIN out'[i]
      PROVE  \/ n \in DOMAIN out[i] /\ out'[i][n] = out[i][n]
             \/ out'[i][n] = m /\ Inviter[i] = h
  <2>1. CASE out'[i] = out[i]
    BY <2>1
  <2>2. CASE out'[i] # out[i]
    <3>1. out'[i] = Append(out[i], m) /\ Inviter[i] = h
      BY <1>2, <2>2
    <3>2. n \in DOMAIN Append(out[i], m)
      BY <3>1
    <3>3. out[i] \in Seq(Messages)
      BY <1>1
    <3>4. \/ n \in DOMAIN out[i] /\ Append(out[i], m)[n] = out[i][n]
          \/ Append(out[i], m)[n] = m
      BY <3>2, <3>3
    <3> QED
      BY <3>1, <3>4
  <2> QED
    BY <2>1, <2>2
<1>5. NewTrue
  BY <1>4, JoiningAssumption DEF NewTrue, SamePeers
<1> QED
  BY <1>3, <1>5 DEF OutKept

LEMMA RefuseSettle ==
    ASSUME TypeInv, RosterInv, SettleInv, NEW h \in Host,
           NEW i \in host[h].outstanding, Refuse(h, i, Nil), guest' = guest,
           responses' \subseteq responses, rankChanges' = rankChanges,
           OutKept, NewTrue
    PROVE  SettleInv'
<1>1. /\ i \in Invite /\ host[h].peerId[i] = Nil
      /\ host[h].peerId \in [Invite -> Guest \cup {Nil}]
  BY DEF TypeInv, TypeOK, Hosts, OutstandingInv
<1>2. /\ StepOf(h) /\ SamePeers(h) /\ SameRanks(h) /\ SameSync(h)
      /\ SameHandler(h)
      /\ host'[h].peerId = [host[h].peerId EXCEPT ![i] = Nil]
  BY <1>1, RefuseEffect
<1>3. host'[h].peerId = host[h].peerId
  BY <1>1, <1>2
<1> QED
  BY <1>2, <1>3, QuietSettleStep

\* A guest that is accepted is awaited, and a roster is to be sent.
LEMMA AcceptSettle ==
    ASSUME TypeInv, RosterInv, SettleInv, NEW h \in Host, Ready(h),
           NEW i \in host[h].outstanding, Accept(h, i, Invitee[i]),
           guest[Invitee[i]].started,
           responses' \subseteq responses, UNCHANGED <<guest, rankChanges>>
    PROVE  SettleInv'
<1> DEFINE g == Invitee[i]
<1>1. /\ i \in Invite /\ Inviter[i] = h /\ host[h] \in Hosts
      /\ g \in Guest /\ g # Nil /\ out' = out
  <2>1. host[h] \in Hosts
    BY DEF TypeInv, TypeOK
  <2>2. i \in Invite
    BY <2>1 DEF Hosts
  <2>3. Inviter[i] = h
    BY <2>2 DEF TypeInv, OutstandingInv
  <2> QED
    BY <2>1, <2>2, <2>3, JoiningAssumption DEF Accept
<1>2. /\ StepOf(h) /\ SameRanks(h) /\ SameSync(h)
      /\ host'[h].peerId = [host[h].peerId EXCEPT ![i] = g]
      /\ host'[h].peers = host[h].peers
      /\ host'[h].addPeer = Append(host[h].addPeer, i)
      /\ host'[h].handler = [pc |-> "confirm", invite |-> i, roster |-> {}]
  BY <1>1, AcceptEffect
<1>3. \A j \in Invite : Accepted(j)' => Accepted(j) \/ j = i
  <2>1. \A j \in Invite \ {i} : host'[h].peerId[j] = host[h].peerId[j]
    BY <1>1, <1>2 DEF Hosts
  <2> QED
    BY <1>2, <2>1, JoiningAssumption DEF Accepted, StepOf
<1>4. JoinInv'
  BY <1>3 DEF SettleInv, JoinInv
<1>5. ASSUME rankChanges = 0 PROVE NoChangeInv'
  BY <1>2, <1>5 DEF SettleInv, NoChangeInv, StepOf, SameRanks
<1>6. ASSUME rankChanges = 0 PROVE TrueInv'
  <2>1. PeersStay(h)
    BY <1>2 DEF PeersStay
  <2>2. HeldTrue(h)'
    BY <1>2, <1>6 DEF SettleInv, TrueInv, HeldTrue, SameSync, Up, TrueOf
  <2> QED
    BY <1>1, <1>2, <1>6, <2>1, <2>2, SameOut, TrueHostStep DEF SettleInv
<1>7. \A x : Pending(h, x)'
  BY <1>2 DEF Pending
<1>8. Awaited(i)'
  BY <1>1, <1>2 DEF Awaited, Confirming
<1>9. ASSUME rankChanges = 0, NEW j \in Invite PROVE Due(j)'
  <2>1. j # i => Due(j) /\ (Accepted(j)' => Accepted(j))
    BY <1>3, <1>9 DEF SettleInv, DueInv
  <2>2. CASE j = i
    BY <1>1, <1>7, <1>8, <2>2 DEF Due, RankDue
  <2>3. CASE j # i /\ Inviter[j] = h
    <3>1. Awaited(j) => Awaited(j)'
      BY <1>1, <2>3 DEF Awaited, Confirming, Ready, Idle
    <3> QED
      BY <1>7, <2>1, <2>3, <3>1 DEF Due, RankDue, Up
  <2>4. CASE j # i /\ Inviter[j] # h
    <3>1. Inviter[j] \in Host /\ host'[Inviter[j]] = host[Inviter[j]]
      BY <1>2, <2>4, JoiningAssumption DEF StepOf
    <3>2. Awaited(j)' <=> Awaited(j)
      BY <1>1, <3>1 DEF Awaited, Confirming
    <3>3. Pending(Inviter[j], Invitee[j])' <=> Pending(Inviter[j], Invitee[j])
      BY <3>1 DEF Pending
    <3>4. /\ Sent(Inviter[j], Invitee[j])' <=> Sent(Inviter[j], Invitee[j])
          /\ SentAfter(Inviter[j], Invitee[j])' <=>
               SentAfter(Inviter[j], Invitee[j])
      BY <1>1, <3>1 DEF Sent, SentAfter
    <3> QED
      BY <2>1, <2>4, <3>1, <3>2, <3>3, <3>4 DEF Due, RankDue, Up
  <2> QED
    BY <2>2, <2>3, <2>4
<1> QED
  BY <1>4, <1>5, <1>6, <1>9 DEF SettleInv, DueInv

LEMMA HandleResponseSettle ==
    ASSUME TypeInv, RosterInv, SettleInv, OneHostEach, RandomsDiffer,
           NEW h \in Host, NEW r, HandleResponse(h, r)
    PROVE  SettleInv'
<1> DEFINE g   == Invitee[r.dialled]
           ois == {i \in host[h].outstanding : Random[i] = Random[r.invite]}
<1>1. /\ r \in responses /\ Inviter[r.dialled] = h /\ Ready(h)
      /\ responses' \subseteq responses /\ guest' = guest
      /\ rankChanges' = rankChanges
  BY DEF HandleResponse
<1>2. CASE UNCHANGED <<host, conn, out>>
  BY <1>1, <1>2, SameOut, WireSettleStep
<1>3. ASSUME NEW oi \in ois, Refuse(h, oi, Nil), UNCHANGED out
      PROVE  SettleInv'
  BY <1>1, <1>3, SameOut, RefuseSettle
<1>4. ASSUME NEW oi \in ois, PeerIdCollision(h, oi, g)
      PROVE  SettleInv'
  <2>1. oi \in Invite
    BY DEF TypeInv, TypeOK, Hosts
  <2>2. \A i, x : TrueOf(JoinRefused.Roster, i, x)
    BY DEF JoinRefused, TrueOf
  <2>3. OutKept /\ NewTrue
    BY <1>4, <2>1, <2>2, SendKept DEF PeerIdCollision
  <2> QED
    BY <1>1, <1>4, <2>3, RefuseSettle DEF PeerIdCollision
<1>5. ASSUME NEW oi \in ois, PeerAccepted(h, oi, g)
      PROVE  SettleInv'
  <2>1. Invitee[oi] = g
    BY <1>1, ResponseFinds
  <2>2. guest[g].started
    BY <1>1 DEF SettleInv, JoinInv
  <2> QED
    BY <1>1, <1>5, <2>1, <2>2, AcceptSettle DEF PeerAccepted
<1> QED
  BY <1>2, <1>3, <1>4, <1>5 DEF HandleResponse


\* The roster that is read is true, and has every peer.
LEMMA ReadTrue ==
    ASSUME TypeInv, SettleInv, rankChanges = 0, NEW h \in Host,
           NEW g \in Guest
    PROVE  /\ TrueOf(GetRoster(h), host[h].peers[g], g)
           /\ host[h].peers[g] # Nil => Has(GetRoster(h), g)
<1>1. host[h].peerRank = RankOffered
  BY DEF SettleInv, NoChangeInv
<1>2. ASSUME NEW e \in GetRoster(h)
      PROVE  /\ e.id \in Guest /\ host[h].peers[e.id] # Nil
             /\ e.rank = RankOffered[host[h].peers[e.id]]
  BY <1>1 DEF GetRoster, GetPeer
<1>3. ASSUME host[h].peers[g] # Nil
      PROVE  \E e \in GetRoster(h) : e.id = g
  <2> DEFINE e == [id |-> g, rank |-> host[h].peerRank[host[h].peers[g]]]
  <2>1. e \in GetRoster(h)
    BY <1>3 DEF GetRoster, GetPeer
  <2>2. e.id = g
    OBVIOUS
  <2> QED
    BY <2>1, <2>2
<1> QED
  BY <1>2, <1>3 DEF TrueOf, Has

\* So it has who is in the roster, once nobody is to be added.
LEMMA ReadHas ==
    ASSUME TypeInv, SettleInv, rankChanges = 0, NEW h \in Host,
           NEW g \in Guest, InRoster(h, g)
    PROVE  host[h].addPeer # <<>> \/ Has(GetRoster(h), g)
BY ReadTrue DEF InRoster

LEMMA ReadRosterSettle ==
    ASSUME TypeInv, RosterInv, SettleInv, NEW h \in Host, ReadRoster(h)
    PROVE  SettleInv'
<1>1. PICK pc \in {"sendConfirm", "sendBroadcast"} :
        /\ host' = [host EXCEPT ![h].handler.pc = pc,
                                ![h].handler.roster = GetRoster(h)]
        /\ host[h].handler.pc =
             IF pc = "sendConfirm" THEN "confirm" ELSE "broadcast"
  BY DEF ReadRoster
<1>2. /\ StepOf(h) /\ SameIds(h) /\ SamePeers(h) /\ SameRanks(h)
      /\ SameSync(h) /\ host'[h].handler.pc = pc
      /\ host'[h].handler.invite = host[h].handler.invite
      /\ host'[h].handler.roster = GetRoster(h)
  BY <1>1, ReadEffect
<1>3. UNCHANGED <<guest, conn, out, responses, rankChanges>>
  BY DEF ReadRoster
<1>4. rankChanges = 0 => HeldTrue(h)'
  BY <1>2, <1>3, ReadTrue
     DEF SettleInv, TrueInv, HeldTrue, Up, SamePeers, SameSync
<1>5. AwaitedStays(h)
  BY <1>1, <1>2, <1>3 DEF AwaitedStays, Awaited, Confirming
<1>6. rankChanges = 0 => PendingStays(h)
  <2> SUFFICES ASSUME rankChanges = 0, NEW g \in Guest, InRoster(h, g)
               PROVE  Pending(h, g)'
    BY DEF PendingStays
  <2>1. host[h].addPeer # <<>> \/ Has(GetRoster(h), g)
    BY ReadHas
  <2> QED
    BY <1>1, <1>2, <2>1 DEF Pending, SamePeers
<1> QED
  BY <1>2, <1>3, <1>4, <1>5, <1>6, SamePeersStay, SameOut, SameNoChange,
     HostSettleStep DEF SameIds

LEMMA SyncReadsSettle ==
    ASSUME TypeInv, RosterInv, SettleInv, NEW h \in Host, SyncReads(h)
    PROVE  SettleInv'
<1>1. /\ StepOf(h) /\ SameIds(h) /\ SamePeers(h) /\ SameRanks(h)
      /\ SameHandler(h)
      /\ host'[h].sending = host[h].sending \cup {GetRoster(h)}
  BY SyncReadsEffect
<1>2. UNCHANGED <<guest, conn, out, responses, rankChanges>>
  BY DEF SyncReads
<1>3. rankChanges = 0 => HeldTrue(h)'
  BY <1>1, <1>2, ReadTrue
     DEF SettleInv, TrueInv, HeldTrue, Up, SamePeers, SameHandler
<1>4. rankChanges = 0 => PendingStays(h)
  <2> SUFFICES ASSUME rankChanges = 0, NEW g \in Guest, InRoster(h, g)
               PROVE  Pending(h, g)'
    BY DEF PendingStays
  <2>1. host[h].addPeer # <<>> \/ Has(GetRoster(h), g)
    BY ReadHas
  <2> QED
    BY <1>1, <2>1 DEF Pending, SamePeers
<1> QED
  BY <1>1, <1>2, <1>3, <1>4, SamePeersStay, SameOut, SameNoChange,
     HandlerAwaitedStays, HostSettleStep DEF SameIds

\* The confirmation goes to a guest that is there, and a roster will follow.
LEMMA SendConfirmationSettle ==
    ASSUME TypeInv, RosterInv, SettleInv, NEW h \in Host, SendConfirmation(h)
    PROVE  SettleInv'
<1> DEFINE m == [type |-> "JoinConfirmation", Success |-> TRUE,
                 Roster |-> host[h].handler.roster]
           next == [Idle EXCEPT !.pc = "broadcast"]
           i == host[h].handler.invite
<1>1. /\ Send(i, m) /\ host' = [host EXCEPT ![h].handler = next]
      /\ UNCHANGED <<guest, conn, responses, rankChanges>>
  BY DEF SendConfirmation, Confirm
<1>2. Confirming(h)
  BY DEF SendConfirmation, Confirm, Confirming
<1>3. i \in Invite /\ host[h].peerId[i] # Nil
  BY <1>2 DEF TypeInv, TypeOK, HandlerInv, Hosts, Handlers, RosterInv,
              ConfirmInv
<1>4. Accepted(i) /\ Inviter[i] = h /\ Invitee[i] \in Guest
  BY <1>3, JoiningAssumption DEF RosterInv, PeerIdInv, Accepted
<1>5. next \in Handlers /\ next.pc = "broadcast" /\ next.roster = {}
  BY DEF Idle, Handlers, Rosters
<1>6. /\ StepOf(h) /\ SameIds(h) /\ SamePeers(h) /\ SameRanks(h)
      /\ SameSync(h) /\ host'[h].handler = next
  BY <1>1, <1>5, HandlerEffect
<1>7. ASSUME rankChanges = 0 PROVE OutKept /\ NewTrue
  <2>1. Up(Invitee[i]) => TrueOf(m.Roster, host'[h].peers[Invitee[i]],
                                 Invitee[i])
    BY <1>4, <1>6, <1>7 DEF SettleInv, TrueInv, HeldTrue, SamePeers
  <2> HIDE DEF m, i
  <2> QED
    BY <1>1, <1>3, <1>4, <2>1, SendKept
<1>8. ASSUME rankChanges = 0 PROVE HeldTrue(h)'
  BY <1>1, <1>5, <1>6, <1>8
     DEF SettleInv, TrueInv, HeldTrue, TrueOf, Up, SamePeers, SameSync
<1>9. PendingStays(h)
  BY <1>5, <1>6 DEF PendingStays, Pending
<1>10. ASSUME rankChanges = 0 PROVE AwaitedStays(h)
  <2> SUFFICES ASSUME NEW j \in Invite, Accepted(j), Up(Invitee[j]),
                      Inviter[j] = h, Awaited(j)
               PROVE  Awaited(j)'
    BY DEF AwaitedStays
  <2>1. CASE \E n \in DOMAIN out[j] : IsConfirmation(out[j][n])
    BY <1>7, <1>10, <2>1 DEF OutKept, Awaited
  <2>2. CASE j = i
    <3>1. conn[i] = "open"
      BY <2>2, AcceptedOpen
    <3>2. IsConfirmation(m)
      BY DEF IsConfirmation
    <3> HIDE DEF Messages, m, i
    <3>3. out'[i] = Append(out[i], m) /\ out[i] \in Seq(Messages)
      BY <1>1, <1>3, <3>1, WireFacts DEF Send
    <3>4. LET n == Len(out[i]) + 1
          IN  n \in DOMAIN out'[i] /\ out'[i][n] = m
      BY <3>3
    <3> QED
      BY <2>2, <3>2, <3>4 DEF Awaited
  <2> QED
    BY <2>1, <2>2 DEF Awaited
<1> HIDE DEF m, i, next
<1> QED
  BY <1>1, <1>6, <1>7, <1>8, <1>9, <1>10, SamePeersStay, SameNoChange,
     HostSettleStep DEF SameIds

\* A roster is broadcast: every peer that is there gets it.
LEMMA BroadcastSends ==
    ASSUME TypeInv, RosterInv, NEW h \in Host, NEW g \in Guest, Up(g),
           NEW m, BroadcastToPeers(h, m), IsRoster(m, g), SamePeers(h),
           host[h].peers[g] # Nil
    PROVE  /\ Sent(h, g)'
           /\ (\E n \in DOMAIN out[host[h].peers[g]] :
                 IsConfirmation(out[host[h].peers[g]][n])) => SentAfter(h, g)'
<1> DEFINE i == host[h].peers[g]
           k == Len(out[i]) + 1
<1>1. i \in Invite /\ Invitee[i] = g /\ Accepted(i)
  BY PeerWasAccepted
<1>2. conn[i] = "open"
  BY <1>1, AcceptedOpen
<1> HIDE DEF Messages
<1>3. out'[i] = Append(out[i], m) /\ out[i] \in Seq(Messages)
  BY <1>1, <1>2, WireFacts DEF BroadcastToPeers
<1>4. k \in DOMAIN out'[i] /\ out'[i][k] = m
  BY <1>3
<1>5. \A n \in DOMAIN out[i] :
        n < k /\ n \in DOMAIN out'[i] /\ out'[i][n] = out[i][n]
  BY <1>3
<1>6. host'[h].peers[g] = i
  BY DEF SamePeers
<1> HIDE DEF k
<1>7. Sent(h, g)'
  BY <1>4, <1>6 DEF Sent
<1>8. ASSUME NEW n \in DOMAIN out[i], IsConfirmation(out[i][n])
      PROVE  SentAfter(h, g)'
  BY <1>4, <1>5, <1>6, <1>8 DEF SentAfter
<1> QED
  BY <1>7, <1>8

\* A true roster is broadcast.
LEMMA BroadcastSettle ==
    ASSUME TypeInv, RosterInv, NEW h \in Host, NEW roster, SamePeers(h),
           BroadcastToPeers(h, [type |-> "RosterUpdate", Roster |-> roster]),
           \A g \in Guest : Up(g) => TrueOf(roster, host[h].peers[g], g)
    PROVE  /\ OutKept /\ NewTrue
           /\ \A g \in Guest : Up(g) /\ Has(roster, g) =>
                /\ host[h].peers[g] # Nil /\ Sent(h, g)'
                /\ \/ ~Awaited(host[h].peers[g])
                   \/ Confirming(h)
                   \/ SentAfter(h, g)'
<1> DEFINE m == [type |-> "RosterUpdate", Roster |-> roster]
<1>1. \A i \in Invite, g \in Guest : host[h].peers[g] = i =>
        Inviter[i] = h /\ Invitee[i] = g
  BY PeerWasAccepted, JoiningAssumption
<1>2. m.Roster = roster /\ \A g : Has(roster, g) => IsRoster(m, g)
  BY DEF IsRoster
<1> HIDE DEF m
<1>3. BroadcastToPeers(h, m)
  BY DEF m
<1>4. OutKept /\ NewTrue
  BY <1>1, <1>2, <1>3, BroadcastKept
<1>5. ASSUME NEW g \in Guest, Up(g), Has(roster, g)
      PROVE  /\ host[h].peers[g] # Nil /\ Sent(h, g)'
             /\ \/ ~Awaited(host[h].peers[g])
                \/ Confirming(h)
                \/ SentAfter(h, g)'
  <2>1. host[h].peers[g] # Nil
    BY <1>5 DEF TrueOf, Has
  <2>2. Inviter[host[h].peers[g]] = h
    BY <2>1, PeerWasAccepted
  <2> QED
    BY <1>2, <1>3, <1>5, <2>1, <2>2, BroadcastSends DEF Awaited
<1> QED
  BY <1>4, <1>5

LEMMA SendBroadcastSettle ==
    ASSUME TypeInv, RosterInv, SettleInv, NEW h \in Host, SendBroadcast(h)
    PROVE  SettleInv'
<1> DEFINE roster == host[h].handler.roster
<1>1. Idle \in Handlers /\ Idle.pc = "idle" /\ Idle.roster = {}
  BY DEF Idle, Handlers, Rosters
<1>2. /\ BroadcastToPeers(h, [type |-> "RosterUpdate", Roster |-> roster])
      /\ host' = [host EXCEPT ![h].handler = Idle]
      /\ UNCHANGED <<guest, conn, responses, rankChanges>>
      /\ host[h].handler.pc = "sendBroadcast"
  BY DEF SendBroadcast
<1>3. /\ StepOf(h) /\ SameIds(h) /\ SamePeers(h) /\ SameRanks(h)
      /\ SameSync(h) /\ host'[h].handler = Idle
  BY <1>1, <1>2, HandlerEffect
<1>4. ~Confirming(h) /\ ~Confirming(h)'
  BY <1>1, <1>2, <1>3 DEF Confirming
<1> SUFFICES ASSUME rankChanges = 0
             PROVE  /\ NewTrue /\ OutKept /\ HeldTrue(h)'
                    /\ AwaitedStays(h) /\ PendingStays(h)
  BY <1>2, <1>3, SamePeersStay, SameNoChange, HostSettleStep DEF SameIds
<1>5. \A g \in Guest : Up(g) => TrueOf(roster, host[h].peers[g], g)
  BY DEF SettleInv, TrueInv, HeldTrue
<1> HIDE DEF roster
<1>6. OutKept /\ NewTrue
  BY <1>2, <1>3, <1>5, BroadcastSettle
<1>7. \A g \in Guest : Up(g) /\ Has(roster, g) =>
        /\ host[h].peers[g] # Nil /\ Sent(h, g)'
        /\ Awaited(host[h].peers[g]) => SentAfter(h, g)'
  BY <1>2, <1>3, <1>4, <1>5, BroadcastSettle
<1>8. HeldTrue(h)'
  BY <1>1, <1>2, <1>3
     DEF SettleInv, TrueInv, HeldTrue, TrueOf, Up, SamePeers, SameSync
<1>9. AwaitedStays(h)
  BY <1>4, <1>6 DEF AwaitedStays, Awaited, OutKept
<1>10. PendingStays(h)
  BY <1>2, <1>3, <1>7 DEF PendingStays, Pending, SamePeers, SameSync, roster
<1> QED
  BY <1>6, <1>8, <1>9, <1>10

LEMMA SyncSendsSettle ==
    ASSUME TypeInv, RosterInv, SettleInv, NEW h \in Host, SyncSends(h)
    PROVE  SettleInv'
<1>1. PICK roster \in host[h].sending :
        /\ BroadcastToPeers(h, [type |-> "RosterUpdate", Roster |-> roster])
        /\ host' = [host EXCEPT ![h].sending = @ \ {roster}]
        /\ UNCHANGED <<guest, conn, responses, rankChanges>>
  BY DEF SyncSends
<1>2. /\ StepOf(h) /\ SameIds(h) /\ SamePeers(h) /\ SameRanks(h)
      /\ SameHandler(h) /\ host'[h].sending = host[h].sending \ {roster}
      /\ host'[h].syncRoster = host[h].syncRoster
  BY <1>1, SyncSendsEffect
<1> SUFFICES ASSUME rankChanges = 0
             PROVE  /\ NewTrue /\ OutKept /\ HeldTrue(h)' /\ PendingStays(h)
  BY <1>1, <1>2, SamePeersStay, SameNoChange, HandlerAwaitedStays,
     HostSettleStep DEF SameIds
<1>3. \A g \in Guest : Up(g) => TrueOf(roster, host[h].peers[g], g)
  BY DEF SettleInv, TrueInv, HeldTrue
<1>4. OutKept /\ NewTrue
  BY <1>1, <1>2, <1>3, BroadcastSettle
<1>5. \A g \in Guest : Up(g) /\ Has(roster, g) =>
        /\ host[h].peers[g] # Nil /\ Sent(h, g)'
        /\ \/ ~Awaited(host[h].peers[g])
           \/ Confirming(h)
           \/ SentAfter(h, g)'
  BY <1>1, <1>2, <1>3, BroadcastSettle
<1>6. HeldTrue(h)'
  BY <1>1, <1>2
     DEF SettleInv, TrueInv, HeldTrue, Up, SamePeers, SameHandler
<1>7. PendingStays(h)
  <2> SUFFICES ASSUME NEW g \in Guest, Up(g), Pending(h, g), ~Pending(h, g)'
               PROVE  /\ host[h].peers[g] # Nil /\ Sent(h, g)'
                      /\ Awaited(host[h].peers[g]) => SentAfter(h, g)'
    BY DEF PendingStays
  <2>1. Has(roster, g)
    BY <1>2 DEF Pending, SamePeers, SameHandler
  <2>2. ~Confirming(h)
    BY <1>2 DEF Pending, Confirming, SameHandler
  <2> QED
    BY <1>5, <2>1, <2>2
<1> QED
  BY <1>4, <1>6, <1>7


-----------------------------------------------------------------------------
\* The rosters that guest g has got, and the rank it has, after a step.
TakenTrueOf(g) ==
    \A i \in Invite : Invitee[i] = g => TakenTrue(i)

DueOf(g) ==
    \A i \in Invite : Invitee[i] = g => Due(i)

JoinedOf(g) ==
    IF guest[g].Rank = Unknown
    THEN guest[g].updateRoster = <<>> /\ guest[g].confirmedBy = Nil
    ELSE guest[g].leader # Nil /\ guest[g].confirmedBy # Nil

\* A step of g takes messages from its own connections only, and adds none.
TakesOwn(g) ==
    /\ \A i \in Invite : Invitee[i] # g => out'[i] = out[i]
    /\ \A i \in Invite : \A n \in DOMAIN out'[i] :
         \E m \in DOMAIN out[i] : out'[i][n] = out[i][m]

LEMMA SameTakes ==
    ASSUME NEW g, out' = out
    PROVE  TakesOwn(g)
BY DEF TakesOwn

\* What is due to a guest stays so when others take their messages.
LEMMA OthersDue ==
    ASSUME TypeInv, RosterInv, NEW g \in Guest, GuestStepOf(g), host' = host,
           TakesOwn(g), NEW i \in Invite, Invitee[i] # g, Due(i)
    PROVE  Due(i)'
<1> DEFINE h == Inviter[i]
           x == Invitee[i]
<1>1. h \in Host /\ x \in Guest /\ guest'[x] = guest[x] /\ out'[i] = out[i]
  BY JoiningAssumption DEF GuestStepOf, TakesOwn
<1>2. host[h].peers[x] # Nil => out'[host[h].peers[x]] = out[host[h].peers[x]]
  BY <1>1, PeerWasAccepted DEF TakesOwn
<1>3. Awaited(i)' <=> Awaited(i)
  BY <1>1 DEF Awaited, Confirming
<1>4. Pending(h, x)' <=> Pending(h, x)
  BY DEF Pending
<1>5. Sent(h, x)' <=> Sent(h, x)
  BY <1>2 DEF Sent
<1>6. SentAfter(h, x)' <=> SentAfter(h, x)
  BY <1>2 DEF SentAfter
<1>7. RankDue(h, x)' <=> RankDue(h, x)
  BY <1>1, <1>4, <1>5 DEF RankDue
<1> QED
  BY <1>1, <1>3, <1>4, <1>6, <1>7 DEF Due, Up, Accepted

\* What is left to show of a step of a guest.
LEMMA GuestSettleStep ==
    ASSUME TypeInv, RosterInv, SettleInv, NEW g \in Guest, GuestStepOf(g),
           host' = host, rankChanges' = rankChanges, TakesOwn(g),
           guest[g].started => guest'[g].started,
           guest'[g].status = "up" => Up(g),
           \A r \in responses' : \/ r \in responses
                                 \/ guest'[Invitee[r.dialled]].started,
           JoinedOf(g)',
           rankChanges = 0 /\ Up(g)' => TakenTrueOf(g)' /\ DueOf(g)'
    PROVE  SettleInv'
<1>1. \A x \in Guest : /\ Up(x)' => Up(x)
                       /\ guest[x].started => guest'[x].started
  BY DEF Up, GuestStepOf
<1>2. \A i \in Invite : /\ Inviter[i] \in Host /\ Invitee[i] \in Guest
                        /\ Accepted(i)' <=> Accepted(i)
  BY JoiningAssumption DEF Accepted
<1>3. \A r \in responses : Invitee[r.dialled] \in Guest
  BY WireFacts, JoiningAssumption DEF Responses
<1>4. JoinInv'
  <2>1. \A x \in Guest : JoinedOf(x)'
    BY DEF SettleInv, JoinInv, JoinedOf, GuestStepOf
  <2>2. \A i \in Invite : Accepted(i)' => guest'[Invitee[i]].started
    BY <1>1, <1>2 DEF SettleInv, JoinInv
  <2>3. \A r \in responses' : guest'[Invitee[r.dialled]].started
    BY <1>1, <1>3 DEF SettleInv, JoinInv
  <2> QED
    BY <2>1, <2>2, <2>3 DEF JoinInv, JoinedOf
<1> SUFFICES ASSUME rankChanges = 0 PROVE NoChangeInv' /\ TrueInv' /\ DueInv'
  BY <1>4 DEF SettleInv
<1>5. NoChangeInv'
  BY DEF SettleInv, NoChangeInv
<1>6. \A h \in Host : HeldTrue(h)'
  BY <1>1 DEF SettleInv, TrueInv, HeldTrue
<1>7. ASSUME NEW i \in Invite PROVE OutTrue(i)'
  <2> SUFFICES ASSUME Up(Invitee[i])', NEW n \in DOMAIN out'[i],
                      HasRoster(out'[i][n])
               PROVE  TrueOf(out'[i][n].Roster,
                             host[Inviter[i]].peers[Invitee[i]], Invitee[i])
    BY DEF OutTrue
  <2>1. PICK m \in DOMAIN out[i] : out'[i][n] = out[i][m]
    BY DEF TakesOwn
  <2> QED
    BY <1>1, <1>2, <2>1 DEF SettleInv, TrueInv, OutTrue
<1>8. ASSUME NEW i \in Invite PROVE TakenTrue(i)'
  <2>1. CASE Invitee[i] = g
    BY <2>1 DEF TakenTrueOf, TakenTrue
  <2>2. CASE Invitee[i] # g
    <3>1. guest'[Invitee[i]] = guest[Invitee[i]]
      BY <1>2, <2>2 DEF GuestStepOf
    <3> QED
      BY <3>1 DEF SettleInv, TrueInv, TakenTrue, Up
  <2> QED
    BY <2>1, <2>2
<1>9. ASSUME NEW i \in Invite PROVE Due(i)'
  <2>1. CASE Invitee[i] = g
    BY <2>1 DEF DueOf, Due
  <2>2. CASE Invitee[i] # g
    BY <2>2, OthersDue DEF SettleInv, DueInv
  <2> QED
    BY <2>1, <2>2
<1> QED
  BY <1>5, <1>6, <1>7, <1>8, <1>9 DEF TrueInv, DueInv

\* A step that changes nothing of this.
LEMMA QuietGuestSettle ==
    ASSUME TypeInv, RosterInv, SettleInv, NEW g \in Guest, GuestStepOf(g),
           UNCHANGED <<host, out, rankChanges>>, SameRank(g),
           guest[g].leader # Nil => guest'[g].leader # Nil,
           guest[g].started => guest'[g].started,
           guest'[g].status = "up" => Up(g),
           \A r \in responses' : \/ r \in responses
                                 \/ guest'[Invitee[r.dialled]].started
    PROVE  SettleInv'
<1>1. JoinedOf(g)'
  BY DEF SettleInv, JoinInv, JoinedOf, SameRank
<1>2. ASSUME rankChanges = 0, Up(g)' PROVE TakenTrueOf(g)'
  BY <1>2 DEF TakenTrueOf, SettleInv, TrueInv, TakenTrue, Up, SameRank
<1>3. ASSUME rankChanges = 0, Up(g)', NEW i \in Invite, Invitee[i] = g
      PROVE  Due(i)'
  <2> DEFINE h == Inviter[i]
  <2>1. Due(i) /\ Up(g)
    BY <1>3 DEF SettleInv, DueInv, Up
  <2>2. /\ Awaited(i)' <=> Awaited(i)
        /\ Pending(h, g)' <=> Pending(h, g)
        /\ Sent(h, g)' <=> Sent(h, g)
        /\ SentAfter(h, g)' <=> SentAfter(h, g)
    BY DEF Awaited, Confirming, Pending, Sent, SentAfter
  <2>3. RankDue(h, g)' <=> RankDue(h, g)
    BY <2>2 DEF RankDue, SameRank
  <2> QED
    BY <1>3, <2>1, <2>2, <2>3 DEF Due, Accepted, SameRank
<1> QED
  BY <1>1, <1>2, <1>3, SameTakes, GuestSettleStep DEF DueOf

LEMMA GuestInitSettle ==
    ASSUME TypeInv, RosterInv, SettleInv, NEW g \in Guest, GuestInit(g)
    PROVE  SettleInv'
BY GuestInitEffect, QuietGuestSettle DEF GuestInit, SameLeader, Up

LEMMA BrowserAnswersSettle ==
    ASSUME TypeInv, RosterInv, SettleInv, NEW g \in Guest,
           NEW a \in BOOLEAN, BrowserAnswers(g, a)
    PROVE  SettleInv'
BY AnswerEffect, QuietGuestSettle
   DEF BrowserAnswers, SameLeader, SameStatus, Up

LEMMA ExitSettle ==
    ASSUME TypeInv, RosterInv, SettleInv, NEW g \in Guest, Exit(g)
    PROVE  SettleInv'
BY DownEffect, QuietGuestSettle DEF Exit, SameLeader, Up

LEMMA DoSetLeaderSettle ==
    ASSUME TypeInv, RosterInv, SettleInv, NEW g \in Guest, DoSetLeader(g)
    PROVE  SettleInv'
<1>1. responses' \subseteq responses
  BY DEF DoSetLeader
<1> QED
  BY <1>1, SetLeaderEffect, QuietGuestSettle DEF DoSetLeader, SameStatus, Up

LEMMA GuestRespondsSettle ==
    ASSUME TypeInv, RosterInv, SettleInv, NEW g \in Guest, GuestResponds(g)
    PROVE  SettleInv'
<1> DEFINE i == guest[g].invitation
<1>1. guest[g].fromBrowser # <<>> /\ UNCHANGED <<host, conn, out, rankChanges>>
  BY DEF GuestResponds
<1>2. guest[g].invitationReceived => i \in Invite /\ Invitee[i] = g
  BY OwnFacts DEF TypeInv, TypeOK, ReceivedInv, Guests
<1>3. /\ GuestStepOf(g) /\ SameStatus(g) /\ SameRank(g)
      /\ guest'[g].leader = guest[g].leader
  <2>1. CASE guest' = [guest EXCEPT ![g].fromBrowser = Tail(@)]
    BY <1>1, <2>1, RespondEffect DEF SameLeader
  <2>2. CASE guest' = [guest EXCEPT ![g].fromBrowser = Tail(@),
                                    ![g].invitationReceived = FALSE]
    BY <1>1, <2>2, RefuseInviteEffect DEF SameLeader
  <2>3. CASE guest' = [guest EXCEPT ![g].fromBrowser = Tail(@),
                                    ![g].setLeader = i]
    BY <1>1, <2>3, AcceptInviteEffect
  <2> QED
    BY <2>1, <2>2, <2>3 DEF GuestResponds
<1>4. ASSUME NEW r \in responses', r \notin responses
      PROVE  guest'[Invitee[r.dialled]].started
  <2>1. r.dialled = i /\ guest[g].started /\ guest[g].invitationReceived
    BY <1>4 DEF GuestResponds, Waiting
  <2> QED
    BY <1>2, <1>3, <2>1 DEF SameStatus
<1> QED
  BY <1>1, <1>3, <1>4, QuietGuestSettle DEF SameStatus, Up


MovesUp(i, n) == n - 1 \in DOMAIN out'[i] /\ out'[i][n - 1] = out[i][n]

\* The head of the messages on a connection is taken: the others move up.
LEMMA TakeMoves ==
    ASSUME TypeInv, NEW i \in Invite, out[i] # <<>>,
           out' = [out EXCEPT ![i] = Tail(@)]
    PROVE  /\ \A j \in Invite : j # i => out'[j] = out[j]
           /\ 1 \in DOMAIN out[i] /\ out[i][1] = Head(out[i])
           /\ \A n \in DOMAIN out[i] :
                n \in Nat /\ n >= 1 /\ (n # 1 => MovesUp(i, n))
           /\ \A n \in DOMAIN out'[i] :
                n + 1 \in DOMAIN out[i] /\ out'[i][n] = out[i][n + 1]
<1> HIDE DEF Messages
<1>1. out \in [Invite -> Seq(Messages)]
  BY DEF TypeInv, TypeOK
<1>2. out[i] \in Seq(Messages) /\ out'[i] = Tail(out[i])
  BY <1>1
<1>3. /\ DOMAIN out[i] = 1..Len(out[i]) /\ Len(out[i]) \in Nat
      /\ Len(out[i]) # 0 /\ Head(out[i]) = out[i][1]
  BY <1>2
<1>4. \A n \in DOMAIN out[i] : n # 1 =>
        n - 1 \in DOMAIN Tail(out[i]) /\ Tail(out[i])[n - 1] = out[i][n]
  BY <1>2, <1>3
<1>5. \A n \in DOMAIN Tail(out[i]) :
        n + 1 \in DOMAIN out[i] /\ Tail(out[i])[n] = out[i][n + 1]
  BY <1>2
<1> QED
  BY <1>1, <1>2, <1>3, <1>4, <1>5 DEF MovesUp

LEMMA TakeOwn ==
    ASSUME TypeInv, NEW i \in Invite, out[i] # <<>>,
           out' = [out EXCEPT ![i] = Tail(@)]
    PROVE  TakesOwn(Invitee[i])
<1>1. /\ \A j \in Invite : j # i => out'[j] = out[j]
      /\ \A n \in DOMAIN out'[i] :
           n + 1 \in DOMAIN out[i] /\ out'[i][n] = out[i][n + 1]
  BY TakeMoves
<1>2. \A n \in DOMAIN out'[i] : \E m \in DOMAIN out[i] :
        out'[i][n] = out[i][m]
  BY <1>1
<1> QED
  BY <1>1, <1>2 DEF TakesOwn

\* What this leaves of the confirmations and rosters that were sent.
LEMMA TakeKeeps ==
    ASSUME TypeInv, NEW i \in Invite, out[i] # <<>>, host' = host,
           out' = [out EXCEPT ![i] = Tail(@)], NEW h \in Host,
           NEW g \in Guest
    PROVE  /\ ~IsConfirmation(Head(out[i])) =>
                /\ \A j \in Invite : Awaited(j) => Awaited(j)'
                /\ SentAfter(h, g) => SentAfter(h, g)'
           /\ SentAfter(h, g) => Sent(h, g)'
           /\ Sent(h, g) => Sent(h, g)' \/ IsRoster(Head(out[i]), g)
<1> DEFINE p == host[h].peers[g]
<1>1. p # Nil => p \in Invite
  BY DEF TypeInv, TypeOK, Hosts
<1>2. ASSUME ~IsConfirmation(Head(out[i])), NEW j \in Invite, Awaited(j)
      PROVE  Awaited(j)'
  <2>1. CASE Confirming(Inviter[j]) /\ host[Inviter[j]].handler.invite = j
    BY <2>1 DEF Awaited, Confirming
  <2>2. ASSUME NEW n \in DOMAIN out[j], IsConfirmation(out[j][n])
        PROVE  \E k \in DOMAIN out'[j] : IsConfirmation(out'[j][k])
    <3>1. CASE j # i
      BY <2>2, <3>1, TakeMoves
    <3>2. CASE j = i
      <4>1. n # 1
        BY <1>2, <2>2, <3>2, TakeMoves
      <4> QED
        BY <2>2, <3>2, <4>1, TakeMoves DEF MovesUp
    <3> QED
      BY <3>1, <3>2
  <2> QED
    BY <1>2, <2>1, <2>2 DEF Awaited
<1>3. ASSUME ~IsConfirmation(Head(out[i])), SentAfter(h, g)
      PROVE  SentAfter(h, g)'
  <2>1. PICK n, m \in DOMAIN out[p] :
          n < m /\ IsConfirmation(out[p][n]) /\ IsRoster(out[p][m], g)
    BY <1>3 DEF SentAfter
  <2>2. CASE p # i
    BY <1>1, <1>3, <2>1, <2>2, TakeMoves DEF SentAfter
  <2>3. CASE p = i
    <3>1. n # 1 /\ n >= 1 /\ n \in Nat /\ m \in Nat
      BY <1>3, <2>1, <2>3, TakeMoves
    <3>2. m # 1
      BY <2>1, <3>1
    <3>3. n - 1 < m - 1
      BY <2>1, <3>1
    <3>4. /\ n - 1 \in DOMAIN out'[p] /\ out'[p][n - 1] = out[p][n]
          /\ m - 1 \in DOMAIN out'[p] /\ out'[p][m - 1] = out[p][m]
      BY <2>1, <2>3, <3>1, <3>2, TakeMoves DEF MovesUp
    <3> QED
      BY <1>3, <2>1, <3>3, <3>4 DEF SentAfter
  <2> QED
    BY <2>2, <2>3
<1>4. ASSUME NEW n \in DOMAIN out[p], IsRoster(out[p][n], g), p # Nil,
             p = i => n # 1
      PROVE  Sent(h, g)'
  <2>1. CASE p # i
    BY <1>1, <1>4, <2>1, TakeMoves DEF Sent
  <2>2. CASE p = i
    <3>1. n - 1 \in DOMAIN out'[p] /\ out'[p][n - 1] = out[p][n]
      BY <1>4, <2>2, TakeMoves DEF MovesUp
    <3> QED
      BY <1>4, <3>1 DEF Sent
  <2> QED
    BY <2>1, <2>2
<1>5. ASSUME SentAfter(h, g) PROVE Sent(h, g)'
  <2>1. PICK n, m \in DOMAIN out[p] :
          n < m /\ IsConfirmation(out[p][n]) /\ IsRoster(out[p][m], g)
    BY <1>5 DEF SentAfter
  <2>2. ASSUME p = i PROVE m # 1
    <3>1. n \in Nat /\ n >= 1
      BY <2>1, <2>2, TakeMoves
    <3> QED
      BY <2>1, <3>1
  <2> QED
    BY <1>4, <1>5, <2>1, <2>2 DEF SentAfter
<1>6. ASSUME Sent(h, g), ~IsRoster(Head(out[i]), g) PROVE Sent(h, g)'
  <2>1. PICK n \in DOMAIN out[p] : IsRoster(out[p][n], g)
    BY <1>6 DEF Sent
  <2>2. p = i => n # 1
    BY <1>6, <2>1, TakeMoves
  <2> QED
    BY <1>4, <1>6, <2>1, <2>2 DEF Sent
<1> QED
  BY <1>2, <1>3, <1>5, <1>6

\* A message is taken that is no confirmation, or no roster once the guest has
\* joined: what is due stays so.
LEMMA TakeDue ==
    ASSUME TypeInv, NEW i \in Invite, out[i] # <<>>, host' = host,
           out' = [out EXCEPT ![i] = Tail(@)], NEW j \in Invite, Due(j),
           LET g == Invitee[j]
           IN  /\ SameRank(g) /\ Up(g)
               /\ IF guest[g].Rank = Unknown
                  THEN ~IsConfirmation(Head(out[i]))
                  ELSE ~IsRoster(Head(out[i]), g)
    PROVE  Due(j)'
<1> DEFINE h == Inviter[j]
           g == Invitee[j]
<1>1. h \in Host /\ g \in Guest
  BY JoiningAssumption
<1>2. (Accepted(j)' <=> Accepted(j)) /\ (Pending(h, g)' <=> Pending(h, g))
  BY DEF Accepted, Pending
<1> SUFFICES ASSUME Accepted(j), ~guest[g].ignored
             PROVE  IF guest[g].Rank = Unknown
                    THEN /\ Awaited(j)'
                         /\ Pending(h, g)' \/ SentAfter(h, g)'
                    ELSE RankDue(h, g)'
  BY <1>2 DEF Due, SameRank
<1>3. CASE guest[g].Rank = Unknown
  <2>1. Awaited(j) /\ (Pending(h, g) \/ SentAfter(h, g))
    BY <1>3 DEF Due
  <2>2. Awaited(j)' /\ (SentAfter(h, g) => SentAfter(h, g)')
    BY <1>1, <1>3, <2>1, TakeKeeps
  <2> QED
    BY <1>2, <1>3, <2>1, <2>2
<1>4. CASE guest[g].Rank # Unknown
  <2>1. RankDue(h, g)
    BY <1>4 DEF Due
  <2>2. Sent(h, g) => Sent(h, g)'
    BY <1>1, <1>4, TakeKeeps
  <2>3. RankDue(h, g)'
    BY <1>2, <2>1, <2>2 DEF RankDue, SameRank
  <2> QED
    BY <1>4, <2>3
<1> QED
  BY <1>3, <1>4

\* Steps that take such a message and leave the rank alone.
LEMMA TakeSettle ==
    ASSUME TypeInv, RosterInv, SettleInv, NEW g \in Guest, NEW i \in Invite,
           Invitee[i] = g, out[i] # <<>>, GuestStepOf(g), SameRank(g),
           SameStatus(g), SameLeader(g), Up(g),
           out' = [out EXCEPT ![i] = Tail(@)],
           UNCHANGED <<host, responses, rankChanges>>,
           \/ ~guest[g].started
           \/ guest[g].Rank = Unknown /\ ~IsConfirmation(Head(out[i]))
           \/ guest[g].Rank # Unknown /\ ~IsRoster(Head(out[i]), g)
    PROVE  SettleInv'
<1>1. JoinedOf(g)'
  BY DEF SettleInv, JoinInv, JoinedOf, SameRank, SameLeader
<1>2. ASSUME rankChanges = 0 PROVE TakenTrueOf(g)'
  BY <1>2 DEF TakenTrueOf, SettleInv, TrueInv, TakenTrue, Up, SameRank
<1>3. ASSUME rankChanges = 0, NEW j \in Invite, Invitee[j] = g
      PROVE  Due(j)'
  <2>1. CASE ~guest[g].started
    <3>1. ~Accepted(j)
      BY <1>3, <2>1 DEF SettleInv, JoinInv
    <3> QED
      BY <3>1 DEF Due, Accepted
  <2>2. CASE guest[g].started
    BY <1>3, <2>2, TakeDue DEF SettleInv, DueInv
  <2> QED
    BY <2>1, <2>2
<1> QED
  BY <1>1, <1>2, <1>3, TakeOwn, GuestSettleStep DEF DueOf, SameStatus, Up

LEMMA ReceiveInvitationSettle ==
    ASSUME TypeInv, RosterInv, SettleInv, NEW g \in Guest, NEW i \in Invite,
           ReceiveInvitation(g, i)
    PROVE  SettleInv'
<1>1. ~IsConfirmation(Head(out[i]))
  BY DEF ReceiveInvitation, HeadIs, IsConfirmation
<1> QED
  BY <1>1, InvitationEffect, TakeSettle
     DEF ReceiveInvitation, HeadIs, Waiting

LEMMA DropMessageSettle ==
    ASSUME TypeInv, RosterInv, SettleInv, NEW g \in Guest, NEW i \in Invite,
           DropMessage(g, i)
    PROVE  SettleInv'
<1>1. /\ GuestStepOf(g) /\ SameRank(g) /\ SameStatus(g) /\ SameLeader(g)
  BY DEF DropMessage, TypeInv, TypeOK, GuestStepOf, SameRank, SameStatus,
         SameLeader
<1>2. \/ ~guest[g].started
      \/ guest[g].Rank = Unknown /\ ~IsConfirmation(Head(out[i]))
      \/ guest[g].Rank # Unknown /\ ~IsRoster(Head(out[i]), g)
  BY DEF DropMessage, IsConfirmation, IsRoster
<1> QED
  BY <1>1, <1>2, TakeSettle DEF DropMessage


\* A guest joins: a roster that will be sent, or was sent after the
\* confirmation, is still to come.
LEMMA JoinsSettle ==
    ASSUME TypeInv, RosterInv, SettleInv, OneHostEach, NEW g \in Guest,
           NEW i \in Invite, Invitee[i] = g, Waiting(g), Joins(g, i),
           guest[g].leader # Nil, out' = [out EXCEPT ![i] = Tail(@)],
           UNCHANGED <<host, conn, responses, rankChanges>>
    PROVE  SettleInv'
<1> DEFINE m == Head(out[i])
<1>1. out[i] # <<>> /\ m.type = "JoinConfirmation" /\ Inviter[i] # Nil
  BY JoiningAssumption DEF Joins, HeadIs
<1>2. /\ GuestStepOf(g) /\ SameStatus(g) /\ SameLeader(g)
      /\ guest'[g].Rank = RankOffered[guest[g].invitation]
      /\ guest'[g].updateRoster = Append(guest[g].updateRoster, m.Roster)
      /\ guest'[g].confirmedBy = Inviter[i]
      /\ guest'[g].ignored = guest[g].ignored
  BY JoinEffect
<1>3. guest'[g].Rank # Unknown
  <2>1. guest[g].invitation \in Invite
    BY DEF Joins, TypeInv, TypeOK, ReceivedInv, Guests
  <2> QED
    BY <1>2, <2>1, UnknownNoRank, JoiningAssumption
<1>4. JoinedOf(g)'
  BY <1>1, <1>2, <1>3 DEF JoinedOf, SameLeader
<1>5. guest[g].updateRoster = <<>> /\ guest[g].Rank = Unknown /\ Up(g)
  BY DEF SettleInv, JoinInv, Waiting
<1>6. \A n \in DOMAIN guest'[g].updateRoster :
        guest'[g].updateRoster[n] = m.Roster
  BY <1>2, <1>5
<1>7. ASSUME rankChanges = 0, NEW j \in Invite, Invitee[j] = g
      PROVE  TakenTrue(j)'
  <2>1. 1 \in DOMAIN out[i] /\ out[i][1] = m
    BY <1>1, TakeMoves
  <2>2. TrueOf(m.Roster, host[Inviter[i]].peers[g], g)
    BY <1>1, <1>5, <1>7, <2>1 DEF SettleInv, TrueInv, OutTrue, HasRoster
  <2>3. Inviter[j] = Inviter[i]
    BY <1>7 DEF OneHostEach
  <2> HIDE DEF m
  <2> QED
    BY <1>6, <1>7, <2>2, <2>3 DEF TakenTrue
<1>8. ASSUME rankChanges = 0, NEW j \in Invite, Invitee[j] = g
      PROVE  Due(j)'
  <2> DEFINE h == Inviter[j]
  <2>1. h \in Host
    BY JoiningAssumption
  <2>2. (Accepted(j)' <=> Accepted(j)) /\ (Pending(h, g)' <=> Pending(h, g))
    BY DEF Accepted, Pending
  <2>3. SentAfter(h, g) => Sent(h, g)'
    BY <1>1, <2>1, TakeKeeps
  <2>4. Due(j)
    BY <1>8 DEF SettleInv, DueInv
  <2> HIDE DEF m
  <2> QED
    BY <1>2, <1>3, <1>5, <1>8, <2>2, <2>3, <2>4 DEF Due, RankDue
<1>9. TakesOwn(g)
  BY <1>1, TakeOwn
<1> HIDE DEF m
<1> QED
  BY <1>2, <1>4, <1>5, <1>7, <1>8, <1>9, GuestSettleStep
     DEF TakenTrueOf, DueOf, SameStatus, Up

\* The leader of a guest is the host that invites it.
LEMMA LeaderInvites ==
    ASSUME TypeInv, RosterInv, OneHostEach, NEW g \in Guest,
           guest[g].leader # Nil, NEW i \in Invite, Invitee[i] = g
    PROVE  LeaderOf(g) = Inviter[i]
<1>1. guest[g].leader \in Invite
  BY DEF TypeInv, TypeOK, Guests
<1>2. Invitee[guest[g].leader] = g
  BY <1>1, OwnFacts
<1> QED
  BY <1>1, <1>2 DEF OneHostEach, LeaderOf

LEMMA ReceiveConfirmationSettle ==
    ASSUME TypeInv, RosterInv, SettleInv, OneHostEach, NEW g \in Guest,
           NEW i \in Invite, ReceiveConfirmation(g, i)
    PROVE  SettleInv'
<1>1. /\ UNCHANGED <<host, conn, responses, rankChanges>>
      /\ Invitee[i] = g /\ out[i] # <<>> /\ Waiting(g)
      /\ out' = [out EXCEPT ![i] = Tail(@)]
  BY DEF ReceiveConfirmation, HeadIs
<1>2. TakesOwn(g)
  BY <1>1, TakeOwn
<1>3. CASE guest' = [guest EXCEPT ![g].ignored = TRUE]
  <2>1. /\ GuestStepOf(g) /\ guest'[g].ignored = TRUE
        /\ guest'[g].Rank = guest[g].Rank
        /\ guest'[g].updateRoster = guest[g].updateRoster
        /\ guest'[g].confirmedBy = guest[g].confirmedBy
        /\ SameStatus(g) /\ SameLeader(g)
    BY <1>3, IgnoreEffect
  <2>2. JoinedOf(g)'
    BY <2>1 DEF SettleInv, JoinInv, JoinedOf, SameLeader
  <2>3. rankChanges = 0 => TakenTrueOf(g)'
    BY <1>1, <2>1
       DEF TakenTrueOf, SettleInv, TrueInv, TakenTrue, Up, SameStatus
  <2>4. DueOf(g)'
    BY <2>1 DEF DueOf, Due
  <2> QED
    BY <1>1, <1>2, <2>1, <2>2, <2>3, <2>4, GuestSettleStep
       DEF SameStatus, Up
<1>4. CASE guest' = [guest EXCEPT ![g].status = "down"]
  <2>1. /\ GuestStepOf(g) /\ guest'[g].status = "down" /\ SameRank(g)
        /\ SameLeader(g) /\ guest'[g].started = guest[g].started
    BY <1>4, DownEffect
  <2>2. JoinedOf(g)'
    BY <2>1 DEF SettleInv, JoinInv, JoinedOf, SameLeader, SameRank
  <2> QED
    BY <1>1, <1>2, <2>1, <2>2, GuestSettleStep DEF Up
<1>5. CASE Joins(g, i) /\ guest[g].leader # Nil
  BY <1>1, <1>5, JoinsSettle
<1>6. guest[g].leader # Nil => LeaderOf(g) = Inviter[i]
  BY <1>1, LeaderInvites
<1> QED
  BY <1>3, <1>4, <1>5, <1>6 DEF ReceiveConfirmation, Joins

\* A roster that comes on one connection is taken from it.
LEMMA ReceiveRosterSettle ==
    ASSUME TypeInv, RosterInv, SettleInv, OneHostEach, NEW g \in Guest,
           NEW i \in Invite, ReceiveRoster(g, i)
    PROVE  SettleInv'
<1> DEFINE m == Head(out[i])
           old == guest[g].updateRoster
<1>1. /\ UNCHANGED <<host, conn, responses, rankChanges>>
      /\ Invitee[i] = g /\ out[i] # <<>> /\ m.type = "RosterUpdate"
      /\ out' = [out EXCEPT ![i] = Tail(@)]
      /\ Up(g) /\ guest[g].Rank # Unknown
  BY DEF ReceiveRoster, HeadIs
<1>2. guest[g].leader # Nil
  BY <1>1 DEF SettleInv, JoinInv
<1>3. Received(g, i) = Append(old, m.Roster)
  BY <1>1, <1>2, LeaderInvites DEF Received
<1>4. /\ GuestStepOf(g) /\ SameStatus(g) /\ SameLeader(g)
      /\ guest'[g].Rank = guest[g].Rank
      /\ guest'[g].updateRoster = Append(old, m.Roster)
      /\ guest'[g].confirmedBy = guest[g].confirmedBy
      /\ guest'[g].ignored = guest[g].ignored
  BY <1>3, ReceiveRosterUpdate, RosterEffect
<1>5. TakesOwn(g)
  BY <1>1, TakeOwn
<1>6. JoinedOf(g)'
  BY <1>1, <1>4 DEF SettleInv, JoinInv, JoinedOf, SameLeader
<1>7. /\ \A n \in DOMAIN guest'[g].updateRoster :
           \/ guest'[g].updateRoster[n] = m.Roster
           \/ n \in DOMAIN old /\ guest'[g].updateRoster[n] = old[n]
      /\ \A n \in DOMAIN old : /\ n \in DOMAIN guest'[g].updateRoster
                               /\ guest'[g].updateRoster[n] = old[n]
      /\ \E n \in DOMAIN guest'[g].updateRoster :
           guest'[g].updateRoster[n] = m.Roster
  <2>1. old \in Seq(Rosters)
    BY DEF TypeInv, TypeOK, Guests
  <2> DEFINE r == m.Roster
             new == Append(old, r)
  <2> HIDE DEF r, old
  <2>2. /\ \A n \in DOMAIN new : \/ new[n] = r
                                 \/ n \in DOMAIN old /\ new[n] = old[n]
        /\ \A n \in DOMAIN old : n \in DOMAIN new /\ new[n] = old[n]
        /\ Len(old) + 1 \in DOMAIN new /\ new[Len(old) + 1] = r
    BY <2>1
  <2>3. guest'[g].updateRoster = new
    BY <1>4 DEF r, old
  <2> HIDE DEF new
  <2> QED
    BY <2>2, <2>3 DEF r
<1> HIDE DEF old
<1>8. ASSUME rankChanges = 0, NEW j \in Invite, Invitee[j] = g
      PROVE  TakenTrue(j)'
  <2>1. 1 \in DOMAIN out[i] /\ out[i][1] = m
    BY <1>1, TakeMoves
  <2>2. TrueOf(m.Roster, host[Inviter[i]].peers[g], g)
    BY <1>1, <1>8, <2>1 DEF SettleInv, TrueInv, OutTrue, HasRoster
  <2>3. Inviter[j] = Inviter[i]
    BY <1>1, <1>8 DEF OneHostEach
  <2>4. \A n \in DOMAIN old : TrueOf(old[n], host[Inviter[j]].peers[g], g)
    BY <1>1, <1>8 DEF SettleInv, TrueInv, TakenTrue, old
  <2> HIDE DEF m
  <2> QED
    BY <1>1, <1>7, <1>8, <2>2, <2>3, <2>4 DEF TakenTrue
<1>9. ASSUME rankChanges = 0, NEW j \in Invite, Invitee[j] = g
      PROVE  Due(j)'
  <2> DEFINE h == Inviter[j]
  <2>1. h \in Host
    BY JoiningAssumption
  <2>2. (Accepted(j)' <=> Accepted(j)) /\ (Pending(h, g)' <=> Pending(h, g))
    BY <1>1 DEF Accepted, Pending
  <2>3. Sent(h, g) => Sent(h, g)' \/ Has(m.Roster, g)
    BY <1>1, <2>1, TakeKeeps DEF IsRoster
  <2>4. Due(j)
    BY <1>9 DEF SettleInv, DueInv
  <2> HIDE DEF m
  <2>5. RankDue(h, g) => RankDue(h, g)'
    BY <1>1, <1>4, <1>7, <2>2, <2>3 DEF RankDue, old
  <2> QED
    BY <1>1, <1>4, <1>9, <2>2, <2>4, <2>5 DEF Due
<1> HIDE DEF m
<1> QED
  BY <1>1, <1>4, <1>5, <1>6, <1>8, <1>9, GuestSettleStep
     DEF TakenTrueOf, DueOf, SameStatus, Up

\* A guest that finds itself in a roster takes the rank its host keeps.
LEMMA DoUpdateRosterSettle ==
    ASSUME TypeInv, RosterInv, SettleInv, NEW g \in Guest, DoUpdateRoster(g)
    PROVE  SettleInv'
<1> DEFINE old == guest[g].updateRoster
           roster == Head(old)
<1>1. /\ UNCHANGED <<host, conn, out, responses, rankChanges>>
      /\ Up(g) /\ old # <<>> /\ old \in Seq(Rosters)
  BY DEF DoUpdateRoster, TypeInv, TypeOK, Guests
<1>2. /\ GuestStepOf(g) /\ SameStatus(g) /\ SameLeader(g)
      /\ guest'[g].updateRoster = Tail(old)
      /\ guest'[g].confirmedBy = guest[g].confirmedBy
      /\ guest'[g].ignored = guest[g].ignored
      /\ IF \E e \in roster : e.id = g
         THEN \E e \in roster : e.id = g /\ guest'[g].Rank = e.rank
         ELSE guest'[g].Rank = guest[g].Rank
  BY DoUpdateRosterEffect
<1>3. /\ roster \in Rosters /\ 1 \in DOMAIN old /\ old[1] = roster
      /\ \A n \in DOMAIN old : n = 1 \/ (/\ n - 1 \in DOMAIN Tail(old)
                                         /\ Tail(old)[n - 1] = old[n])
      /\ \A n \in DOMAIN Tail(old) : /\ n + 1 \in DOMAIN old
                                     /\ Tail(old)[n] = old[n + 1]
  <2> HIDE DEF old
  <2> QED
    BY <1>1
<1>4. guest[g].Rank # Unknown /\ guest[g].leader # Nil
      /\ guest[g].confirmedBy # Nil
  BY <1>1 DEF SettleInv, JoinInv
<1>5. guest'[g].Rank # Unknown
  BY <1>2, <1>3, <1>4, UnknownNoRank DEF Rosters
<1>6. JoinedOf(g)'
  BY <1>2, <1>4, <1>5 DEF JoinedOf, SameLeader
<1> HIDE DEF old, roster
<1>7. ASSUME rankChanges = 0, NEW j \in Invite, Invitee[j] = g
      PROVE  \A n \in DOMAIN old : TrueOf(old[n], host[Inviter[j]].peers[g], g)
  BY <1>1, <1>7 DEF SettleInv, TrueInv, TakenTrue, old
<1>8. ASSUME rankChanges = 0, NEW j \in Invite, Invitee[j] = g
      PROVE  TakenTrue(j)'
  BY <1>1, <1>2, <1>3, <1>7, <1>8 DEF TakenTrue
<1>9. ASSUME rankChanges = 0, NEW j \in Invite, Invitee[j] = g
      PROVE  Due(j)'
  <2> DEFINE h == Inviter[j]
             p == host[h].peers[g]
  <2>1. /\ Accepted(j)' <=> Accepted(j)
        /\ Pending(h, g)' <=> Pending(h, g)
        /\ Sent(h, g)' <=> Sent(h, g)
    BY <1>1 DEF Accepted, Pending, Sent
  <2>2. Due(j)
    BY <1>9 DEF SettleInv, DueInv
  <2>3. CASE Has(roster, g)
    <3>1. TrueOf(roster, p, g)
      BY <1>3, <1>7, <1>9
    <3>2. p # Nil /\ guest'[g].Rank = RankOffered[p]
      BY <1>2, <2>3, <3>1 DEF Has, TrueOf
    <3>3. RankDue(h, g)'
      BY <1>1, <3>2 DEF RankDue
    <3> QED
      BY <1>5, <1>9, <3>3 DEF Due
  <2>4. CASE ~Has(roster, g)
    <3>1. guest'[g].Rank = guest[g].Rank
      BY <1>2, <2>4 DEF Has
    <3>2. (\E n \in DOMAIN old : Has(old[n], g)) =>
            \E n \in DOMAIN guest'[g].updateRoster :
              Has(guest'[g].updateRoster[n], g)
      <4> SUFFICES ASSUME NEW n \in DOMAIN old, Has(old[n], g)
                   PROVE  \E k \in DOMAIN Tail(old) : Has(Tail(old)[k], g)
        BY <1>2
      <4>1. n - 1 \in DOMAIN Tail(old) /\ Tail(old)[n - 1] = old[n]
        BY <1>3, <2>4
      <4> QED
        BY <4>1
    <3>3. RankDue(h, g) => RankDue(h, g)'
      BY <1>1, <2>1, <3>1, <3>2 DEF RankDue, old
    <3> QED
      BY <1>1, <1>2, <1>4, <1>5, <1>9, <2>1, <2>2, <3>3 DEF Due
  <2> QED
    BY <2>3, <2>4
<1> QED
  BY <1>1, <1>2, <1>6, <1>8, <1>9, SameTakes, GuestSettleStep
     DEF TakenTrueOf, DueOf, SameStatus, Up


-----------------------------------------------------------------------------
LEMMA SettleInit == Init => SettleInv
<1> SUFFICES ASSUME Init PROVE SettleInv
  OBVIOUS
<1>1. \A i \in Invite : Inviter[i] \in Host /\ Invitee[i] \in Guest
  BY JoiningAssumption
<1>2. JoinInv
  BY <1>1 DEF Init, JoinInv, Accepted
<1>3. NoChangeInv
  BY DEF Init, NoChangeInv
<1>4. TrueInv
  BY <1>1 DEF Init, TrueInv, HeldTrue, OutTrue, TakenTrue, TrueOf, Idle
<1>5. DueInv
  BY <1>1 DEF Init, DueInv, Due, Accepted
<1> QED
  BY <1>2, <1>3, <1>4, <1>5 DEF SettleInv

LEMMA SettleStep ==
    ASSUME OneHostEach, RandomsDiffer
    PROVE  TypeInv /\ RosterInv /\ SettleInv /\ [Next]_vars => SettleInv'
<1> SUFFICES ASSUME TypeInv, RosterInv, SettleInv, [Next]_vars
             PROVE  SettleInv'
  OBVIOUS
<1>1. ASSUME NEW h \in Host, HostNext(h) PROVE SettleInv'
  BY <1>1, HostInitSettle, BecomeLeaderSettle, InvitationRequestSettle,
     DialSettle, HandleResponseSettle, ReadRosterSettle,
     SendConfirmationSettle, SendBroadcastSettle, RankChangeSettle,
     DoAddPeerSettle, DoUpdatePeerSettle, DoDeletePeerSettle,
     SyncReadsSettle, SyncSendsSettle, HeartbeatSettle, PeerTimeoutSettle
     DEF HostNext
<1>2. ASSUME NEW g \in Guest, GuestNext(g) PROVE SettleInv'
  BY <1>2, GuestInitSettle, BrowserAnswersSettle, GuestRespondsSettle,
     DoSetLeaderSettle, DoUpdateRosterSettle, ExitSettle,
     ReceiveInvitationSettle, ReceiveConfirmationSettle,
     ReceiveRosterSettle, DropMessageSettle
     DEF GuestNext
<1>3. ASSUME NEW i \in Invite, ConnectionLost(i) \/ WriterExit(i)
      PROVE  SettleInv'
  BY <1>3, ConnectionLostSettle, WriterExitSettle
<1>4. CASE UNCHANGED vars
  BY <1>4, SameOut, WireSettleStep DEF vars
<1> QED
  BY <1>1, <1>2, <1>3, <1>4 DEF Next

\* When nothing is under way, a confirmed guest has no roster to wait for.
LEMMA SettledRank ==
    ASSUME TypeInv, RosterInv, SettleInv
    PROVE  RankSettles
<1> SUFFICES ASSUME NEW h \in Host, NEW g \in Guest, Settled(h, g), Up(g),
                    ~guest[g].ignored, rankChanges = 0,
                    guest[g].confirmedBy = h
             PROVE  guest[g].Rank = host[h].peerRank[host[h].peers[g]]
  BY DEF RankSettles
<1>1. h # Nil
  BY JoiningAssumption
<1>2. guest[g].Rank # Unknown
  BY <1>1 DEF SettleInv, JoinInv
<1>3. PICK i \in Invite : Invitee[i] = g /\ Accepted(i) /\ Inviter[i] = h
  BY <1>1 DEF RosterInv, ConfirmInv
<1>4. RankDue(h, g)
  BY <1>2, <1>3 DEF SettleInv, DueInv, Due
<1>5. ~Pending(h, g)
  BY DEF Settled, Pending, Idle
<1>6. ~Sent(h, g)
  <2> SUFFICES ASSUME host[h].peers[g] # Nil PROVE ~Sent(h, g)
    BY DEF Sent
  <2>1. out[host[h].peers[g]] = <<>>
    BY PeerWasAccepted DEF Settled
  <2> QED
    BY <2>1 DEF Sent
<1>7. guest[g].updateRoster = <<>>
  BY DEF Settled
<1>8. guest[g].Rank = RankOffered[host[h].peers[g]]
  BY <1>4, <1>5, <1>6, <1>7 DEF RankDue
<1> QED
  BY <1>8 DEF SettleInv, NoChangeInv

\* In such a session, as long as nobody changes a rank: once nothing is under
\* way between a host and a guest that it has confirmed, and that has dropped
\* no confirmation, the guest has the rank the host keeps for it, in whatever
\* order confirmations, rosters and second invitations have come.
THEOREM RankOfGuestSettles ==
    ASSUME OneHostEach, RandomsDiffer
    PROVE  Spec => []RankSettles
<1>1. Init => IInv
  BY TypeInit, RosterInit, SettleInit DEF IInv
<1>2. IInv /\ [Next]_vars => IInv'
  BY TypeStep, RosterStep, SettleStep DEF IInv
<1>3. IInv => RankSettles
  BY SettledRank DEF IInv
<1> QED
  BY <1>1, <1>2, <1>3, PTL DEF Spec

=============================================================================
