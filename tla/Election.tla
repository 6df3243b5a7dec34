------------------------------- MODULE Election -------------------------------
(***************************************************************************)
(* A WeTube session whose leader may disappear: the clients of ClientCore, *)
(* the event loop that feeds their actor goroutines (run.go), and the      *)
(* WebSocket connections between them, one per direction.                  *)
(*                                                                         *)
(* An actor goroutine takes its requests from one Go channel per kind of   *)
(* request with a select, which serves any channel that is ready: requests *)
(* of one kind keep their order, requests of different kinds do not.  Time *)
(* is abstracted: a timer that is armed may fire in any state.             *)
(***************************************************************************)
EXTENDS ClientCore, Sequences

CONSTANTS
    FirstLeader,  \* The client that started the session
    FirstRank,    \* The rank each client was invited with
    Late,         \* The clients whose heartbeats may come too late
    MaxRound,     \* Bound on the vote rounds a client opens
    MaxRetry,     \* Bound on the rounds whose retry timer may fire
    MaxCrashes    \* Bound on the clients that disappear

ASSUME ElectionAssumption ==
    /\ FirstLeader \in Client
    /\ FirstRank \in [Client -> Ranks]
    /\ FirstRank[FirstLeader] = Director
    /\ Late \subseteq Client
    /\ MaxRound \in Nat
    /\ MaxRetry \in Nat
    /\ MaxCrashes \in Nat

VARIABLES
    core,   \* core[c]: the state of the actor goroutine of c
    chan,   \* chan[c]: the request channels of c that elections use
    net,    \* net[c][d]: messages c has sent to d and d has not handled
    timer   \* timer[c]: the leader for which LeaderTimeout of c runs, or Nil

vars == <<core, chan, net, timer>>

Messages ==
    [type : {"LeaderVote"}, N : Nat, Vote : Client]
      \cup [type : {"RosterUpdate"}, roster : Rosters]

Channels ==
    [ leaderVote   : Seq(LeaderVotes),
      setLeader    : 0..1,            \* nil is the only value sent here
      deletePeer   : Seq(Client),
      updateRoster : Seq(Rosters) ]

\* Every variable has its type: in particular leaders, peers, candidates and
\* votes are clients, whatever the sentinel of electNewLeader does.
TypeOK ==
    /\ core \in [Client -> CoreStates]
    /\ chan \in [Client -> Channels]
    /\ net \in [Client -> [Client -> Seq(Messages)]]
    /\ timer \in [Client -> Client \cup {Nil}]

Up(c) == core[c].status = "up"

\* The process of c has ended, and its connections with it.
Gone(c) == core[c].status \in {"down", "panic", "overflow"}

\* A writer goroutine of c has exited and asked for the deletion of p.
DeletePending(c, p) ==
    \E i \in DOMAIN chan[c].deletePeer : chan[c].deletePeer[i] = p

\* Everyone has joined: the leader knows all the others, each of the others
\* is connected to the leader and to its fellow peers.
Init ==
    /\ core = [c \in Client |->
         [ Id             |-> c,
           status         |-> "up",
           Rank           |-> FirstRank[c],
           isLeader       |-> c = FirstLeader,
           leader         |-> IF c = FirstLeader THEN Nil ELSE FirstLeader,
           peers          |-> Client \ {c, FirstLeader},
           peerRank       |-> FirstRank,
           loopback       |-> {},
           voteRound      |-> NoRound,
           nextVoteRoundN |-> 0,
           retry          |-> FALSE,
           retrying       |-> 0,
           c_electLeader  |-> 0,
           broadcasts     |-> {},
           syncRoster     |-> FALSE,
           closing        |-> {},
           full           |-> {},
           timed          |-> {},
           timerPeer      |-> Nil,
           cast           |-> {},
           decided        |-> {} ]]
    /\ chan = [c \in Client |->
         [leaderVote |-> <<>>, setLeader |-> 0,
          deletePeer |-> <<>>, updateRoster |-> <<>>]]
    /\ net = [c \in Client |-> [d \in Client |-> <<>>]]
    /\ timer = [c \in Client |-> FirstLeader]

-----------------------------------------------------------------------------
(* Timers and failures.                                                    *)

\* Heartbeats of c reach its leader, which leads, knows c and answers them.
Acknowledged(c) ==
    LET l == core[c].leader
    IN  /\ l # Nil /\ l \notin core[c].loopback
        /\ Up(l) /\ core[l].isLeader /\ GetPeer(core[l], c)

\* Mutant of LeaderTimeout: SetLeader(nil) is forgotten.
LeaderTimeout_KeepsLeader(c) ==
    /\ Up(c) /\ timer[c] # Nil
    /\ c \in Late \/ timer[c] # core[c].leader \/ ~Acknowledged(c)
    /\ ~core[c].isLeader
    /\ timer' = [timer EXCEPT ![c] = Nil]
    /\ core' = [core EXCEPT ![c].c_electLeader = @ + 1]
    /\ UNCHANGED <<chan, net>>

\* eventLoop, <-client.LeaderTimeout.C.  The timer does not know of a change
\* of leader: it runs out unless the leader it was last reset for keeps on
\* answering, and is off until the next HeartbeatAck.  (When c leads itself,
\* the event is ignored.)
LeaderTimeout(c) ==
    /\ Up(c) /\ timer[c] # Nil
    /\ c \in Late \/ timer[c] # core[c].leader \/ ~Acknowledged(c)
    /\ ~core[c].isLeader
    /\ chan[c].setLeader = 0
    /\ timer' = [timer EXCEPT ![c] = Nil]
    /\ chan' = [chan EXCEPT ![c].setLeader = 1]
    /\ core' = [core EXCEPT ![c].c_electLeader = @ + 1]
    /\ UNCHANGED net

\* A heartbeat of c reaches its leader, which answers a peer it knows, and
\* the HeartbeatAck restarts LeaderTimeout.
HeartbeatAck(c) ==
    /\ Up(c) /\ Acknowledged(c)
    /\ timer[c] # core[c].leader
    /\ timer' = [timer EXCEPT ![c] = core[c].leader]
    /\ UNCHANGED <<core, chan, net>>

\* The heartbeat timer a leader keeps for a peer fires and closes a peer.
\* (Once the writer goroutine has exited, nobody reads a second signal.)
PeerTimeout(c, p) ==
    /\ Up(c) /\ core[c].isLeader
    /\ p \in Late \/ ~Up(p)
    /\ p \in core[c].peers \cup core[c].timed
    /\ \E q \in TimerTargets(core[c], p) :
         /\ q \in core[c].peers \ core[c].closing
         /\ ~DeletePending(c, q)
         /\ core' = [core EXCEPT
              ![c].closing   = @ \cup {q},
              ![c].timerPeer = IF p \in core[c].timed THEN q ELSE @]
    /\ UNCHANGED <<chan, net, timer>>

\* ElectionRetryTimeout fires.  Its function asks first whether this client
\* leads, then who leads, and then for another election: three requests with
\* other work of the actor between them.
RetryTimeout(c) ==
    /\ Up(c) /\ core[c].retry
    /\ core[c].nextVoteRoundN <= MaxRetry
    /\ core' = [core EXCEPT
         ![c].retry    = FALSE,
         ![c].retrying = IF core[c].isLeader THEN @ ELSE @ + 1]
    /\ UNCHANGED <<chan, net, timer>>

RetryElection(c) ==
    /\ Up(c) /\ core[c].retrying > 0
    /\ core' = [core EXCEPT
         ![c].retrying      = @ - 1,
         ![c].c_electLeader = IF core[c].leader = Nil THEN @ + 1 ELSE @]
    /\ UNCHANGED <<chan, net, timer>>

\* A client disappears: its browser went silent, its user quit, its host died.
Crash(c) ==
    /\ ~Gone(c)
    /\ Cardinality({d \in Client : core[d].status = "down"}) < MaxCrashes
    /\ core' = [core EXCEPT ![c].status = "down"]
    /\ net' = [d \in Client |-> [net[d] EXCEPT ![c] = <<>>]]
    /\ UNCHANGED <<chan, timer>>

\* The reader goroutine of the connection to a client that has gone reports
\* the error, the writer goroutine exits and asks for the peer's deletion.
\* It exits because it took the reader's signal, or for another reason, and
\* then the signal is left (PeerConnection).
ConnectionLost(c, p) ==
    /\ Up(c) /\ Gone(p)
    /\ p \in core[c].peers \ core[c].loopback
    /\ ~DeletePending(c, p)
    /\ chan' = [chan EXCEPT ![c].deletePeer = Append(@, p)]
    /\ \E left \in SUBSET {p} :
         core' = [core EXCEPT ![c].closing = @ \ {p}, ![c].full = @ \cup left]
    /\ UNCHANGED <<net, timer>>

\* The same of the connection to the leader.  Its request finds nobody, since
\* deletePeer only looks in the map; what matters is the signal that is left.
LeaderConnectionLost(c) ==
    LET l == core[c].leader
    IN  /\ Up(c) /\ l # Nil
        /\ l \notin core[c].loopback \cup core[c].full
        /\ Gone(l)
        /\ core' = [core EXCEPT ![c].full = @ \cup {l}]
        /\ UNCHANGED <<chan, net, timer>>

\* A writer goroutine that was told to close exits: what it had not written
\* is lost, and the peer of that id is to be deleted.  If it was a timer that
\* told it, the peer is still in the map, and the reader, whose connection is
\* closed now, may leave a signal of its own.
WriterExit(c, p) ==
    /\ ~Gone(c) /\ p \in core[c].closing
    /\ \E left \in SUBSET IF core[c].isLeader THEN {p} \cap core[c].peers
                           ELSE {} :
         core' = [core EXCEPT ![c].closing = @ \ {p}, ![c].full = @ \cup left]
    /\ chan' = [chan EXCEPT ![c].deletePeer = Append(@, p)]
    /\ \E written \in 0..Len(net[c][p]) :
         net' = [net EXCEPT ![c][p] = SubSeq(@, 1, written)]
    /\ UNCHANGED timer

-----------------------------------------------------------------------------
(* Sending and receiving.                                                  *)

\* The message goes into the OutChannel of every listed peer.  What is sent
\* to a client that has gone is lost; what is sent over a connection that
\* leads back to c comes from a sender c does not know and is ignored.
BroadcastToPeers(c, m) ==
    LET to == {d \in ListPeers(core[c]) \ core[c].loopback : Up(d)}
    IN  net' = [net EXCEPT ![c] =
                  [d \in Client |-> IF d \in to THEN Append(@[d], m) ELSE @[d]]]

\* The goroutine that electSpecificLeader starts to send the vote.
SendVote(c, b) ==
    /\ Up(c) /\ b \in core[c].broadcasts
    /\ BroadcastToPeers(c, [type |-> "LeaderVote", N |-> b.N, Vote |-> b.Vote])
    /\ core' = [core EXCEPT ![c].broadcasts = @ \ {b}]
    /\ UNCHANGED <<chan, timer>>

\* The syncRoster goroutine of a leader.
SyncRoster(c) ==
    /\ Up(c) /\ core[c].syncRoster
    /\ BroadcastToPeers(c, [type |-> "RosterUpdate",
                            roster |-> GetRoster(core[c])])
    /\ core' = [core EXCEPT ![c].syncRoster = FALSE]
    /\ UNCHANGED <<chan, timer>>

\* handleLeaderVote: the signature is checked against the key of the sender,
\* who has to be a peer; the sender replaces the one the payload names.
ReceiveVote(c, d) ==
    /\ Up(c) /\ net[d][c] # <<>> /\ Head(net[d][c]).type = "LeaderVote"
    /\ net' = [net EXCEPT ![d][c] = Tail(@)]
    /\ LET m == Head(net[d][c])
       IN  IF GetPeer(core[c], d)
           THEN chan' = [chan EXCEPT ![c].leaderVote =
                           Append(@, [N |-> m.N, Vote |-> m.Vote, Sender |-> d])]
           ELSE UNCHANGED chan
    /\ UNCHANGED <<core, timer>>

\* handleRosterUpdate: only the leader's rosters are taken.
ReceiveRoster(c, d) ==
    /\ Up(c) /\ net[d][c] # <<>> /\ Head(net[d][c]).type = "RosterUpdate"
    /\ net' = [net EXCEPT ![d][c] = Tail(@)]
    /\ IF core[c].leader = d
       THEN chan' = [chan EXCEPT ![c].updateRoster =
                       Append(@, Head(net[d][c]).roster)]
       ELSE UNCHANGED chan
    /\ UNCHANGED <<core, timer>>

-----------------------------------------------------------------------------
(* The actor goroutine serves one of its channels.                         *)

\* The new state of the actor; no client opens more than MaxRound rounds.
Become(c, s) ==
    /\ s.nextVoteRoundN <= MaxRound
    /\ core' = [core EXCEPT ![c] = s]

DoSetLeader(c) ==
    /\ Up(c) /\ chan[c].setLeader > 0
    /\ chan' = [chan EXCEPT ![c].setLeader = @ - 1]
    /\ Become(c, setLeader(core[c], Nil))
    /\ UNCHANGED <<net, timer>>

DoElectLeader(c) ==
    /\ Up(c) /\ core[c].c_electLeader > 0
    /\ Become(c, electNewLeader([core[c] EXCEPT !.c_electLeader = @ - 1]))
    /\ UNCHANGED <<chan, net, timer>>

DoLeaderVote(c) ==
    /\ Up(c) /\ chan[c].leaderVote # <<>>
    /\ chan' = [chan EXCEPT ![c].leaderVote = Tail(@)]
    /\ Become(c, acceptLeaderVote(core[c], Head(chan[c].leaderVote)))
    /\ UNCHANGED <<net, timer>>

DoDeletePeer(c) ==
    /\ Up(c) /\ chan[c].deletePeer # <<>>
    /\ chan' = [chan EXCEPT ![c].deletePeer = Tail(@)]
    /\ Become(c, deletePeer(core[c], Head(chan[c].deletePeer)))
    /\ UNCHANGED <<net, timer>>

DoUpdateRoster(c) ==
    /\ Up(c) /\ chan[c].updateRoster # <<>>
    /\ chan' = [chan EXCEPT ![c].updateRoster = Tail(@)]
    /\ LET roster    == Head(chan[c].updateRoster)
           reachable == {d \in ToDial(core[c], roster) :
                           ~Gone(d) \/ d = roster.from}
       IN  \E dialled \in SUBSET reachable :
             Become(c, updateRoster(core[c], roster, dialled))
    /\ UNCHANGED <<net, timer>>

-----------------------------------------------------------------------------
Actor(c) ==
    \/ DoSetLeader(c)
    \/ DoElectLeader(c)
    \/ DoLeaderVote(c)
    \/ DoDeletePeer(c)
    \/ DoUpdateRoster(c)

Goroutines(c) ==
    \/ SyncRoster(c)
    \/ RetryElection(c)
    \/ \E b \in core[c].broadcasts : SendVote(c, b)
    \/ \E p \in core[c].closing : WriterExit(c, p)
    \/ \E p \in core[c].peers : ConnectionLost(c, p)

EventLoop(c) ==
    \E d \in Client : ReceiveVote(c, d) \/ ReceiveRoster(c, d)

Timers(c) ==
    \/ LeaderTimeout(c)
    \/ HeartbeatAck(c)
    \/ RetryTimeout(c)
    \/ \E p \in Client : PeerTimeout(c, p)

Next ==
    \E c \in Client :
        \/ Actor(c) \/ Goroutines(c) \/ EventLoop(c) \/ Timers(c)
        \/ LeaderConnectionLost(c) \/ Crash(c)

Spec == Init /\ [][Next]_vars

-----------------------------------------------------------------------------
(* What the scheduler guarantees: a goroutine that can run, a request that *)
(* waits in a channel and a timer that is running are served eventually.   *)
(* Nothing makes a client crash, or its connection leave a signal.  (An    *)
(* actor that is ready serves each of its channels in the end: select      *)
(* chooses among them at random.)                                          *)

Fairness ==
    \A c \in Client :
        /\ WF_vars(DoSetLeader(c))
        /\ WF_vars(DoElectLeader(c))
        /\ WF_vars(DoLeaderVote(c))
        /\ WF_vars(DoDeletePeer(c))
        /\ WF_vars(DoUpdateRoster(c))
        /\ WF_vars(Goroutines(c))
        /\ WF_vars(EventLoop(c))
        /\ WF_vars(LeaderTimeout(c))
        /\ WF_vars(HeartbeatAck(c))
        /\ WF_vars(RetryTimeout(c))

FairSpec == Spec /\ Fairness

-----------------------------------------------------------------------------
(* Properties.                                                             *)

\* Whoever leads has no leader, and the leader of a client is not among its
\* peers too: otherwise a round would wait for one vote too many (peerCount).
LeaderNotPeer ==
    \A c \in Client :
        /\ core[c].isLeader => core[c].leader = Nil
        /\ core[c].leader \notin core[c].peers
        /\ c \notin ListPeers(core[c])

\* However rounds are restarted, a client never casts two different votes in
\* the same round (electSpecificLeader, nextVoteRoundN).
OneVotePerRound ==
    \A c \in Client : \A a, b \in core[c].cast : a.N = b.N => a = b

\* A vote is only counted in the round it was cast in, as its sender cast it:
\* this holds of the votes of an open round, and everybody whose vote a
\* concluded round counted did vote for its winner (acceptLeaderVote).
CountedVotesWereCast ==
    \A c, p \in Client :
        LET round == core[c].voteRound
        IN  /\ round.Votes[p] # Nil =>
                   [N |-> round.N, Vote |-> round.Votes[p]] \in core[p].cast
            /\ \A x \in core[c].decided :
                   p \in x.voters => [N |-> x.N, Vote |-> x.leader] \in core[p].cast

\* If c concluded a round in which it counted the vote of d, and d concluded
\* that round too, they elected the same leader (acceptLeaderVote).
RoundAgreement ==
    \A c, d \in Client :
        \A x \in core[c].decided, y \in core[d].decided :
            x.N = y.N /\ d \in x.voters => x.leader = y.leader

\* acceptLeaderVote overwrites nextVoteRoundN with the number of the round
\* another client is in, and yet the counter never goes back: a client never
\* returns to a round it has left.
RoundsGoUp ==
    [][\A c \in Client :
         core'[c].nextVoteRoundN >= core[c].nextVoteRoundN]_vars

\* What Voting calls votes, decisions and leaders, read from the actors' state.
Ballots ==
    INSTANCE Voting WITH cast    <- [c \in Client |-> core[c].cast],
                         decided <- [c \in Client |-> core[c].decided],
                         leader  <- [c \in Client |-> core[c].leader]

\* With channels, delays, retries and crashes between them, the clients do what
\* Voting says: one vote per round in ascending rounds, no decision without the
\* votes it claims, no new leader without a decision (acceptLeaderVote).
ImplementsVoting == Ballots!Spec

\* "Tried to set leader when already the leader. This shouldn't happen."
NeverPanics == \A c \in Client : core[c].status # "panic"

\* "In the event that a session's leader disappears, a new leader is elected":
\* a client that has lost its leader gets another one, or leads itself.
LeaderReplaced ==
    \A c \in Client :
        (Up(c) /\ core[c].leader = Nil /\ ~core[c].isLeader)
            ~> (core[c].leader # Nil \/ core[c].isLeader \/ ~Up(c))

\* LeaderTimeout, which the answer to a heartbeat has started, notices that
\* the leader has disappeared or answers no more (run.go 245-250, 340-351): it
\* is given up, unless the process ends before, or the actor is blocked by a
\* signal that was left in the CloseChannel of a connection that had broken
\* (client.go 478, 190).
DeadLeaderNoticed ==
    \A c \in Client :
        (/\ Up(c) /\ core[c].leader # Nil
         /\ timer[c] = core[c].leader /\ ~Up(core[c].leader))
            ~> \/ core[c].leader = Nil \/ Up(core[c].leader)
               \/ Gone(c)
               \/ core[c].status = "blocked" /\ core[c].full # {}

=============================================================================
