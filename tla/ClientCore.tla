------------------------------ MODULE ClientCore ------------------------------
(***************************************************************************)
(* The state that the actor goroutine of a WeTube client owns (the Client  *)
(* struct and the select loop of NewClient, client.go), and the operations *)
(* it performs on it, each as a function from the state before to the      *)
(* state after.  The goroutine runs one operation at a time, so each is    *)
(* atomic; Election and the other modules decide when they run.            *)
(*                                                                         *)
(* What an operation starts with `go` is recorded in the state and carried *)
(* out later by an action of the composing module:                         *)
(*   broadcasts     votes whose BroadcastToPeers goroutine has not run;    *)
(*   syncRoster     a syncRoster goroutine of a leader is pending;         *)
(*   c_electLeader  requests waiting in the channel of that name;          *)
(*   retry          ElectionRetryTimeout is running;                       *)
(*   retrying       functions of such timers that have fired, were told    *)
(*                  that this client does not lead, and have yet to ask    *)
(*                  for its leader;                                        *)
(*   closing        peers whose CloseChannel was signalled, and whose      *)
(*                  writer goroutine has not exited yet;                   *)
(*   full           the leader or peers whose writer goroutine has exited  *)
(*                  and left a signal in CloseChannel, which holds one:    *)
(*                  whoever signals next is blocked for ever;              *)
(*   timed          peers whose heartbeat timer becomeLeader has set: the  *)
(*                  functions of these timers share its loop variable;     *)
(*   timerPeer      the value of that variable, the last peer of the       *)
(*                  traversal (Nil while it has not mattered).             *)
(* cast and decided are history: every vote this client ever broadcast and *)
(* every election it concluded.                                            *)
(***************************************************************************)
EXTENDS Integers, FiniteSets

CONSTANTS
    Client,  \* The ids of the clients (rand.Int31, hence natural numbers)
    Nil      \* Go's nil, for *Peer and for a vote that is not in the map

ASSUME ClientAssumption ==
    /\ Client \subseteq Nat
    /\ IsFiniteSet(Client)
    /\ Nil \notin Client

Viewer   == 1
Editor   == 2
Director == 3

\* The ranks of a client that has joined (Unknown is the rank before that).
Ranks == {Viewer, Editor, Director}

\* voteRound = nil.
NoRound == [N |-> -1, MyVote |-> Nil, Votes |-> [p \in Client |-> Nil]]

Rounds ==
    [N : Nat, MyVote : Client, Votes : [Client -> Client \cup {Nil}]]

\* A vote as it reaches the actor, and the part of it that its sender chose.
LeaderVotes == [N : Nat, Vote : Client, Sender : Client]

CastVotes == [N : Nat, Vote : Client]

\* The roster a RosterUpdate carries: entry 0 is the one of its sender.
Rosters == [from : Client, ids : SUBSET Client, rank : [Client -> Ranks]]

Decisions == [N : Nat, leader : Client, voters : SUBSET Client]

\* "panic" is the panic of setLeader, "overflow" the stack overflow of an
\* acceptLeaderVote that calls itself forever, "down" every other exit.
\* "blocked" is an actor in a send on a full CloseChannel: the process is
\* there, and everything in it that asks the actor something waits with it.
Statuses == {"up", "blocked", "down", "panic", "overflow"}

CoreStates ==
    [ Id             : Client,
      status         : Statuses,
      Rank           : Ranks,
      isLeader       : BOOLEAN,
      leader         : Client \cup {Nil},
      peers          : SUBSET Client,
      peerRank       : [Client -> Ranks],
      loopback       : SUBSET Client,
      voteRound      : Rounds \cup {NoRound},
      nextVoteRoundN : Nat,
      retry          : BOOLEAN,
      retrying       : Nat,
      c_electLeader  : Nat,
      broadcasts     : SUBSET CastVotes,
      syncRoster     : BOOLEAN,
      closing        : SUBSET Client,
      full           : SUBSET Client,
      timed          : SUBSET Client,
      timerPeer      : Client \cup {Nil},
      cast           : SUBSET CastVotes,
      decided        : SUBSET Decisions ]

-----------------------------------------------------------------------------
(* Queries of the actor loop.                                              *)

LeaderSet(s) == {s.leader} \ {Nil}

\* c_getPeer finds a peer by id: in the map, or the leader.
GetPeer(s, p) == p \in s.peers \/ p = s.leader

\* c_listPeers: the leader, if any, and every peer of the map.
ListPeers(s) == s.peers \cup LeaderSet(s)

\* c_getRoster: this client, its leader and its peers, with their ranks.  The
\* address of entry 0, this client's own, is left blank by ToRosterEntry;
\* "from" says whose entry that is.
GetRoster(s) ==
    [ from |-> s.Id,
      ids  |-> {s.Id} \cup ListPeers(s),
      rank |-> [s.peerRank EXCEPT ![s.Id] = s.Rank] ]

-----------------------------------------------------------------------------
(* Operations.                                                             *)

\* `go client.syncRoster()`.  Its first half only feeds the browser; its
\* second half does nothing unless this client leads, and becoming leader
\* starts a syncRoster of its own, so only a leader's is remembered.
SpawnSyncRoster(s) == [s EXCEPT !.syncRoster = s.isLeader]

\* A leader that is replaced or lost is told to close its connection, by a
\* send that blocks if its CloseChannel is full.
DropLeader(s) ==
    IF s.leader \in s.full THEN [s EXCEPT !.status = "blocked"]
    ELSE [s EXCEPT !.closing  = @ \cup LeaderSet(s),
                   !.loopback = @ \ LeaderSet(s),
                   !.leader   = Nil]

\* The rest of an operation, which an actor that is blocked does not reach.
Onward(s, t) == IF s.status = "blocked" THEN s ELSE t

\* Only a client that did not lead yet starts timers for its peers.
becomeLeader(s) ==
    LET free == DropLeader([s EXCEPT !.Rank = Director])
    IN  Onward(free, SpawnSyncRoster(
          [free EXCEPT !.isLeader = TRUE,
                       !.timed    = IF s.isLeader THEN @ ELSE s.peers]))

\* Mutant of setLeader: the new leader stays among the peers.
setLeader_KeepsPeer(s, l) ==
    LET free == DropLeader(s)
    IN  CASE l = Nil ->
               Onward(free, SpawnSyncRoster(free))
          [] l # Nil /\ s.isLeader ->
               IF l = s.Id THEN s ELSE [s EXCEPT !.status = "panic"]
          [] OTHER ->
               Onward(free, SpawnSyncRoster([free EXCEPT !.leader = l]))

setLeader(s, l) ==
    LET free == DropLeader([s EXCEPT !.peers = @ \ {l}])
    IN  CASE l = Nil ->
               Onward(free, SpawnSyncRoster(free))
          [] l # Nil /\ s.isLeader ->
               IF l = s.Id THEN s ELSE [s EXCEPT !.status = "panic"]
          [] OTHER ->
               Onward(free, SpawnSyncRoster([free EXCEPT !.leader = l]))

\* c_deletePeer: only the map is looked at, so the leader stays.
deletePeer(s, p) ==
    LET gone == {p} \ LeaderSet(s)
    IN  SpawnSyncRoster([s EXCEPT !.peers    = @ \ gone,
                                  !.loopback = @ \ gone,
                                  !.full     = @ \ gone])

\* Whose CloseChannel the heartbeat timer of p signals: p's own if
\* handleHeartbeat has set it, that of the loop variable if becomeLeader has.
TimerTargets(s, p) ==
    IF p \notin s.timed THEN {p}
    ELSE IF s.timerPeer = Nil THEN s.timed
    ELSE {s.timerPeer}

\* The entries of a roster this client has to dial: everyone it does not
\* know yet.
ToDial(s, roster) == roster.ids \ ({s.Id} \cup LeaderSet(s) \cup s.peers)

\* updateRoster: the peers become those of the roster (dialled is the part of
\* ToDial that could be reached), ranks are taken over, peers that are no
\* longer listed are closed, before the map is replaced: the send to a peer
\* whose CloseChannel is full blocks.  The entry of the sender has no address:
\* if it has to be dialled, ":9191" is this client's own server, and the
\* connection leads back to itself.
updateRoster(s, roster, dialled) ==
    LET kept   == (roster.ids \cap s.peers) \ ({s.Id} \cup LeaderSet(s))
        next   == kept \cup dialled
        closed == s.peers \ next
        ranked == [s EXCEPT
             !.Rank     = IF s.Id \in roster.ids THEN roster.rank[s.Id] ELSE @,
             !.peerRank = [p \in Client |->
                             IF p \in next \cup (LeaderSet(s) \cap roster.ids)
                             THEN roster.rank[p] ELSE @[p]],
             !.closing  = @ \cup (closed \ s.full)]
    IN  IF closed \cap s.full # {} THEN [ranked EXCEPT !.status = "blocked"]
        ELSE SpawnSyncRoster(
               [ranked EXCEPT
                  !.peers    = next,
                  !.loopback = (@ \cap (kept \cup LeaderSet(s)))
                                 \cup (dialled \cap {roster.from})])

-----------------------------------------------------------------------------
(* Elections.                                                              *)

LowestId(S) == CHOOSE p \in S : \A q \in S : p <= q

\* Mutant of electSpecificLeader: nextVoteRoundN is not incremented.
electSpecificLeader_SameRound(s, vote) ==
    IF s.leader = Nil /\ s.peers = {} /\ vote = s.Id
    THEN becomeLeader([s EXCEPT !.retry = FALSE])
    ELSE LET ballot == [N |-> s.nextVoteRoundN, Vote |-> vote]
         IN  [s EXCEPT
                !.voteRound  = [N      |-> s.nextVoteRoundN,
                                MyVote |-> vote,
                                Votes  |-> [p \in Client |-> Nil]],
                !.retry      = TRUE,
                !.broadcasts = @ \cup {ballot},
                !.cast       = @ \cup {ballot}]

\* electSpecificLeader: alone, a client appoints itself; otherwise it opens
\* the next round with this vote, arms the retry timer and broadcasts.
electSpecificLeader(s, vote) ==
    IF s.leader = Nil /\ s.peers = {} /\ vote = s.Id
    THEN becomeLeader([s EXCEPT !.retry = FALSE])
    ELSE LET ballot == [N |-> s.nextVoteRoundN, Vote |-> vote]
         IN  [s EXCEPT
                !.voteRound      = [N      |-> s.nextVoteRoundN,
                                    MyVote |-> vote,
                                    Votes  |-> [p \in Client |-> Nil]],
                !.nextVoteRoundN = @ + 1,
                !.retry          = TRUE,
                !.broadcasts     = @ \cup {ballot},
                !.cast           = @ \cup {ballot}]

\* Mutant of Candidate: the second loop is missing, and the sentinel is voted
\* for when this client is not a Director.
Candidate_Sentinel(s) ==
    IF s.leader # Nil THEN s.leader
    ELSE IF s.Rank = Director
    THEN LowestId({s.Id} \cup {p \in s.peers : s.peerRank[p] = Director})
    ELSE -1

\* The vote of electNewLeader.  The minimum starts at math.MinInt32, which no
\* id is below: unless this client is a Director itself, no Director among its
\* peers replaces it and the lowest id of all is taken.
Candidate(s) ==
    IF s.leader # Nil THEN s.leader
    ELSE IF s.Rank = Director
    THEN LowestId({s.Id} \cup {p \in s.peers : s.peerRank[p] = Director})
    ELSE LowestId({s.Id} \cup s.peers)

electNewLeader(s) == electSpecificLeader(s, Candidate(s))

Voters(round) == {p \in Client : round.Votes[p] # Nil}

\* The value of tally[v].
Tally(round, v) ==
    Cardinality({p \in Client : round.Votes[p] = v})
      + (IF v = round.MyVote THEN 1 ELSE 0)

Tallied(round) == {round.MyVote} \cup {round.Votes[p] : p \in Voters(round)}

\* The most frequent vote, the lowest id among several; the order in which
\* the map is traversed does not matter.
Majority(round) ==
    CHOOSE v \in Tallied(round) :
        \A w \in Tallied(round) :
            \/ Tally(round, v) > Tally(round, w)
            \/ Tally(round, v) = Tally(round, w) /\ v <= w

\* Everybody voted for the same client.
Conclude(s) ==
    LET round == s.voteRound
        v     == round.MyVote
        over  == [s EXCEPT
                    !.voteRound = NoRound,
                    !.decided   = @ \cup {[N      |-> round.N,
                                           leader |-> v,
                                           voters |-> Voters(round)]}]
    IN  CASE v = s.Id                            -> becomeLeader(over)
          [] v # s.Id /\ v \in s.peers           -> setLeader(over, v)
          [] v \notin {s.Id, s.leader} \cup s.peers ->
                                     [s EXCEPT !.c_electLeader = @ + 1]
          [] OTHER                               -> over

\* peerCount, the number of votes a round waits for.
PeerCount(s) == Cardinality(s.peers) + Cardinality(LeaderSet(s))

\* Mutant of CountVote: a complete round is concluded without unanimity.
CountVote_OwnVote(s, vote) ==
    LET t     == [s EXCEPT !.voteRound.Votes[vote.Sender] = vote.Vote]
        done  == [t EXCEPT !.retry = FALSE]
        round == t.voteRound
    IN  IF Cardinality(Voters(round)) < PeerCount(t)
        THEN t
        ELSE Conclude(done)

CountVote(s, vote) ==
    LET t     == [s EXCEPT !.voteRound.Votes[vote.Sender] = vote.Vote]
        done  == [t EXCEPT !.retry = FALSE]
        round == t.voteRound
    IN  IF Cardinality(Voters(round)) < PeerCount(t)
        THEN t
        ELSE IF Tallied(round) = {round.MyVote}
        THEN Conclude(done)
        ELSE electSpecificLeader(done, Majority(round))

\* Mutant of OpenRound: the client follows every vote of another round, older
\* ones included.
OpenRound_AnyRound(s, vote) ==
    LET t == IF s.voteRound = NoRound THEN electNewLeader(s) ELSE s
    IN  IF t.voteRound # NoRound /\ vote.N # t.voteRound.N
        THEN electNewLeader([t EXCEPT !.nextVoteRoundN = vote.N])
        ELSE t

\* The two recursive calls of acceptLeaderVote before a vote is counted: the
\* first opens a round if there is none, the second moves on to the round of
\* the vote if that is later.
OpenRound(s, vote) ==
    LET t == IF s.voteRound = NoRound THEN electNewLeader(s) ELSE s
    IN  IF t.voteRound # NoRound /\ vote.N > t.voteRound.N
        THEN electNewLeader([t EXCEPT !.nextVoteRoundN = vote.N])
        ELSE t

\* Mutant of acceptLeaderVote: votes of earlier rounds are counted too.
acceptLeaderVote_OldVotes(s, vote) ==
    LET t == OpenRound(s, vote)
    IN  IF t.voteRound = NoRound \/ vote.N > t.voteRound.N
        THEN [t EXCEPT !.status = "overflow"]
        ELSE CountVote(t, vote)

\* acceptLeaderVote.  If electNewLeader appointed this client without opening
\* a round, the recursion meets the same condition again and never ends.
acceptLeaderVote(s, vote) ==
    LET t == OpenRound(s, vote)
    IN  CASE t.voteRound = NoRound \/ vote.N > t.voteRound.N ->
               [t EXCEPT !.status = "overflow"]
          [] t.voteRound # NoRound /\ vote.N = t.voteRound.N ->
               CountVote(t, vote)
          [] OTHER -> t

=============================================================================
