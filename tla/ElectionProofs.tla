---------------------------- MODULE ElectionProofs ----------------------------
(***************************************************************************)
(* The safety of Election for any number of clients, any ranks, any        *)
(* failures, any delays and any number of rounds.                          *)
(***************************************************************************)
EXTENDS Election, ClientCoreProofs, SequenceTheorems

-----------------------------------------------------------------------------
(* The inductive invariant.                                                *)

\* The votes that every client has cast.
Casts == [p \in Client |-> core[p].cast]

\* Requests and messages whose votes were cast by their senders; K[p], or k,
\* is the set of votes the sender has cast.
KnownVotes(K) ==
    {v \in LeaderVotes : [N |-> v.N, Vote |-> v.Vote] \in K[v.Sender]}

KnownMessages(k) ==
    {m \in Messages : m.type = "LeaderVote" => [N |-> m.N, Vote |-> m.Vote] \in k}

CoreInv ==
    /\ core \in [Client -> CoreStates]
    /\ \A c \in Client :
         /\ core[c].Id = c
         /\ WellFormed(core[c], Casts)
         /\ Up(c) => LastRound(core[c])

ChanInv ==
    /\ chan \in [Client -> Channels]
    /\ \A c \in Client : chan[c].leaderVote \in Seq(KnownVotes(Casts))

NetInv ==
    /\ net \in [Client -> [Client -> Seq(Messages)]]
    /\ \A c, d \in Client : net[c][d] \in Seq(KnownMessages(core[c].cast))

TimerInv == timer \in [Client -> Client \cup {Nil}]

IInv == CoreInv /\ ChanInv /\ NetInv /\ TimerInv

\* What every step of a client does: it forgets no vote and no round.
Monotone ==
    \A c \in Client :
        /\ core[c].cast \subseteq core'[c].cast
        /\ core'[c].nextVoteRoundN >= core[c].nextVoteRoundN
        /\ \A a \in core'[c].cast \ core[c].cast :
             a.N >= core[c].nextVoteRoundN
        /\ core[c].decided \subseteq core'[c].decided

-----------------------------------------------------------------------------
LEMMA SeqMonotone ==
    ASSUME NEW S, NEW T, S \subseteq T, NEW q \in Seq(S)
    PROVE  q \in Seq(T)
OBVIOUS

LEMMA VotesKnownMonotone ==
    ASSUME NEW s \in CoreStates, NEW K, NEW L, VotesKnown(s, K),
           \A p \in Client : K[p] \subseteq L[p]
    PROVE  VotesKnown(s, L)
<1>1. \A x \in s.decided : x.voters \subseteq Client
  BY DEF CoreStates, Decisions
<1> QED
  BY <1>1 DEF VotesKnown

\* A step of one client whose new state is well-formed.
LEMMA CoreStep ==
    ASSUME CoreInv, NEW c \in Client, NEW t,
           WellFormed(t, Casts), Follows(core[c], t),
           t.status = "up" => LastRound(t),
           core' = [core EXCEPT ![c] = t]
    PROVE  CoreInv' /\ Monotone
<1>1. core' \in [Client -> CoreStates]
  BY DEF CoreInv, WellFormed
<1>2. \A p \in Client : core'[p] = IF p = c THEN t ELSE core[p]
  BY DEF CoreInv
<1>3. Monotone
  <2>1. \A p \in Client : core[p].nextVoteRoundN \in Nat
    BY DEF CoreInv, CoreStates
  <2> QED
    BY <1>2, <2>1 DEF Monotone, Follows
<1>4. \A p \in Client : Casts[p] \subseteq Casts'[p]
  BY <1>3 DEF Casts, Monotone
<1>5. ASSUME NEW p \in Client
      PROVE  /\ core'[p].Id = p
             /\ WellFormed(core'[p], Casts')
             /\ core'[p].status = "up" => LastRound(core'[p])
  <2>1. WellFormed(core'[p], Casts)
    BY <1>2 DEF CoreInv
  <2>2. WellFormed(core'[p], Casts')
    <3> DEFINE K == Casts
               L == Casts'
               s == core'[p]
    <3>1. \A r \in Client : K[r] \subseteq L[r]
      BY <1>4
    <3>2. WellFormed(s, K)
      BY <2>1
    <3> HIDE DEF K, L, s
    <3>3. WellFormed(s, L)
      BY <3>1, <3>2, VotesKnownMonotone DEF WellFormed
    <3> QED
      BY <3>3 DEF L, s
  <2>3. core'[p].Id = p
    BY <1>2 DEF CoreInv, Follows
  <2>4. core'[p].status = "up" => LastRound(core'[p])
    BY <1>2 DEF CoreInv, Up
  <2> QED
    BY <2>2, <2>3, <2>4
<1> QED
  BY <1>1, <1>3, <1>5 DEF CoreInv, Up

\* A step that changes neither the votes of c nor whom it knows.
LEMMA QuietStep ==
    ASSUME CoreInv, NEW c \in Client, NEW t \in CoreStates,
           t.status = "up" => Up(c), SameVotes(core[c], t), Distinct(t),
           core' = [core EXCEPT ![c] = t]
    PROVE  CoreInv' /\ Monotone
<1>1. WellFormed(core[c], Casts) /\ (Up(c) => LastRound(core[c]))
  BY DEF CoreInv
<1>2. WellFormed(t, Casts)
  BY <1>1, SameVotesWellFormed
<1>3. Follows(core[c], t) /\ (t.status = "up" => LastRound(t))
  BY <1>1, SameVotesFollows
<1> QED
  BY <1>2, <1>3, CoreStep

\* A step that only changes which connections of c were told to close.
LEMMA SignalStep ==
    ASSUME CoreInv, NEW c \in Client,
           NEW C \in SUBSET Client, NEW F \in SUBSET Client,
           core' = [core EXCEPT ![c].closing = C, ![c].full = F]
    PROVE  /\ CoreInv' /\ Monotone
           /\ \A d \in Client \ {c} : core'[d] = core[d]
           /\ core'[c].leader = core[c].leader
<1> DEFINE t == [core[c] EXCEPT !.closing = C, !.full = F]
<1>1. core[c] \in CoreStates /\ Distinct(core[c])
  BY DEF CoreInv, WellFormed
<1>2. /\ t \in CoreStates /\ SameVotes(core[c], t)
      /\ t.status = core[c].status /\ t.leader = core[c].leader
  BY <1>1 DEF CoreStates, SameVotes
<1>3. Distinct(t)
  BY <1>1 DEF Distinct, ListPeers, LeaderSet, CoreStates
<1>4. core' = [core EXCEPT ![c] = t]
  OBVIOUS
<1> HIDE DEF t
<1>5. CoreInv' /\ Monotone
  BY <1>2, <1>3, <1>4, QuietStep DEF Up
<1> QED
  BY <1>2, <1>4, <1>5 DEF CoreInv

LEMMA IdleCore ==
    ASSUME CoreInv, UNCHANGED core
    PROVE  CoreInv' /\ Monotone
<1>1. \A p \in Client : core[p].nextVoteRoundN \in Nat
  BY DEF CoreInv, CoreStates
<1> QED
  BY <1>1 DEF CoreInv, Monotone, Casts, Up

\* Votes that were known stay known.
LEMMA KnownVotesGrow ==
    ASSUME Monotone, NEW q \in Seq(KnownVotes(Casts))
    PROVE  q \in Seq(KnownVotes(Casts'))
<1>1. KnownVotes(Casts) \subseteq KnownVotes(Casts')
  BY DEF KnownVotes, Casts, Monotone, LeaderVotes
<1> QED
  BY <1>1, SeqMonotone

LEMMA KnownMessagesGrow ==
    ASSUME Monotone, NEW c \in Client,
           NEW q \in Seq(KnownMessages(core[c].cast))
    PROVE  q \in Seq(KnownMessages(core'[c].cast))
<1>1. KnownMessages(core[c].cast) \subseteq KnownMessages(core'[c].cast)
  BY DEF KnownMessages, Monotone
<1> DEFINE S == KnownMessages(core[c].cast)
           T == KnownMessages(core'[c].cast)
<1> HIDE DEF S, T
<1>2. S \subseteq T /\ q \in Seq(S)
  BY <1>1 DEF S, T
<1>3. q \in Seq(T)
  BY <1>2, SeqMonotone
<1> QED
  BY <1>3 DEF T

\* Writing one channel.
LEMMA VoteQueued ==
    ASSUME NEW x \in Channels, NEW v \in Seq(LeaderVotes)
    PROVE  /\ [x EXCEPT !.leaderVote = v] \in Channels
           /\ [x EXCEPT !.leaderVote = v].leaderVote = v
<1> DEFINE V == Seq(LeaderVotes)
           Q == Seq(Client)
           R == Seq(Rosters)
<1>1. /\ Channels = [leaderVote : V, setLeader : 0..1, deletePeer : Q,
                     updateRoster : R]
      /\ v \in V
  BY DEF Channels
<1> HIDE DEF V, Q, R
<1> QED
  BY <1>1

LEMMA LeaderQueued ==
    ASSUME NEW x \in Channels, NEW v \in 0..1
    PROVE  /\ [x EXCEPT !.setLeader = v] \in Channels
           /\ [x EXCEPT !.setLeader = v].leaderVote = x.leaderVote
<1> DEFINE V == Seq(LeaderVotes)
           Q == Seq(Client)
           R == Seq(Rosters)
<1>1. /\ Channels = [leaderVote : V, setLeader : 0..1, deletePeer : Q,
                     updateRoster : R]
      /\ v \in 0..1
  BY DEF Channels
<1> HIDE DEF V, Q, R
<1> QED
  BY <1>1

LEMMA DeletionQueued ==
    ASSUME NEW x \in Channels, NEW v \in Seq(Client)
    PROVE  /\ [x EXCEPT !.deletePeer = v] \in Channels
           /\ [x EXCEPT !.deletePeer = v].leaderVote = x.leaderVote
<1> DEFINE V == Seq(LeaderVotes)
           Q == Seq(Client)
           R == Seq(Rosters)
<1>1. /\ Channels = [leaderVote : V, setLeader : 0..1, deletePeer : Q,
                     updateRoster : R]
      /\ v \in Q
  BY DEF Channels
<1> HIDE DEF V, Q, R
<1> QED
  BY <1>1

LEMMA RosterQueued ==
    ASSUME NEW x \in Channels, NEW v \in Seq(Rosters)
    PROVE  /\ [x EXCEPT !.updateRoster = v] \in Channels
           /\ [x EXCEPT !.updateRoster = v].leaderVote = x.leaderVote
<1> DEFINE V == Seq(LeaderVotes)
           Q == Seq(Client)
           R == Seq(Rosters)
<1>1. /\ Channels = [leaderVote : V, setLeader : 0..1, deletePeer : Q,
                     updateRoster : R]
      /\ v \in R
  BY DEF Channels
<1> HIDE DEF V, Q, R
<1> QED
  BY <1>1

\* The channels of one client change.
LEMMA ChanStep ==
    ASSUME ChanInv, Monotone, NEW c \in Client, NEW x \in Channels,
           x.leaderVote \in Seq(KnownVotes(Casts)),
           chan' = [chan EXCEPT ![c] = x]
    PROVE  ChanInv'
<1>1. chan' \in [Client -> Channels]
  BY DEF ChanInv
<1>2. \A p \in Client : chan'[p].leaderVote \in Seq(KnownVotes(Casts))
  BY DEF ChanInv
<1> QED
  BY <1>1, <1>2, KnownVotesGrow DEF ChanInv

LEMMA IdleChan ==
    ASSUME ChanInv, Monotone, UNCHANGED chan
    PROVE  ChanInv'
BY KnownVotesGrow DEF ChanInv

LEMMA IdleNet ==
    ASSUME NetInv, Monotone, UNCHANGED net
    PROVE  NetInv'
BY KnownMessagesGrow DEF NetInv

\* Some queues of the network change.
LEMMA NetStep ==
    ASSUME Monotone, NEW N \in [Client -> [Client -> Seq(Messages)]],
           net' = N,
           \A c, d \in Client : N[c][d] \in Seq(KnownMessages(core[c].cast))
    PROVE  NetInv'
BY KnownMessagesGrow DEF NetInv

\* The queue from c to d changes.
LEMMA NetStepOne ==
    ASSUME NetInv, Monotone, NEW c \in Client, NEW d \in Client,
           NEW q \in Seq(KnownMessages(core[c].cast)),
           net' = [net EXCEPT ![c][d] = q]
    PROVE  NetInv'
<1> DEFINE N == [net EXCEPT ![c][d] = q]
<1>1. q \in Seq(Messages)
  BY SeqMonotone DEF KnownMessages
<1>2. N \in [Client -> [Client -> Seq(Messages)]]
  BY <1>1 DEF NetInv
<1>3. \A e, f \in Client :
        N[e][f] = IF e = c /\ f = d THEN q ELSE net[e][f]
  BY DEF NetInv
<1> HIDE DEF N
<1>4. \A e, f \in Client : N[e][f] \in Seq(KnownMessages(core[e].cast))
  BY <1>3 DEF NetInv
<1> QED
  BY <1>2, <1>4, NetStep DEF N

-----------------------------------------------------------------------------
(* Every action preserves the invariant.                                   *)

LEMMA LeaderTimeoutStep ==
    ASSUME IInv, NEW c \in Client, LeaderTimeout(c)
    PROVE  IInv' /\ Monotone
<1> DEFINE t == [core[c] EXCEPT !.c_electLeader = @ + 1]
<1>1. core[c] \in CoreStates /\ Distinct(core[c])
  BY DEF IInv, CoreInv, WellFormed
<1>2. t \in CoreStates /\ SameVotes(core[c], t)
  BY <1>1 DEF CoreStates, SameVotes
<1>3. Distinct(t)
  BY <1>1 DEF Distinct, ListPeers, LeaderSet, CoreStates
<1>4. core' = [core EXCEPT ![c] = t] /\ Up(c)
  BY DEF LeaderTimeout
<1> HIDE DEF t
<1>5. CoreInv' /\ Monotone
  BY <1>2, <1>3, <1>4, QuietStep DEF IInv
<1>6. ChanInv'
  <2> DEFINE x == [chan[c] EXCEPT !.setLeader = 1]
  <2>1. chan' = [chan EXCEPT ![c] = x]
    BY DEF LeaderTimeout
  <2>2. /\ chan[c] \in Channels
        /\ chan[c].leaderVote \in Seq(KnownVotes(Casts))
    BY DEF IInv, ChanInv
  <2>3. x \in Channels /\ x.leaderVote = chan[c].leaderVote
    BY <2>2 DEF Channels
  <2> HIDE DEF x
  <2> QED
    BY <1>5, <2>1, <2>2, <2>3, ChanStep DEF IInv
<1>7. NetInv' /\ TimerInv'
  BY <1>5, IdleNet DEF LeaderTimeout, IInv, TimerInv
<1> QED
  BY <1>5, <1>6, <1>7 DEF IInv

LEMMA HeartbeatAckStep ==
    ASSUME IInv, NEW c \in Client, HeartbeatAck(c)
    PROVE  IInv' /\ Monotone
<1>1. CoreInv' /\ Monotone
  BY IdleCore DEF HeartbeatAck, IInv
<1>2. core[c].leader \in Client \cup {Nil}
  BY DEF IInv, CoreInv, CoreStates
<1> QED
  BY <1>1, <1>2, IdleChan, IdleNet DEF HeartbeatAck, IInv, TimerInv

LEMMA PeerTimeoutStep ==
    ASSUME IInv, NEW c \in Client, NEW p, PeerTimeout(c, p)
    PROVE  IInv' /\ Monotone
<1>1. core[c] \in CoreStates /\ Distinct(core[c])
  BY DEF IInv, CoreInv, WellFormed
<1>2. PICK q \in core[c].peers :
        core' = [core EXCEPT
                   ![c].closing   = @ \cup {q},
                   ![c].timerPeer = IF p \in core[c].timed THEN q ELSE @]
  BY DEF PeerTimeout
<1> DEFINE r == IF p \in core[c].timed THEN q ELSE core[c].timerPeer
           t == [core[c] EXCEPT !.closing = @ \cup {q}, !.timerPeer = r]
<1>3. q \in Client /\ r \in Client \cup {Nil}
  BY <1>1, <1>2 DEF CoreStates
<1>4. core' = [core EXCEPT ![c] = t] /\ Up(c)
  BY <1>2 DEF PeerTimeout
<1> HIDE DEF r
<1>5. t \in CoreStates /\ SameVotes(core[c], t)
  BY <1>1, <1>3 DEF CoreStates, SameVotes
<1>6. Distinct(t)
  BY <1>1 DEF Distinct, ListPeers, LeaderSet, CoreStates
<1> HIDE DEF t
<1>7. CoreInv' /\ Monotone
  BY <1>4, <1>5, <1>6, QuietStep DEF IInv
<1> QED
  BY <1>7, IdleChan, IdleNet DEF PeerTimeout, IInv, TimerInv

LEMMA RetryTimeoutStep ==
    ASSUME IInv, NEW c \in Client, RetryTimeout(c)
    PROVE  IInv' /\ Monotone
<1> DEFINE n == IF core[c].isLeader THEN core[c].retrying
                                    ELSE core[c].retrying + 1
           t == [core[c] EXCEPT !.retry = FALSE, !.retrying = n]
<1>1. core[c] \in CoreStates /\ Distinct(core[c])
  BY DEF IInv, CoreInv, WellFormed
<1>2. core' = [core EXCEPT ![c] = t] /\ Up(c)
  BY DEF RetryTimeout
<1>3. n \in Nat
  BY <1>1 DEF CoreStates
<1> HIDE DEF n
<1>4. t \in CoreStates /\ SameVotes(core[c], t)
  BY <1>1, <1>3 DEF CoreStates, SameVotes
<1>5. Distinct(t)
  BY <1>1 DEF Distinct, ListPeers, LeaderSet, CoreStates
<1> HIDE DEF t
<1>6. CoreInv' /\ Monotone
  BY <1>2, <1>4, <1>5, QuietStep DEF IInv
<1> QED
  BY <1>6, IdleChan, IdleNet DEF RetryTimeout, IInv, TimerInv

LEMMA RetryElectionStep ==
    ASSUME IInv, NEW c \in Client, RetryElection(c)
    PROVE  IInv' /\ Monotone
<1> DEFINE n == IF core[c].leader = Nil THEN core[c].c_electLeader + 1
                                        ELSE core[c].c_electLeader
           m == core[c].retrying - 1
           t == [core[c] EXCEPT !.retrying = m, !.c_electLeader = n]
<1>1. core[c] \in CoreStates /\ Distinct(core[c])
  BY DEF IInv, CoreInv, WellFormed
<1>2. core' = [core EXCEPT ![c] = t] /\ Up(c)
  BY DEF RetryElection
<1>3. n \in Nat /\ m \in Nat
  BY <1>1 DEF CoreStates, RetryElection
<1> HIDE DEF n, m
<1>4. t \in CoreStates /\ SameVotes(core[c], t)
  BY <1>1, <1>3 DEF CoreStates, SameVotes
<1>5. Distinct(t)
  BY <1>1 DEF Distinct, ListPeers, LeaderSet, CoreStates
<1> HIDE DEF t
<1>6. CoreInv' /\ Monotone
  BY <1>2, <1>4, <1>5, QuietStep DEF IInv
<1> QED
  BY <1>6, IdleChan, IdleNet DEF RetryElection, IInv, TimerInv

LEMMA CrashStep ==
    ASSUME IInv, NEW c \in Client, Crash(c)
    PROVE  IInv' /\ Monotone
<1> DEFINE t == [core[c] EXCEPT !.status = "down"]
           N == [d \in Client |-> [net[d] EXCEPT ![c] = <<>>]]
<1>1. core[c] \in CoreStates /\ Distinct(core[c])
  BY DEF IInv, CoreInv, WellFormed
<1>2. t \in CoreStates /\ SameVotes(core[c], t) /\ t.status = "down"
  BY <1>1 DEF CoreStates, SameVotes, Statuses
<1>3. Distinct(t)
  BY <1>1 DEF Distinct, ListPeers, LeaderSet, CoreStates
<1>4. core' = [core EXCEPT ![c] = t] /\ net' = N
  BY DEF Crash
<1>5. N \in [Client -> [Client -> Seq(Messages)]]
  BY DEF IInv, NetInv
<1>6. \A d, e \in Client : N[d][e] = IF e = c THEN <<>> ELSE net[d][e]
  BY DEF IInv, NetInv
<1> HIDE DEF t, N
<1>7. CoreInv' /\ Monotone
  BY <1>2, <1>3, <1>4, QuietStep DEF IInv
<1>8. \A d, e \in Client : N[d][e] \in Seq(KnownMessages(core[d].cast))
  <2>1. TAKE d, e \in Client
  <2> DEFINE S == KnownMessages(core[d].cast)
  <2>2. net[d][e] \in Seq(S)
    BY DEF IInv, NetInv
  <2> HIDE DEF S
  <2>3. <<>> \in Seq(S)
    OBVIOUS
  <2>4. N[d][e] = <<>> \/ N[d][e] = net[d][e]
    BY <1>6
  <2>5. N[d][e] \in Seq(S)
    BY <2>2, <2>3, <2>4, Zenon
  <2> QED
    BY <2>5 DEF S
<1>9. NetInv'
  BY <1>4, <1>5, <1>7, <1>8, NetStep
<1> QED
  BY <1>7, <1>9, IdleChan DEF Crash, IInv, TimerInv

LEMMA ConnectionLostStep ==
    ASSUME IInv, NEW c \in Client, NEW p, ConnectionLost(c, p)
    PROVE  IInv' /\ Monotone
<1> DEFINE x == [chan[c] EXCEPT !.deletePeer = Append(@, p)]
<1>1. core[c] \in CoreStates
  BY DEF IInv, CoreInv
<1>2. p \in Client
  BY <1>1 DEF CoreStates, ConnectionLost
<1>3. PICK left \in SUBSET {p} :
        core' = [core EXCEPT ![c].closing = @ \ {p}, ![c].full = @ \cup left]
  BY DEF ConnectionLost
<1>4. chan' = [chan EXCEPT ![c] = x]
  BY DEF ConnectionLost
<1>5. /\ chan[c] \in Channels
      /\ chan[c].leaderVote \in Seq(KnownVotes(Casts))
  BY DEF IInv, ChanInv
<1>6. x \in Channels /\ x.leaderVote = chan[c].leaderVote
  <2> DEFINE q == Append(chan[c].deletePeer, p)
  <2>1. q \in Seq(Client)
    BY <1>2, <1>5 DEF Channels
  <2>2. x = [chan[c] EXCEPT !.deletePeer = q]
    OBVIOUS
  <2> HIDE DEF q, x
  <2> QED
    BY <1>5, <2>1, <2>2, DeletionQueued
<1> HIDE DEF x
<1>7. CoreInv' /\ Monotone
  <2> DEFINE C == core[c].closing \ {p}
             F == core[c].full \cup left
  <2>1. C \in SUBSET Client /\ F \in SUBSET Client
    BY <1>1, <1>2, <1>3 DEF CoreStates
  <2>2. core' = [core EXCEPT ![c].closing = C, ![c].full = F]
    BY <1>3
  <2> HIDE DEF C, F
  <2> QED
    BY <2>1, <2>2, SignalStep DEF IInv
<1>8. ChanInv'
  BY <1>4, <1>5, <1>6, <1>7, ChanStep DEF IInv
<1> QED
  BY <1>7, <1>8, IdleNet DEF ConnectionLost, IInv, TimerInv

LEMMA WriterExitStep ==
    ASSUME IInv, NEW c \in Client, NEW p, WriterExit(c, p)
    PROVE  IInv' /\ Monotone
<1> DEFINE x == [chan[c] EXCEPT !.deletePeer = Append(@, p)]
<1>1. core[c] \in CoreStates
  BY DEF IInv, CoreInv
<1>2. p \in Client
  BY <1>1 DEF CoreStates, WriterExit
<1>3. PICK left \in SUBSET {p} :
        core' = [core EXCEPT ![c].closing = @ \ {p}, ![c].full = @ \cup left]
  BY DEF WriterExit
<1>4. chan' = [chan EXCEPT ![c] = x]
  BY DEF WriterExit
<1>5. /\ chan[c] \in Channels
      /\ chan[c].leaderVote \in Seq(KnownVotes(Casts))
  BY DEF IInv, ChanInv
<1>6. x \in Channels /\ x.leaderVote = chan[c].leaderVote
  <2> DEFINE q == Append(chan[c].deletePeer, p)
  <2>1. q \in Seq(Client)
    BY <1>2, <1>5 DEF Channels
  <2>2. x = [chan[c] EXCEPT !.deletePeer = q]
    OBVIOUS
  <2> HIDE DEF q, x
  <2> QED
    BY <1>5, <2>1, <2>2, DeletionQueued
<1> HIDE DEF x
<1>7. CoreInv' /\ Monotone
  <2> DEFINE C == core[c].closing \ {p}
             F == core[c].full \cup left
  <2>1. C \in SUBSET Client /\ F \in SUBSET Client
    BY <1>1, <1>2, <1>3 DEF CoreStates
  <2>2. core' = [core EXCEPT ![c].closing = C, ![c].full = F]
    BY <1>3
  <2> HIDE DEF C, F
  <2> QED
    BY <2>1, <2>2, SignalStep DEF IInv
<1>8. ChanInv'
  BY <1>4, <1>5, <1>6, <1>7, ChanStep DEF IInv
<1>9. NetInv'
  <2>1. PICK written \in 0..Len(net[c][p]) :
          net' = [net EXCEPT ![c][p] = SubSeq(@, 1, written)]
    BY DEF WriterExit
  <2> DEFINE S == KnownMessages(core[c].cast)
             q == SubSeq(net[c][p], 1, written)
  <2>2. net[c][p] \in Seq(S)
    BY <1>2 DEF IInv, NetInv
  <2>3. q \in Seq(S)
    <3> HIDE DEF S
    <3> QED BY <2>2
  <2>4. net' = [net EXCEPT ![c][p] = q]
    BY <2>1
  <2> HIDE DEF q
  <2> QED
    BY <1>2, <1>7, <2>3, <2>4, NetStepOne DEF IInv
<1> QED
  BY <1>7, <1>8, <1>9 DEF WriterExit, IInv, TimerInv

\* The leader's connection breaks and its CloseChannel is left full.
LEMMA LeaderConnectionLostStep ==
    ASSUME IInv, NEW c \in Client, LeaderConnectionLost(c)
    PROVE  IInv' /\ Monotone /\ Adopted(core[c], core'[c])
           /\ \A d \in Client \ {c} : core'[d] = core[d]
<1> DEFINE C == core[c].closing
           F == core[c].full \cup {core[c].leader}
<1>1. core[c] \in CoreStates /\ core \in [Client -> CoreStates]
  BY DEF IInv, CoreInv
<1>2. C \in SUBSET Client /\ F \in SUBSET Client
  BY <1>1 DEF CoreStates, LeaderConnectionLost
<1>3. core' = [core EXCEPT ![c].closing = C, ![c].full = F]
  BY <1>1 DEF LeaderConnectionLost, CoreStates
<1> HIDE DEF C, F
<1>4. /\ CoreInv' /\ Monotone
      /\ \A d \in Client \ {c} : core'[d] = core[d]
      /\ core'[c].leader = core[c].leader
  BY <1>2, <1>3, SignalStep DEF IInv
<1> QED
  BY <1>4, IdleChan, IdleNet DEF LeaderConnectionLost, IInv, TimerInv, Adopted

LEMMA BroadcastStep ==
    ASSUME NetInv, Monotone, NEW c \in Client,
           NEW m \in KnownMessages(core[c].cast), BroadcastToPeers(c, m)
    PROVE  NetInv'
<1> DEFINE to  == {d \in ListPeers(core[c]) \ core[c].loopback : Up(d)}
           row == [d \in Client |-> IF d \in to THEN Append(net[c][d], m)
                                                ELSE net[c][d]]
           N   == [net EXCEPT ![c] = row]
<1>1. net' = N
  BY DEF BroadcastToPeers
<1> HIDE DEF to
<1>2. \A d \in Client : row[d] \in Seq(KnownMessages(core[c].cast))
  <2>1. TAKE d \in Client
  <2> DEFINE S == KnownMessages(core[c].cast)
  <2>2. net[c][d] \in Seq(S) /\ m \in S
    BY DEF NetInv
  <2> HIDE DEF S
  <2>3. Append(net[c][d], m) \in Seq(S)
    BY <2>2
  <2>4. row[d] = Append(net[c][d], m) \/ row[d] = net[c][d]
    OBVIOUS
  <2> HIDE DEF row
  <2>5. row[d] \in Seq(S)
    BY <2>2, <2>3, <2>4, Zenon
  <2> QED
    BY <2>5 DEF S
<1>3. row \in [Client -> Seq(Messages)]
  <2>1. \A d \in Client : row[d] \in Seq(Messages)
    <3> HIDE DEF row
    <3> QED BY <1>2, SeqMonotone DEF KnownMessages
  <2> QED
    BY <2>1
<1> HIDE DEF row
<1>4. N \in [Client -> [Client -> Seq(Messages)]]
  BY <1>3 DEF NetInv
<1>5. \A d \in Client : N[d] = IF d = c THEN row ELSE net[d]
  BY DEF NetInv
<1> HIDE DEF N
<1>6. \A d, e \in Client : N[d][e] \in Seq(KnownMessages(core[d].cast))
  <2>1. TAKE d, e \in Client
  <2>2. CASE d = c
    BY <1>2, <1>5, <2>2
  <2>3. CASE d # c
    BY <1>5, <2>3 DEF NetInv
  <2> QED
    BY <2>2, <2>3
<1> QED
  BY <1>1, <1>4, <1>6, NetStep

LEMMA SendVoteStep ==
    ASSUME IInv, NEW c \in Client, NEW b, SendVote(c, b)
    PROVE  IInv' /\ Monotone
<1> DEFINE s == core[c]
           t == [s EXCEPT !.broadcasts = @ \ {b}]
           m == [type |-> "LeaderVote", N |-> b.N, Vote |-> b.Vote]
<1>1. s \in CoreStates /\ WellFormed(s, Casts) /\ LastRound(s)
  BY DEF IInv, CoreInv, WellFormed, SendVote
<1>2. t \in CoreStates
  BY <1>1 DEF CoreStates
<1>3. /\ t.Id = s.Id /\ t.isLeader = s.isLeader /\ t.leader = s.leader
      /\ t.peers = s.peers /\ t.voteRound = s.voteRound
      /\ t.nextVoteRoundN = s.nextVoteRoundN /\ t.cast = s.cast
      /\ t.decided = s.decided /\ t.broadcasts = s.broadcasts \ {b}
  BY <1>1 DEF CoreStates
<1>4. /\ core' = [core EXCEPT ![c] = t] /\ b \in s.broadcasts
      /\ BroadcastToPeers(c, m)
  BY DEF SendVote
<1>5. b \in CastVotes /\ b \in s.cast
  BY <1>1, <1>4 DEF CoreStates, WellFormed, VotesInOrder
<1>6. m \in KnownMessages(s.cast)
  <2>1. b = [N |-> b.N, Vote |-> b.Vote]
    BY <1>5 DEF CastVotes
  <2>2. m \in [type : {"LeaderVote"}, N : Nat, Vote : Client]
    BY <1>5 DEF CastVotes
  <2> QED
    BY <1>5, <2>1, <2>2 DEF KnownMessages, Messages
<1> HIDE DEF s, t, m
<1>7. WellFormed(t, Casts)
  <2>1. Distinct(t)
    BY <1>1, <1>3 DEF WellFormed, Distinct, ListPeers, LeaderSet
  <2>2. VotesInOrder(t)
    BY <1>1, <1>3 DEF WellFormed, VotesInOrder
  <2>3. VotesKnown(t, Casts)
    BY <1>1, <1>3 DEF WellFormed, VotesKnown
  <2> QED
    BY <1>2, <2>1, <2>2, <2>3 DEF WellFormed
<1>8. Follows(s, t) /\ LastRound(t)
  BY <1>1, <1>3 DEF Follows, LastRound, CoreStates
<1>9. CoreInv' /\ Monotone
  BY <1>4, <1>7, <1>8, CoreStep DEF IInv, s
<1>10. NetInv'
  BY <1>4, <1>6, <1>9, BroadcastStep DEF IInv, s
<1> QED
  BY <1>9, <1>10, IdleChan DEF SendVote, IInv, TimerInv

LEMMA SyncRosterStep ==
    ASSUME IInv, NEW c \in Client, SyncRoster(c)
    PROVE  IInv' /\ Monotone
<1> DEFINE t == [core[c] EXCEPT !.syncRoster = FALSE]
           r == GetRoster(core[c])
           m == [type |-> "RosterUpdate", roster |-> r]
<1>1. core[c] \in CoreStates /\ Distinct(core[c])
  BY DEF IInv, CoreInv, WellFormed
<1>2. t \in CoreStates /\ SameVotes(core[c], t)
  BY <1>1 DEF CoreStates, SameVotes
<1>3. Distinct(t)
  BY <1>1 DEF Distinct, ListPeers, LeaderSet, CoreStates
<1>4. /\ core' = [core EXCEPT ![c] = t] /\ Up(c) /\ BroadcastToPeers(c, m)
  BY DEF SyncRoster
<1>5. r \in Rosters
  BY <1>1 DEF GetRoster, Rosters, ListPeers, LeaderSet, CoreStates
<1> HIDE DEF r
<1>6. m \in KnownMessages(core[c].cast)
  BY <1>5 DEF KnownMessages, Messages
<1> HIDE DEF t, m
<1>7. CoreInv' /\ Monotone
  BY <1>2, <1>3, <1>4, QuietStep DEF IInv
<1>8. NetInv'
  BY <1>4, <1>6, <1>7, BroadcastStep DEF IInv
<1> QED
  BY <1>7, <1>8, IdleChan DEF SyncRoster, IInv, TimerInv

\* Taking the first message of a queue.
LEMMA TailStep ==
    ASSUME NetInv, Monotone, NEW c \in Client, NEW d \in Client,
           net[d][c] # <<>>, net' = [net EXCEPT ![d][c] = Tail(@)]
    PROVE  NetInv' /\ Head(net[d][c]) \in KnownMessages(core[d].cast)
<1> DEFINE S == KnownMessages(core[d].cast)
           q == Tail(net[d][c])
<1>1. net[d][c] \in Seq(S)
  BY DEF NetInv
<1>2. Head(net[d][c]) \in S /\ q \in Seq(S)
  <2> HIDE DEF S
  <2> QED BY <1>1, HeadTailProperties
<1>3. net' = [net EXCEPT ![d][c] = q]
  OBVIOUS
<1> HIDE DEF q
<1>4. NetInv'
  BY <1>2, <1>3, NetStepOne
<1> QED
  BY <1>2, <1>4

LEMMA ReceiveVoteStep ==
    ASSUME IInv, NEW c \in Client, NEW d \in Client, ReceiveVote(c, d)
    PROVE  IInv' /\ Monotone
<1> DEFINE m == Head(net[d][c])
           v == [N |-> m.N, Vote |-> m.Vote, Sender |-> d]
<1>1. CoreInv' /\ Monotone
  BY IdleCore DEF ReceiveVote, IInv
<1>2. NetInv' /\ m \in KnownMessages(core[d].cast)
  BY <1>1, TailStep DEF ReceiveVote, IInv
<1>3. m.type = "LeaderVote"
  BY DEF ReceiveVote
<1>4. v \in KnownVotes(Casts)
  <2>1. m \in [type : {"LeaderVote"}, N : Nat, Vote : Client]
    BY <1>2, <1>3 DEF KnownMessages, Messages
  <2>2. [N |-> m.N, Vote |-> m.Vote] \in core[d].cast
    BY <1>2, <1>3 DEF KnownMessages
  <2> HIDE DEF m
  <2>3. v \in LeaderVotes
    BY <2>1 DEF LeaderVotes
  <2>4. [N |-> v.N, Vote |-> v.Vote] \in Casts[v.Sender]
    BY <2>2 DEF Casts
  <2> QED
    BY <2>3, <2>4 DEF KnownVotes
<1>5. \/ UNCHANGED chan
      \/ chan' = [chan EXCEPT ![c].leaderVote = Append(@, v)]
  BY DEF ReceiveVote
<1> HIDE DEF m, v
<1>6. CASE chan' = [chan EXCEPT ![c].leaderVote = Append(@, v)]
  <2> DEFINE S == KnownVotes(Casts)
             q == Append(chan[c].leaderVote, v)
             x == [chan[c] EXCEPT !.leaderVote = q]
  <2>1. chan[c] \in Channels /\ chan[c].leaderVote \in Seq(S)
    BY DEF IInv, ChanInv
  <2>2. q \in Seq(S)
    <3>1. v \in S
      BY <1>4
    <3> HIDE DEF S
    <3> QED BY <2>1, <3>1
  <2>3. q \in Seq(LeaderVotes)
    <3> HIDE DEF q
    <3> QED BY <2>2, SeqMonotone DEF KnownVotes
  <2>4. chan' = [chan EXCEPT ![c] = x]
    BY <1>6
  <2> HIDE DEF q
  <2>5. x \in Channels /\ x.leaderVote = q
    BY <2>1, <2>3, VoteQueued
  <2> HIDE DEF x
  <2>6. ChanInv'
    BY <1>1, <2>2, <2>4, <2>5, ChanStep DEF IInv
  <2> QED
    BY <1>1, <1>2, <2>6 DEF ReceiveVote, IInv, TimerInv
<1>7. CASE UNCHANGED chan
  BY <1>1, <1>2, <1>7, IdleChan DEF ReceiveVote, IInv, TimerInv
<1> QED
  BY <1>5, <1>6, <1>7

LEMMA ReceiveRosterStep ==
    ASSUME IInv, NEW c \in Client, NEW d \in Client, ReceiveRoster(c, d)
    PROVE  IInv' /\ Monotone
<1> DEFINE m == Head(net[d][c])
<1>1. CoreInv' /\ Monotone
  BY IdleCore DEF ReceiveRoster, IInv
<1>2. NetInv' /\ m \in KnownMessages(core[d].cast)
  BY <1>1, TailStep DEF ReceiveRoster, IInv
<1>3. m.type = "RosterUpdate"
  BY DEF ReceiveRoster
<1>4. m.roster \in Rosters
  BY <1>2, <1>3 DEF KnownMessages, Messages
<1>5. \/ UNCHANGED chan
      \/ chan' = [chan EXCEPT ![c].updateRoster = Append(@, m.roster)]
  BY DEF ReceiveRoster
<1> HIDE DEF m
<1>6. CASE chan' = [chan EXCEPT ![c].updateRoster = Append(@, m.roster)]
  <2> DEFINE q == Append(chan[c].updateRoster, m.roster)
             x == [chan[c] EXCEPT !.updateRoster = q]
  <2>1. /\ chan[c] \in Channels /\ chan[c].updateRoster \in Seq(Rosters)
        /\ chan[c].leaderVote \in Seq(KnownVotes(Casts))
    BY DEF IInv, ChanInv, Channels
  <2>2. q \in Seq(Rosters)
    BY <1>4, <2>1
  <2>3. chan' = [chan EXCEPT ![c] = x]
    BY <1>6
  <2> HIDE DEF q
  <2>4. x \in Channels /\ x.leaderVote = chan[c].leaderVote
    BY <2>1, <2>2, RosterQueued
  <2> HIDE DEF x
  <2>5. ChanInv'
    BY <1>1, <2>1, <2>3, <2>4, ChanStep DEF IInv
  <2> QED
    BY <1>1, <1>2, <2>5 DEF ReceiveRoster, IInv, TimerInv
<1>7. CASE UNCHANGED chan
  BY <1>1, <1>2, <1>7, IdleChan DEF ReceiveRoster, IInv, TimerInv
<1> QED
  BY <1>5, <1>6, <1>7

LEMMA DoSetLeaderStep ==
    ASSUME IInv, NEW c \in Client, DoSetLeader(c)
    PROVE  IInv' /\ Monotone
<1> DEFINE t == setLeader(core[c], Nil)
           n == chan[c].setLeader - 1
           x == [chan[c] EXCEPT !.setLeader = n]
<1>1. WellFormed(core[c], Casts) /\ LastRound(core[c])
  BY DEF IInv, CoreInv, DoSetLeader
<1>2. /\ core' = [core EXCEPT ![c] = t]
      /\ chan' = [chan EXCEPT ![c] = x] /\ chan[c].setLeader > 0
  BY DEF DoSetLeader, Become
<1>3. WellFormed(t, Casts) /\ SameVotes(core[c], t)
  BY <1>1, SetLeaderWellFormed
<1>4. /\ chan[c] \in Channels /\ chan[c].setLeader \in 0..1
      /\ chan[c].leaderVote \in Seq(KnownVotes(Casts))
  BY DEF IInv, ChanInv, Channels
<1>5. x \in Channels /\ x.leaderVote = chan[c].leaderVote
  <2>1. n \in 0..1
    BY <1>2, <1>4
  <2> HIDE DEF n
  <2> QED
    BY <1>4, <2>1, LeaderQueued
<1> HIDE DEF t, x
<1>6. Follows(core[c], t) /\ LastRound(t)
  BY <1>1, <1>3, SameVotesFollows
<1>7. CoreInv' /\ Monotone
  BY <1>2, <1>3, <1>6, CoreStep DEF IInv
<1>8. ChanInv'
  BY <1>2, <1>4, <1>5, <1>7, ChanStep DEF IInv
<1> QED
  BY <1>7, <1>8, IdleNet DEF DoSetLeader, IInv, TimerInv

LEMMA DoElectLeaderStep ==
    ASSUME IInv, NEW c \in Client, DoElectLeader(c)
    PROVE  IInv' /\ Monotone
<1> DEFINE u == [core[c] EXCEPT !.c_electLeader = @ - 1]
           t == electNewLeader(u)
<1>1. WellFormed(core[c], Casts) /\ LastRound(core[c])
  BY DEF IInv, CoreInv, DoElectLeader
<1>2. core' = [core EXCEPT ![c] = t] /\ core[c].c_electLeader > 0
  BY DEF DoElectLeader, Become
<1>3. u \in CoreStates /\ SameVotes(core[c], u)
  BY <1>1, <1>2 DEF WellFormed, CoreStates, SameVotes
<1>4. Distinct(u)
  BY <1>1 DEF WellFormed, Distinct, ListPeers, LeaderSet, CoreStates
<1> HIDE DEF u
<1>5. WellFormed(u, Casts) /\ Follows(core[c], u) /\ LastRound(u)
  BY <1>1, <1>3, <1>4, SameVotesWellFormed, SameVotesFollows
<1>6. /\ WellFormed(t, Casts) /\ Follows(u, t)
      /\ SameVotes(u, t) \/ LastRound(t)
  BY <1>5, ElectNewLeaderWellFormed
<1> HIDE DEF t
<1>7. LastRound(t)
  BY <1>5, <1>6, SameVotesFollows
<1>8. Follows(core[c], t)
  BY <1>3, <1>6 DEF Follows, SameVotes
<1>9. CoreInv' /\ Monotone
  BY <1>2, <1>6, <1>7, <1>8, CoreStep DEF IInv
<1> QED
  BY <1>9, IdleChan, IdleNet DEF DoElectLeader, IInv, TimerInv

LEMMA DoLeaderVoteStep ==
    ASSUME IInv, NEW c \in Client, DoLeaderVote(c)
    PROVE  IInv' /\ Monotone
<1> DEFINE S == KnownVotes(Casts)
           v == Head(chan[c].leaderVote)
           q == Tail(chan[c].leaderVote)
           t == acceptLeaderVote(core[c], v)
           x == [chan[c] EXCEPT !.leaderVote = q]
<1>1. WellFormed(core[c], Casts) /\ LastRound(core[c])
  BY DEF IInv, CoreInv, DoLeaderVote
<1>2. /\ core' = [core EXCEPT ![c] = t]
      /\ chan' = [chan EXCEPT ![c] = x] /\ chan[c].leaderVote # <<>>
  BY DEF DoLeaderVote, Become
<1>3. chan[c] \in Channels /\ chan[c].leaderVote \in Seq(S)
  BY DEF IInv, ChanInv
<1>4. v \in S /\ q \in Seq(S)
  <2> HIDE DEF S
  <2> QED BY <1>2, <1>3, HeadTailProperties
<1>5. v \in LeaderVotes /\ [N |-> v.N, Vote |-> v.Vote] \in Casts[v.Sender]
  BY <1>4 DEF KnownVotes
<1> HIDE DEF v, q
<1>6. q \in Seq(LeaderVotes)
  BY <1>4, SeqMonotone DEF KnownVotes
<1>7. x \in Channels /\ x.leaderVote = q
  BY <1>3, <1>6, VoteQueued
<1>8. /\ WellFormed(t, Casts) /\ Follows(core[c], t)
      /\ t.status = "up" => LastRound(t)
  BY <1>1, <1>5, AcceptLeaderVoteWellFormed
<1> HIDE DEF t, x
<1>9. CoreInv' /\ Monotone
  BY <1>2, <1>8, CoreStep DEF IInv
<1>10. ChanInv'
  BY <1>2, <1>4, <1>7, <1>9, ChanStep DEF IInv
<1> QED
  BY <1>9, <1>10, IdleNet DEF DoLeaderVote, IInv, TimerInv

LEMMA DoDeletePeerStep ==
    ASSUME IInv, NEW c \in Client, DoDeletePeer(c)
    PROVE  IInv' /\ Monotone
<1> DEFINE t == deletePeer(core[c], Head(chan[c].deletePeer))
           q == Tail(chan[c].deletePeer)
           x == [chan[c] EXCEPT !.deletePeer = q]
<1>1. WellFormed(core[c], Casts) /\ LastRound(core[c])
  BY DEF IInv, CoreInv, DoDeletePeer
<1>2. /\ core' = [core EXCEPT ![c] = t]
      /\ chan' = [chan EXCEPT ![c] = x] /\ chan[c].deletePeer # <<>>
  BY DEF DoDeletePeer, Become
<1>3. WellFormed(t, Casts) /\ SameVotes(core[c], t)
  BY <1>1, DeletePeerWellFormed
<1>4. /\ chan[c] \in Channels /\ chan[c].deletePeer \in Seq(Client)
      /\ chan[c].leaderVote \in Seq(KnownVotes(Casts))
  BY DEF IInv, ChanInv, Channels
<1>5. q \in Seq(Client)
  BY <1>2, <1>4, HeadTailProperties
<1> HIDE DEF q
<1>6. x \in Channels /\ x.leaderVote = chan[c].leaderVote
  BY <1>4, <1>5, DeletionQueued
<1> HIDE DEF t, x
<1>7. Follows(core[c], t) /\ LastRound(t)
  BY <1>1, <1>3, SameVotesFollows
<1>8. CoreInv' /\ Monotone
  BY <1>2, <1>3, <1>7, CoreStep DEF IInv
<1>9. ChanInv'
  BY <1>2, <1>4, <1>6, <1>8, ChanStep DEF IInv
<1> QED
  BY <1>8, <1>9, IdleNet DEF DoDeletePeer, IInv, TimerInv

LEMMA DoUpdateRosterStep ==
    ASSUME IInv, NEW c \in Client, DoUpdateRoster(c)
    PROVE  IInv' /\ Monotone
<1> DEFINE r == Head(chan[c].updateRoster)
           q == Tail(chan[c].updateRoster)
           x == [chan[c] EXCEPT !.updateRoster = q]
<1>1. WellFormed(core[c], Casts) /\ LastRound(core[c])
  BY DEF IInv, CoreInv, DoUpdateRoster
<1>2. chan' = [chan EXCEPT ![c] = x] /\ chan[c].updateRoster # <<>>
  BY DEF DoUpdateRoster
<1>3. /\ chan[c] \in Channels /\ chan[c].updateRoster \in Seq(Rosters)
      /\ chan[c].leaderVote \in Seq(KnownVotes(Casts))
  BY DEF IInv, ChanInv, Channels
<1>4. q \in Seq(Rosters) /\ r \in Rosters
  BY <1>2, <1>3, HeadTailProperties
<1>5. PICK dialled \in SUBSET ToDial(core[c], r) :
        core' = [core EXCEPT ![c] = updateRoster(core[c], r, dialled)]
  BY DEF DoUpdateRoster, Become
<1> DEFINE t == updateRoster(core[c], r, dialled)
<1> HIDE DEF q, r
<1>6. x \in Channels /\ x.leaderVote = chan[c].leaderVote
  BY <1>3, <1>4, RosterQueued
<1>7. WellFormed(t, Casts) /\ SameVotes(core[c], t)
  BY <1>1, <1>4, UpdateRosterWellFormed
<1>8. core' = [core EXCEPT ![c] = t]
  BY <1>5
<1> HIDE DEF t, x
<1>9. Follows(core[c], t) /\ LastRound(t)
  BY <1>1, <1>7, SameVotesFollows
<1>10. CoreInv' /\ Monotone
  BY <1>7, <1>8, <1>9, CoreStep DEF IInv
<1>11. ChanInv'
  BY <1>2, <1>3, <1>6, <1>10, ChanStep DEF IInv
<1> QED
  BY <1>10, <1>11, IdleNet DEF DoUpdateRoster, IInv, TimerInv

-----------------------------------------------------------------------------
(* The theorems.                                                           *)

\* A session in which everyone has joined satisfies the invariant.
LEMMA InitInv == Init => IInv
<1> SUFFICES ASSUME Init PROVE IInv
  OBVIOUS
<1>1. CoreInv
  <2>1. NoRound.Votes = [p \in Client |-> Nil]
    BY DEF NoRound
  <2>2. ASSUME NEW c \in Client
        PROVE  /\ core[c] \in CoreStates
               /\ core[c].Id = c
               /\ core[c].isLeader => core[c].leader = Nil
               /\ core[c].leader = IF c = FirstLeader THEN Nil ELSE FirstLeader
               /\ core[c].peers = Client \ {c, FirstLeader}
               /\ core[c].voteRound = NoRound
               /\ core[c].broadcasts = {} /\ core[c].cast = {}
               /\ core[c].decided = {}
    BY ElectionAssumption DEF Init, CoreStates, Statuses
  <2>3. core \in [Client -> CoreStates]
    <3>1. core = [c \in Client |-> core[c]]
      BY DEF Init
    <3> QED
      BY <2>2, <3>1
  <2>4. ASSUME NEW c \in Client
        PROVE  Distinct(core[c])
    <3>1. /\ core[c].leader \notin core[c].peers
          /\ c \notin core[c].peers /\ c # core[c].leader
      BY <2>2, ClientAssumption, ElectionAssumption
    <3> QED
      BY <2>2, <3>1 DEF Distinct, ListPeers, LeaderSet
  <2>5. ASSUME NEW c \in Client
        PROVE  VotesInOrder(core[c]) /\ LastRound(core[c])
    BY <2>2 DEF VotesInOrder, LastRound
  <2>6. ASSUME NEW c \in Client
        PROVE  VotesKnown(core[c], Casts)
    BY <2>1, <2>2 DEF VotesKnown
  <2> QED
    BY <2>2, <2>3, <2>4, <2>5, <2>6 DEF CoreInv, WellFormed
<1>2. ChanInv
  <2> DEFINE x == [leaderVote |-> <<>>, setLeader |-> 0,
                   deletePeer |-> <<>>, updateRoster |-> <<>>]
  <2>1. x \in Channels /\ x.leaderVote = <<>>
    BY DEF Channels
  <2>2. chan = [c \in Client |-> x]
    BY DEF Init
  <2>3. <<>> \in Seq(KnownVotes(Casts))
    OBVIOUS
  <2> HIDE DEF x
  <2> QED
    BY <2>1, <2>2, <2>3 DEF ChanInv
<1>3. NetInv
  <2>1. net = [c \in Client |-> [d \in Client |-> <<>>]]
    BY DEF Init
  <2>2. <<>> \in Seq(Messages)
    OBVIOUS
  <2>3. ASSUME NEW c \in Client
        PROVE  <<>> \in Seq(KnownMessages(core[c].cast))
    OBVIOUS
  <2> QED
    BY <2>1, <2>2, <2>3 DEF NetInv
<1>4. TimerInv
  BY ElectionAssumption DEF Init, TimerInv
<1> QED
  BY <1>1, <1>2, <1>3, <1>4 DEF IInv

\* Every step preserves the invariant, and forgets no vote and no round.
LEMMA NextInv == IInv /\ [Next]_vars => IInv' /\ Monotone
<1> SUFFICES ASSUME IInv, [Next]_vars PROVE IInv' /\ Monotone
  OBVIOUS
<1>1. CASE UNCHANGED vars
  BY <1>1, IdleCore, IdleChan, IdleNet DEF vars, IInv, TimerInv
<1>2. CASE Next
  <2>1. PICK c \in Client :
          \/ Actor(c) \/ Goroutines(c) \/ EventLoop(c) \/ Timers(c)
          \/ LeaderConnectionLost(c) \/ Crash(c)
    BY <1>2 DEF Next
  <2>2. CASE Actor(c)
    BY <2>2, DoSetLeaderStep, DoElectLeaderStep, DoLeaderVoteStep,
       DoDeletePeerStep, DoUpdateRosterStep DEF Actor
  <2>3. CASE Goroutines(c)
    BY <2>3, SyncRosterStep, RetryElectionStep, SendVoteStep,
       WriterExitStep, ConnectionLostStep DEF Goroutines
  <2>4. CASE EventLoop(c)
    BY <2>4, ReceiveVoteStep, ReceiveRosterStep DEF EventLoop
  <2>5. CASE Timers(c)
    BY <2>5, LeaderTimeoutStep, HeartbeatAckStep, RetryTimeoutStep,
       PeerTimeoutStep DEF Timers
  <2>6. CASE LeaderConnectionLost(c) \/ Crash(c)
    BY <2>6, LeaderConnectionLostStep, CrashStep
  <2> QED
    BY <2>1, <2>2, <2>3, <2>4, <2>5, <2>6
<1> QED
  BY <1>1, <1>2

\* The inductive invariant holds in every reachable state.
LEMMA Invariance == Spec => []IInv
<1>1. Init => IInv
  BY InitInv
<1>2. IInv /\ [Next]_vars => IInv'
  BY NextInv
<1> QED
  BY <1>1, <1>2, PTL DEF Spec

\* The state of the actors, their channels and the network keep their types.
THEOREM TypeCorrect == Spec => []TypeOK
<1>1. IInv => TypeOK
  BY DEF IInv, CoreInv, ChanInv, NetInv, TimerInv, TypeOK
<1> QED
  BY <1>1, Invariance, PTL

\* A leader follows nobody, and nobody's leader is counted among its peers:
\* peerCount in acceptLeaderVote counts every voter once.
THEOREM LeaderNeverPeer == Spec => []LeaderNotPeer
<1>1. IInv => LeaderNotPeer
  BY DEF IInv, CoreInv, WellFormed, Distinct, LeaderNotPeer
<1> QED
  BY <1>1, Invariance, PTL

\* No client votes twice in a round, however often electNewLeader,
\* electSpecificLeader and acceptLeaderVote restart the election.
THEOREM VoteOnce == Spec => []OneVotePerRound
<1>1. IInv => OneVotePerRound
  BY DEF IInv, CoreInv, WellFormed, VotesInOrder, OneVotePerRound
<1> QED
  BY <1>1, Invariance, PTL

\* acceptLeaderVote counts the votes that were cast, in the round they were
\* cast in.
THEOREM HonestCount == Spec => []CountedVotesWereCast
<1>1. IInv => CountedVotesWereCast
  <2>1. ASSUME IInv, NEW c \in Client, NEW p \in Client
        PROVE  /\ core[c].voteRound.Votes[p] # Nil =>
                    [N |-> core[c].voteRound.N,
                     Vote |-> core[c].voteRound.Votes[p]] \in core[p].cast
               /\ \A x \in core[c].decided :
                    p \in x.voters =>
                        [N |-> x.N, Vote |-> x.leader] \in core[p].cast
    <3>1. VotesKnown(core[c], Casts) /\ Casts[p] = core[p].cast
      BY <2>1 DEF IInv, CoreInv, WellFormed, Casts
    <3> QED
      BY <3>1 DEF VotesKnown
  <2> QED
    BY <2>1 DEF CountedVotesWereCast
<1> QED
  BY <1>1, Invariance, PTL

\* Two clients that both concluded a round agree on the leader it elected, if
\* one of them counted the other's vote.
THEOREM Agreement == Spec => []RoundAgreement
<1>1. IInv => RoundAgreement
  <2> SUFFICES ASSUME IInv, NEW c \in Client, NEW d \in Client,
                      NEW x \in core[c].decided, NEW y \in core[d].decided,
                      x.N = y.N, d \in x.voters
               PROVE  x.leader = y.leader
    BY DEF RoundAgreement
  <2>1. VotesKnown(core[c], Casts) /\ VotesKnown(core[d], Casts)
    BY DEF IInv, CoreInv, WellFormed
  <2>2. [N |-> x.N, Vote |-> x.leader] \in core[d].cast
    BY <2>1 DEF VotesKnown, Casts
  <2>3. [N |-> y.N, Vote |-> y.leader] \in core[d].cast
    BY <2>1 DEF VotesKnown
  <2>4. \A a, b \in core[d].cast : a.N = b.N => a = b
    BY DEF IInv, CoreInv, WellFormed, VotesInOrder
  <2> DEFINE a == [N |-> x.N, Vote |-> x.leader]
             b == [N |-> y.N, Vote |-> y.leader]
  <2>5. a = b
    BY <2>2, <2>3, <2>4
  <2> QED
    BY <2>5
<1> QED
  BY <1>1, Invariance, PTL

\* The number of a client's next round never goes back.
THEOREM RoundsNeverGoBack == Spec => RoundsGoUp
<1>1. IInv /\ [Next]_vars =>
        [\A c \in Client :
           core'[c].nextVoteRoundN >= core[c].nextVoteRoundN]_vars
  BY NextInv DEF Monotone
<1> QED
  BY <1>1, Invariance, PTL DEF Spec, RoundsGoUp

-----------------------------------------------------------------------------
(* Election implements Voting.                                             *)

\* A step that changes nothing about c but its own state, and lets it follow
\* only whom it elected.
Acts(c) ==
    /\ \A d \in Client \ {c} : core'[d] = core[d]
    /\ Adopted(core[c], core'[c])

\* The timers, the goroutines and the event loop leave the leader alone.
LEMMA OthersAct ==
    ASSUME IInv, NEW c \in Client,
           \/ Goroutines(c) \/ EventLoop(c) \/ Timers(c)
           \/ LeaderConnectionLost(c) \/ Crash(c)
    PROVE  Acts(c)
<1>1. core \in [Client -> CoreStates]
  BY DEF IInv, CoreInv
<1>2. ASSUME NEW t, t.leader = core[c].leader,
             core' = [core EXCEPT ![c] = t]
      PROVE  Acts(c)
  BY <1>1, <1>2 DEF Acts, Adopted
<1>3. CASE UNCHANGED core
  BY <1>3 DEF Acts, Adopted
<1>4. CASE Goroutines(c)
  <2>1. CASE SyncRoster(c)
    BY <1>1, <1>2, <2>1 DEF SyncRoster, CoreStates
  <2>2. CASE RetryElection(c)
    BY <1>1, <2>2 DEF RetryElection, CoreStates, Acts, Adopted
  <2>3. ASSUME NEW b, SendVote(c, b) PROVE Acts(c)
    <3> DEFINE t == [core[c] EXCEPT !.broadcasts = @ \ {b}]
    <3>1. core' = [core EXCEPT ![c] = t]
      BY <2>3 DEF SendVote
    <3>2. t.leader = core[c].leader
      BY <1>1 DEF CoreStates
    <3> QED
      BY <1>2, <3>1, <3>2
  <2>4. ASSUME NEW p, WriterExit(c, p) \/ ConnectionLost(c, p)
        PROVE  Acts(c)
    <3>1. PICK left :
            core' = [core EXCEPT ![c].closing = @ \ {p}, ![c].full = @ \cup left]
      BY <2>4 DEF WriterExit, ConnectionLost
    <3> DEFINE t == [core[c] EXCEPT !.closing = @ \ {p}, !.full = @ \cup left]
    <3>2. core' = [core EXCEPT ![c] = t]
      BY <3>1
    <3>3. t.leader = core[c].leader
      BY <1>1 DEF CoreStates
    <3> QED
      BY <1>2, <3>2, <3>3
  <2> QED
    BY <1>4, <2>1, <2>2, <2>3, <2>4 DEF Goroutines
<1>5. CASE EventLoop(c)
  BY <1>3, <1>5 DEF EventLoop, ReceiveVote, ReceiveRoster
<1>6. CASE Timers(c)
  <2>1. CASE LeaderTimeout(c)
    <3> DEFINE t == [core[c] EXCEPT !.c_electLeader = @ + 1]
    <3>1. core' = [core EXCEPT ![c] = t]
      BY <2>1 DEF LeaderTimeout
    <3>2. t.leader = core[c].leader
      BY <1>1 DEF CoreStates
    <3> QED
      BY <1>2, <3>1, <3>2
  <2>2. CASE HeartbeatAck(c)
    BY <1>3, <2>2 DEF HeartbeatAck
  <2>3. CASE RetryTimeout(c)
    BY <1>1, <2>3 DEF RetryTimeout, CoreStates, Acts, Adopted
  <2>4. ASSUME NEW p, PeerTimeout(c, p) PROVE Acts(c)
    BY <1>1, <2>4 DEF PeerTimeout, CoreStates, Acts, Adopted
  <2> QED
    BY <1>6, <2>1, <2>2, <2>3, <2>4 DEF Timers
<1>7. CASE LeaderConnectionLost(c)
  BY <1>7, LeaderConnectionLostStep DEF Acts
<1>8. CASE Crash(c)
  BY <1>1, <1>2, <1>8 DEF Crash, CoreStates
<1> QED
  BY <1>4, <1>5, <1>6, <1>7, <1>8

\* The actor follows nobody it has not elected, whatever it is asked for.
LEMMA ActorActs ==
    ASSUME IInv, NEW c \in Client, Actor(c)
    PROVE  Acts(c)
<1>1. core \in [Client -> CoreStates] /\ core[c] \in CoreStates
  BY DEF IInv, CoreInv
<1>2. WellFormed(core[c], Casts)
  BY DEF IInv, CoreInv
<1>3. ASSUME NEW t, Adopted(core[c], t), core' = [core EXCEPT ![c] = t]
      PROVE  Acts(c)
  BY <1>1, <1>3 DEF Acts
<1>4. CASE DoSetLeader(c)
  <2>1. setLeader(core[c], Nil).leader \in {core[c].leader, Nil}
    BY <1>1, SetLeaderLeader
  <2> QED
    BY <1>3, <1>4, <2>1 DEF DoSetLeader, Become, Adopted
<1>5. CASE DoElectLeader(c)
  <2> DEFINE u == [core[c] EXCEPT !.c_electLeader = @ - 1]
  <2>1. core' = [core EXCEPT ![c] = electNewLeader(u)]
    BY <1>5 DEF DoElectLeader, Become
  <2>2. core[c].c_electLeader > 0
    BY <1>5 DEF DoElectLeader
  <2>3. u \in CoreStates /\ u.leader = core[c].leader
    <3> DEFINE n == core[c].c_electLeader - 1
    <3>1. n \in Nat /\ u = [core[c] EXCEPT !.c_electLeader = n]
      BY <1>1, <2>2 DEF CoreStates
    <3> HIDE DEF n, u
    <3> QED
      BY <1>1, <3>1 DEF CoreStates
  <2> HIDE DEF u
  <2> QED
    BY <1>3, <2>1, <2>3, ElectNewLeaderLeader DEF electNewLeader, Adopted
<1>6. CASE DoLeaderVote(c)
  <2> DEFINE v == Head(chan[c].leaderVote)
  <2>1. chan[c].leaderVote \in Seq(LeaderVotes) /\ chan[c].leaderVote # <<>>
    BY <1>6 DEF DoLeaderVote, IInv, ChanInv, Channels
  <2>2. v \in LeaderVotes
    BY <2>1, HeadTailProperties
  <2>3. LastRound(core[c])
    BY <1>6 DEF DoLeaderVote, IInv, CoreInv
  <2>4. core' = [core EXCEPT ![c] = acceptLeaderVote(core[c], v)]
    BY <1>6 DEF DoLeaderVote, Become
  <2> HIDE DEF v
  <2> QED
    BY <1>2, <1>3, <2>2, <2>3, <2>4, AcceptLeaderVoteAdopts
<1>7. CASE DoDeletePeer(c)
  <2>1. \A p : deletePeer(core[c], p).leader = core[c].leader
    BY <1>1 DEF deletePeer, SpawnSyncRoster, CoreStates
  <2> QED
    BY <1>3, <1>7, <2>1 DEF DoDeletePeer, Become, Adopted
<1>8. CASE DoUpdateRoster(c)
  <2>1. \A r, d : updateRoster(core[c], r, d).leader = core[c].leader
    BY <1>1 DEF updateRoster, SpawnSyncRoster, CoreStates
  <2>2. PICK r, d : core' = [core EXCEPT ![c] = updateRoster(core[c], r, d)]
    BY <1>8 DEF DoUpdateRoster, Become
  <2> QED
    BY <1>3, <2>1, <2>2 DEF Adopted
<1> QED
  BY <1>4, <1>5, <1>6, <1>7, <1>8 DEF Actor

\* Every step of Election is a step of Voting, by one client, or none.
LEMMA VotingStep ==
    ASSUME IInv, [Next]_vars
    PROVE  [Ballots!Next]_(Ballots!vars)
<1>1. CASE UNCHANGED vars
  BY <1>1 DEF vars, Ballots!vars
<1>2. CASE Next
  <2>1. PICK c \in Client : Acts(c)
    BY <1>2, OthersAct, ActorActs DEF Next
  <2>2. IInv' /\ Monotone
    BY NextInv
  <2>3. /\ core \in [Client -> CoreStates] /\ core' \in [Client -> CoreStates]
        /\ WellFormed(core[c], Casts) /\ WellFormed(core'[c], Casts')
    BY <2>2 DEF IInv, CoreInv
  <2>4. Ballots!Votes(c)
    <3>1. ASSUME NEW new \in core'[c].cast \ core[c].cast
          PROVE  /\ \A old \in core[c].cast : old.N < new.N
                 /\ \A other \in core'[c].cast :
                      other.N = new.N => other = new
      <4>1. /\ \A old \in core[c].cast :
                 old.N < core[c].nextVoteRoundN /\ old.N \in Nat
            /\ \A a, b \in core'[c].cast : a.N = b.N => a = b
            /\ core[c].nextVoteRoundN \in Nat /\ new.N \in Nat
        BY <2>3 DEF WellFormed, VotesInOrder, CoreStates, CastVotes
      <4>2. new.N >= core[c].nextVoteRoundN
        BY <2>2 DEF Monotone
      <4> QED
        BY <4>1, <4>2
    <3>2. core[c].cast \subseteq core'[c].cast
      BY <2>2 DEF Monotone
    <3> QED
      BY <3>1, <3>2 DEF Ballots!Votes
  <2>5. Ballots!Decides(c)
    <3>1. ASSUME NEW x \in core'[c].decided, NEW p \in x.voters \cup {c}
          PROVE  [N |-> x.N, Vote |-> x.leader] \in core'[p].cast
      <4>1. p \in Client
        BY <2>3, <3>1 DEF CoreStates, Decisions
      <4>2. VotesKnown(core'[c], Casts')
        BY <2>3 DEF WellFormed
      <4>3. Casts'[p] = core'[p].cast
        BY <4>1 DEF Casts
      <4> QED
        BY <3>1, <4>2, <4>3 DEF VotesKnown
    <3>2. \A x \in core'[c].decided : x.voters \subseteq Client
      BY <2>3 DEF CoreStates, Decisions
    <3>3. core[c].decided \subseteq core'[c].decided
      BY <2>2 DEF Monotone
    <3> QED
      BY <3>1, <3>2, <3>3 DEF Ballots!Decides
  <2>6. Ballots!Adopts(c)
    BY <2>1 DEF Acts, Adopted, Ballots!Adopts
  <2>7. Ballots!Alone(c)
    BY <2>1 DEF Acts, Ballots!Alone
  <2> QED
    BY <2>4, <2>5, <2>6, <2>7 DEF Ballots!Next
<1> QED
  BY <1>1, <1>2

\* Channels, delays, retries, late heartbeats and crashes only implement the
\* elections that Voting describes (electSpecificLeader, acceptLeaderVote).
THEOREM RefinesVoting == Spec => ImplementsVoting
<1>1. Init => Ballots!Init
  BY ElectionAssumption DEF Init, Ballots!Init
<1>2. IInv /\ [Next]_vars => [Ballots!Next]_(Ballots!vars)
  BY VotingStep
<1> QED
  BY <1>1, <1>2, Invariance, PTL DEF Spec, ImplementsVoting, Ballots!Spec

=============================================================================
