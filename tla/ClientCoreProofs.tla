--------------------------- MODULE ClientCoreProofs ---------------------------
(***************************************************************************)
(* What the operations of the actor goroutine preserve, whatever the       *)
(* state, the vote or the roster: the lemmas that the proofs about         *)
(* Election rest on.                                                       *)
(***************************************************************************)
EXTENDS ClientCore, FiniteSetTheorems, WellFoundedInduction, TLAPS

-----------------------------------------------------------------------------
(* The choices of electNewLeader and acceptLeaderVote exist.               *)

\* A non-empty set of numbers has a least element.
LEMMA LeastNumber ==
    ASSUME NEW S \in SUBSET Nat, S # {}
    PROVE  \E m \in S : \A n \in S : m <= n
<1>1. PICK m \in S : \A n \in S : ~(<<n, m>> \in OpToRel(<, Nat))
  BY WFMin, NatLessThanWellFounded, Zenon
<1>2. \A n \in S : ~(n < m)
  BY <1>1 DEF OpToRel
<1> QED
  BY <1>2

\* LowestId picks a member of the set: a client is never elected that was not
\* considered (electNewLeader).
LEMMA LowestIdMember ==
    ASSUME NEW S \in SUBSET Client, S # {}
    PROVE  LowestId(S) \in S
<1>1. \E p \in S : \A q \in S : p <= q
  BY LeastNumber, ClientAssumption
<1> QED
  BY <1>1 DEF LowestId

\* A tally is a number, at most one above the number of clients.
LEMMA TallyBound ==
    ASSUME NEW round \in Rounds, NEW v
    PROVE  /\ Tally(round, v) \in Nat
           /\ Tally(round, v) <= Cardinality(Client) + 1
<1> DEFINE P == {p \in Client : round.Votes[p] = v}
<1>1. P \in SUBSET Client
  OBVIOUS
<1>2. IsFiniteSet(P) /\ Cardinality(P) <= Cardinality(Client)
  BY <1>1, FS_Subset, ClientAssumption
<1>3. Cardinality(P) \in Nat /\ Cardinality(Client) \in Nat
  BY <1>2, FS_CardinalityType, ClientAssumption
<1>4. Tally(round, v) = Cardinality(P) + (IF v = round.MyVote THEN 1 ELSE 0)
  BY DEF Tally
<1> HIDE DEF P
<1> QED
  BY <1>2, <1>3, <1>4

\* The vote that acceptLeaderVote takes up in the next round was cast in this
\* one.
LEMMA MajorityMember ==
    ASSUME NEW round \in Rounds
    PROVE  Majority(round) \in Tallied(round) /\ Majority(round) \in Client
<1> DEFINE B    == Cardinality(Client) + 1
           T    == Tallied(round)
           gap  == {B - Tally(round, v) : v \in T}
<1>1. T \in SUBSET Client /\ T # {}
  BY DEF Tallied, Voters, Rounds
<1>2. B \in Nat
  BY FS_CardinalityType, ClientAssumption
<1>3. \A v \in T : Tally(round, v) \in Nat /\ Tally(round, v) <= B
  BY TallyBound
<1> HIDE DEF T, B
<1>4. gap \in SUBSET Nat /\ gap # {}
  BY <1>1, <1>2, <1>3
<1>5. PICK m \in gap : \A n \in gap : m <= n
  <2> HIDE DEF gap
  <2> QED BY <1>4, LeastNumber
<1> DEFINE best == {v \in T : B - Tally(round, v) = m}
<1>6. best \in SUBSET Nat /\ best # {}
  BY <1>1, <1>5, ClientAssumption
<1>7. PICK v \in best : \A w \in best : v <= w
  <2> HIDE DEF best
  <2> QED BY <1>6, LeastNumber
<1>8. \A w \in T : \/ Tally(round, v) > Tally(round, w)
                   \/ Tally(round, v) = Tally(round, w) /\ v <= w
  <2>1. TAKE w \in T
  <2>2. m <= B - Tally(round, w)
    BY <1>5
  <2>3. v \in T /\ B - Tally(round, v) = m
    OBVIOUS
  <2>4. CASE w \in best
    BY <2>3, <2>4, <1>2, <1>3, <1>7
  <2>5. CASE w \notin best
    BY <2>2, <2>3, <2>5, <1>2, <1>3
  <2> QED
    BY <2>4, <2>5
<1>9. v \in T
  OBVIOUS
<1> HIDE DEF best
<1>10. Majority(round) \in T
  BY <1>8, <1>9 DEF Majority, T
<1> QED
  BY <1>1, <1>10 DEF T

-----------------------------------------------------------------------------
(* What is invariant in the state of one actor.                            *)

\* A leader has no leader; this client, its leader and its peers are distinct.
Distinct(s) ==
    /\ s.isLeader => s.leader = Nil
    /\ s.leader \notin s.peers
    /\ s.Id \notin ListPeers(s)

\* The open round was opened by this client's vote, and no two votes were cast
\* in a round.
VotesInOrder(s) ==
    /\ s.voteRound # NoRound =>
         /\ s.voteRound.N < s.nextVoteRoundN
         /\ [N |-> s.voteRound.N, Vote |-> s.voteRound.MyVote] \in s.cast
    /\ s.broadcasts \subseteq s.cast
    /\ \A a \in s.cast : a.N < s.nextVoteRoundN
    /\ \A a, b \in s.cast : a.N = b.N => a = b

\* The open round is the last one: the number of the next is one higher.
LastRound(s) ==
    s.voteRound # NoRound => s.voteRound.N + 1 = s.nextVoteRoundN

\* Every vote that counts in a round was cast by its sender, where K[p] is the
\* set of the votes that p has cast.
VotesKnown(s, K) ==
    /\ \A p \in Client :
         s.voteRound.Votes[p] # Nil =>
             [N |-> s.voteRound.N, Vote |-> s.voteRound.Votes[p]] \in K[p]
    /\ \A x \in s.decided :
         /\ [N |-> x.N, Vote |-> x.leader] \in s.cast
         /\ \A p \in x.voters : [N |-> x.N, Vote |-> x.leader] \in K[p]

WellFormed(s, K) ==
    s \in CoreStates /\ Distinct(s) /\ VotesInOrder(s) /\ VotesKnown(s, K)

\* What the other clients and the history can rely on.
Follows(s, t) ==
    /\ t.Id = s.Id
    /\ t.nextVoteRoundN >= s.nextVoteRoundN
    /\ s.cast \subseteq t.cast
    /\ \A a \in t.cast \ s.cast : a.N >= s.nextVoteRoundN
    /\ s.decided \subseteq t.decided

\* The part of the state that votes are kept in.
SameVotes(s, t) ==
    /\ t.Id = s.Id
    /\ t.voteRound = s.voteRound
    /\ t.nextVoteRoundN = s.nextVoteRoundN
    /\ t.broadcasts = s.broadcasts
    /\ t.cast = s.cast
    /\ t.decided = s.decided

LEMMA FollowsTransitive ==
    ASSUME NEW s \in CoreStates, NEW t \in CoreStates, NEW u \in CoreStates,
           Follows(s, t), Follows(t, u)
    PROVE  Follows(s, u)
<1>1. /\ s.nextVoteRoundN \in Nat /\ t.nextVoteRoundN \in Nat
      /\ u.nextVoteRoundN \in Nat
      /\ \A a \in u.cast : a.N \in Nat
  BY DEF CoreStates, CastVotes
<1>2. ASSUME NEW a \in u.cast \ s.cast
      PROVE  a.N >= s.nextVoteRoundN
  <2>1. CASE a \in t.cast
    BY <2>1 DEF Follows
  <2>2. CASE a \notin t.cast
    BY <1>1, <2>2 DEF Follows
  <2> QED
    BY <2>1, <2>2
<1> QED
  BY <1>1, <1>2 DEF Follows

LEMMA SameVotesFollows ==
    ASSUME NEW K, NEW s, WellFormed(s, K), NEW t, SameVotes(s, t)
    PROVE  Follows(s, t) /\ (LastRound(s) => LastRound(t))
BY DEF WellFormed, Follows, SameVotes, LastRound, CoreStates

LEMMA SameVotesWellFormed ==
    ASSUME NEW K, NEW s, WellFormed(s, K),
           NEW t \in CoreStates, Distinct(t), SameVotes(s, t)
    PROVE  WellFormed(t, K)
<1>1. VotesInOrder(t)
  BY DEF WellFormed, VotesInOrder, SameVotes
<1>2. VotesKnown(t, K)
  BY DEF WellFormed, VotesKnown, SameVotes
<1> QED
  BY <1>1, <1>2 DEF WellFormed

-----------------------------------------------------------------------------
(* The operations that do not touch the votes.                             *)

\* Dropping the leader leaves none, unless it blocks.
LEMMA DropLeaderType ==
    ASSUME NEW s \in CoreStates
    PROVE  /\ DropLeader(s) \in CoreStates
           /\ SameVotes(s, DropLeader(s))
           /\ \/ DropLeader(s).leader = Nil
              \/ /\ DropLeader(s).status = "blocked"
                 /\ DropLeader(s).leader = s.leader
           /\ DropLeader(s).peers = s.peers
           /\ DropLeader(s).isLeader = s.isLeader
           /\ s.leader = Nil =>
                /\ DropLeader(s).leader = Nil
                /\ DropLeader(s).status = s.status
<1> DEFINE t == DropLeader(s)
<1>1. CASE s.leader \in s.full
  <2>1. t = [s EXCEPT !.status = "blocked"]
    BY <1>1 DEF DropLeader
  <2>2. s.leader # Nil
    BY <1>1, ClientAssumption DEF CoreStates
  <2> QED
    BY <2>1, <2>2 DEF CoreStates, Statuses, SameVotes
<1>2. CASE s.leader \notin s.full
  <2> DEFINE C == s.closing \cup LeaderSet(s)
             L == s.loopback \ LeaderSet(s)
  <2>1. t = [s EXCEPT !.closing = C, !.loopback = L, !.leader = Nil]
    BY <1>2 DEF DropLeader
  <2>2. C \in SUBSET Client /\ L \in SUBSET Client
    BY DEF CoreStates, LeaderSet
  <2> HIDE DEF C, L, t
  <2> QED
    BY <2>1, <2>2 DEF CoreStates, SameVotes, t
<1> QED
  BY <1>1, <1>2

LEMMA BecomeLeaderWellFormed ==
    ASSUME NEW K, NEW s, WellFormed(s, K)
    PROVE  WellFormed(becomeLeader(s), K) /\ SameVotes(s, becomeLeader(s))
<1> DEFINE rank  == [s EXCEPT !.Rank = Director]
           free  == DropLeader(rank)
           timed == IF s.isLeader THEN free.timed ELSE s.peers
           lead  == [free EXCEPT !.isLeader = TRUE, !.timed = timed,
                                 !.syncRoster = TRUE]
           t     == becomeLeader(s)
<1>1. s \in CoreStates /\ Distinct(s)
  BY DEF WellFormed
<1>2. /\ rank \in CoreStates /\ SameVotes(s, rank)
      /\ rank.leader = s.leader /\ rank.peers = s.peers
      /\ rank.isLeader = s.isLeader
  BY <1>1 DEF CoreStates, Ranks, Director, SameVotes
<1>3. /\ free \in CoreStates /\ SameVotes(rank, free)
      /\ \/ free.leader = Nil
         \/ free.status = "blocked" /\ free.leader = s.leader
      /\ free.peers = s.peers /\ free.isLeader = s.isLeader
  <2> HIDE DEF rank
  <2> QED BY <1>2, DropLeaderType
<1>4. t = IF free.status = "blocked" THEN free ELSE lead
  <2>1. t = Onward(free, SpawnSyncRoster(
              [free EXCEPT !.isLeader = TRUE, !.timed = timed]))
    BY DEF becomeLeader
  <2> HIDE DEF free, timed
  <2> QED
    BY <1>3, <2>1 DEF Onward, SpawnSyncRoster, CoreStates
<1>5. timed \in SUBSET Client
  BY <1>1, <1>3 DEF CoreStates
<1> HIDE DEF rank, free, timed
<1>6. /\ lead \in CoreStates /\ SameVotes(free, lead)
      /\ lead.leader = free.leader /\ lead.peers = free.peers
  BY <1>3, <1>5 DEF CoreStates, SameVotes
<1> HIDE DEF lead, t
<1>7. /\ t \in CoreStates /\ SameVotes(s, t)
      /\ t.leader = Nil \/ (t.leader = s.leader /\ t.isLeader = s.isLeader)
      /\ t.peers = s.peers
  BY <1>2, <1>3, <1>4, <1>6 DEF SameVotes
<1>8. Distinct(t)
  BY <1>1, <1>7, ClientAssumption
     DEF Distinct, ListPeers, LeaderSet, CoreStates, SameVotes
<1>9. WellFormed(t, K) /\ SameVotes(s, t)
  BY <1>7, <1>8, SameVotesWellFormed
<1> QED
  BY <1>9 DEF t

LEMMA SetLeaderWellFormed ==
    ASSUME NEW K, NEW s, WellFormed(s, K), NEW l \in s.peers \cup {Nil}
    PROVE  WellFormed(setLeader(s, l), K) /\ SameVotes(s, setLeader(s, l))
<1> DEFINE less == [s EXCEPT !.peers = @ \ {l}]
           free == DropLeader(less)
           t    == setLeader(s, l)
<1>1. s \in CoreStates /\ Distinct(s)
  BY DEF WellFormed
<1>2. /\ s.Id \in Client /\ s.peers \subseteq Client /\ Nil \notin s.peers
      /\ s.Id \notin s.peers
  BY <1>1, ClientAssumption DEF Distinct, ListPeers, CoreStates
<1>3. /\ less \in CoreStates /\ SameVotes(s, less)
      /\ less.leader = s.leader /\ less.peers = s.peers \ {l}
      /\ less.isLeader = s.isLeader
  BY <1>1 DEF CoreStates, SameVotes
<1>4. /\ free \in CoreStates /\ SameVotes(s, free)
      /\ \/ free.leader = Nil
         \/ free.status = "blocked" /\ free.leader = s.leader
      /\ free.peers = s.peers \ {l} /\ free.isLeader = s.isLeader
  <2> HIDE DEF less
  <2>1. /\ free \in CoreStates /\ SameVotes(less, free)
        /\ \/ free.leader = Nil
           \/ free.status = "blocked" /\ free.leader = less.leader
        /\ free.peers = less.peers /\ free.isLeader = less.isLeader
    BY <1>3, DropLeaderType
  <2> HIDE DEF free
  <2> QED
    BY <1>3, <2>1 DEF SameVotes
<1>5. CASE l # Nil /\ s.isLeader
  <2>1. t = [s EXCEPT !.status = "panic"]
    BY <1>2, <1>5 DEF setLeader
  <2> HIDE DEF t
  <2>2. t \in CoreStates /\ SameVotes(s, t)
    BY <1>1, <2>1 DEF CoreStates, SameVotes, Statuses
  <2>3. Distinct(t)
    BY <1>1, <2>1 DEF Distinct, ListPeers, LeaderSet, CoreStates
  <2> QED
    BY <2>2, <2>3, SameVotesWellFormed DEF t
<1>6. CASE l = Nil \/ ~s.isLeader
  <2> DEFINE with == [free EXCEPT !.leader = l, !.syncRoster = s.isLeader]
             gone == [free EXCEPT !.syncRoster = s.isLeader]
  <2>1. \/ t = free /\ free.status = "blocked"
        \/ t = gone /\ l = Nil /\ free.status # "blocked"
        \/ t = with /\ ~s.isLeader /\ free.status # "blocked"
    <3>1. l = Nil => t = Onward(free, SpawnSyncRoster(free))
      BY DEF setLeader
    <3>2. l # Nil => t = Onward(free, SpawnSyncRoster([free EXCEPT !.leader = l]))
      BY <1>6 DEF setLeader
    <3> HIDE DEF free, t
    <3>3. SpawnSyncRoster(free) = gone
      BY <1>4 DEF SpawnSyncRoster
    <3>4. SpawnSyncRoster([free EXCEPT !.leader = l]) = with
      BY <1>4 DEF SpawnSyncRoster, CoreStates
    <3> HIDE DEF gone, with
    <3> QED
      BY <1>6, <3>1, <3>2, <3>3, <3>4 DEF Onward
  <2> HIDE DEF free, t
  <2>2. /\ with \in CoreStates /\ SameVotes(s, with)
        /\ with.leader = l /\ with.peers = s.peers \ {l}
        /\ with.isLeader = s.isLeader
        /\ gone \in CoreStates /\ SameVotes(s, gone)
        /\ gone.leader = free.leader /\ gone.peers = s.peers \ {l}
        /\ gone.isLeader = s.isLeader
    BY <1>1, <1>2, <1>4 DEF CoreStates, SameVotes
  <2> HIDE DEF with, gone
  <2>3. /\ t \in CoreStates /\ SameVotes(s, t) /\ t.peers = s.peers \ {l}
        /\ t.isLeader = s.isLeader
        /\ \/ t.leader = Nil \/ t.leader = s.leader
           \/ t.leader = l /\ ~s.isLeader
    BY <1>4, <2>1, <2>2
  <2>4. Distinct(t)
    BY <1>1, <1>2, <2>3 DEF Distinct, ListPeers, LeaderSet, SameVotes
  <2> QED
    BY <2>3, <2>4, SameVotesWellFormed DEF t
<1> QED
  BY <1>1, <1>5, <1>6 DEF CoreStates

LEMMA DeletePeerWellFormed ==
    ASSUME NEW K, NEW s, WellFormed(s, K), NEW p
    PROVE  WellFormed(deletePeer(s, p), K) /\ SameVotes(s, deletePeer(s, p))
<1> DEFINE gone == {p} \ LeaderSet(s)
           t    == deletePeer(s, p)
<1>1. s \in CoreStates /\ Distinct(s)
  BY DEF WellFormed
<1>2. t = [s EXCEPT !.peers = @ \ gone, !.loopback = @ \ gone,
                    !.full = @ \ gone, !.syncRoster = s.isLeader]
  BY <1>1 DEF deletePeer, SpawnSyncRoster, CoreStates
<1> HIDE DEF gone, t
<1>3. t \in CoreStates /\ SameVotes(s, t)
  BY <1>1, <1>2 DEF CoreStates, SameVotes
<1>4. /\ t.Id = s.Id /\ t.leader = s.leader /\ t.peers = s.peers \ gone
      /\ t.isLeader = s.isLeader
  BY <1>1, <1>2 DEF CoreStates
<1>5. Distinct(t)
  BY <1>1, <1>4 DEF Distinct, ListPeers, LeaderSet
<1> QED
  BY <1>3, <1>5, SameVotesWellFormed DEF t

LEMMA UpdateRosterWellFormed ==
    ASSUME NEW K, NEW s, WellFormed(s, K), NEW roster \in Rosters,
           NEW dialled \in SUBSET ToDial(s, roster)
    PROVE  /\ WellFormed(updateRoster(s, roster, dialled), K)
           /\ SameVotes(s, updateRoster(s, roster, dialled))
<1> DEFINE kept == (roster.ids \cap s.peers) \ ({s.Id} \cup LeaderSet(s))
           next == kept \cup dialled
           shut == s.peers \ next
           t    == updateRoster(s, roster, dialled)
<1>1. s \in CoreStates /\ Distinct(s)
  BY DEF WellFormed
<1>2. /\ kept \subseteq Client
      /\ next \subseteq Client /\ dialled \subseteq Client
      /\ s.Id \notin next /\ s.leader \notin next
  BY <1>1, ClientAssumption DEF ToDial, Rosters, LeaderSet, CoreStates
<1> DEFINE R == IF s.Id \in roster.ids THEN roster.rank[s.Id] ELSE s.Rank
           Q == [p \in Client |->
                   IF p \in next \cup (LeaderSet(s) \cap roster.ids)
                   THEN roster.rank[p] ELSE s.peerRank[p]]
           C == s.closing \cup (shut \ s.full)
           L == (s.loopback \cap (kept \cup LeaderSet(s)))
                   \cup (dialled \cap {roster.from})
           stuck == [s EXCEPT !.Rank = R, !.peerRank = Q, !.closing = C,
                              !.status = "blocked"]
           moved == [s EXCEPT !.Rank = R, !.peerRank = Q, !.closing = C,
                              !.peers = next, !.loopback = L,
                              !.syncRoster = s.isLeader]
<1>3. t = IF shut \cap s.full # {} THEN stuck ELSE moved
  BY <1>1 DEF updateRoster, SpawnSyncRoster, CoreStates
<1> HIDE DEF kept, next
<1>a. R \in Ranks /\ Q \in [Client -> Ranks]
  BY <1>1 DEF CoreStates, Rosters
<1>b. C \in SUBSET Client /\ L \in SUBSET Client
  BY <1>1, <1>2 DEF CoreStates
<1> HIDE DEF t, R, Q, C, L, shut
<1>4. /\ moved \in CoreStates /\ SameVotes(s, moved)
      /\ moved.leader = s.leader /\ moved.peers = next
      /\ moved.isLeader = s.isLeader
  BY <1>1, <1>2, <1>a, <1>b DEF CoreStates, SameVotes
<1>5. /\ stuck \in CoreStates /\ SameVotes(s, stuck)
      /\ stuck.leader = s.leader /\ stuck.peers = s.peers
      /\ stuck.isLeader = s.isLeader
  BY <1>1, <1>2, <1>a, <1>b DEF CoreStates, SameVotes, Statuses
<1> HIDE DEF moved, stuck
<1>6. Distinct(moved) /\ Distinct(stuck)
  BY <1>1, <1>2, <1>4, <1>5 DEF Distinct, ListPeers, LeaderSet, SameVotes
<1> QED
  BY <1>3, <1>4, <1>5, <1>6, SameVotesWellFormed DEF t

-----------------------------------------------------------------------------
(* Elections.                                                              *)

LEMMA ElectSpecificLeaderWellFormed ==
    ASSUME NEW K, NEW s, WellFormed(s, K), NEW vote \in Client
    PROVE  LET t == electSpecificLeader(s, vote)
           IN  /\ WellFormed(t, K)
               /\ Follows(s, t)
               /\ SameVotes(s, t) \/ LastRound(t)
<1> DEFINE t == electSpecificLeader(s, vote)
<1>1. s \in CoreStates /\ Distinct(s) /\ VotesInOrder(s) /\ VotesKnown(s, K)
  BY DEF WellFormed
<1>2. CASE s.leader = Nil /\ s.peers = {} /\ vote = s.Id
  <2> DEFINE u == [s EXCEPT !.retry = FALSE]
  <2>1. u \in CoreStates /\ SameVotes(s, u)
    BY <1>1 DEF CoreStates, SameVotes
  <2>2. Distinct(u)
    BY <1>1 DEF Distinct, ListPeers, LeaderSet, CoreStates
  <2>3. t = becomeLeader(u)
    BY <1>2 DEF electSpecificLeader
  <2> HIDE DEF t, u
  <2>4. WellFormed(u, K)
    BY <2>1, <2>2, SameVotesWellFormed
  <2>5. WellFormed(t, K) /\ SameVotes(u, t)
    BY <2>3, <2>4, BecomeLeaderWellFormed
  <2>6. SameVotes(s, t)
    BY <2>1, <2>5 DEF SameVotes
  <2>7. Follows(s, t)
    BY <2>6, SameVotesFollows
  <2> QED
    BY <2>5, <2>6, <2>7 DEF t
<1>3. CASE ~(s.leader = Nil /\ s.peers = {} /\ vote = s.Id)
  <2> DEFINE ballot == [N |-> s.nextVoteRoundN, Vote |-> vote]
             round  == [N      |-> s.nextVoteRoundN,
                        MyVote |-> vote,
                        Votes  |-> [p \in Client |-> Nil]]
  <2>1. t = [s EXCEPT !.voteRound      = round,
                      !.nextVoteRoundN = @ + 1,
                      !.retry          = TRUE,
                      !.broadcasts     = @ \cup {ballot},
                      !.cast           = @ \cup {ballot}]
    BY <1>3 DEF electSpecificLeader
  <2>2. /\ ballot \in CastVotes /\ ballot.N = s.nextVoteRoundN
        /\ round \in Rounds /\ round.N = s.nextVoteRoundN
        /\ ballot = [N |-> round.N, Vote |-> round.MyVote]
        /\ \A p \in Client : round.Votes[p] = Nil
    BY <1>1 DEF CoreStates, CastVotes, Rounds
  <2> HIDE DEF t, ballot, round
  <2>a. /\ s.nextVoteRoundN + 1 \in Nat
        /\ round \in Rounds \cup {NoRound}
        /\ s.broadcasts \cup {ballot} \in SUBSET CastVotes
        /\ s.cast \cup {ballot} \in SUBSET CastVotes
    BY <1>1, <2>2 DEF CoreStates
  <2> DEFINE n == s.nextVoteRoundN + 1
             b == s.broadcasts \cup {ballot}
             k == s.cast \cup {ballot}
  <2>b. t = [s EXCEPT !.voteRound = round, !.nextVoteRoundN = n,
                      !.retry = TRUE, !.broadcasts = b, !.cast = k]
    BY <2>1
  <2>3. t \in CoreStates
    BY <1>1, <2>a, <2>b DEF CoreStates
  <2>4. /\ t.Id = s.Id /\ t.isLeader = s.isLeader /\ t.leader = s.leader
        /\ t.peers = s.peers /\ t.decided = s.decided
        /\ t.voteRound = round
        /\ t.nextVoteRoundN = s.nextVoteRoundN + 1
        /\ t.broadcasts = s.broadcasts \cup {ballot}
        /\ t.cast = s.cast \cup {ballot}
    BY <1>1, <2>1 DEF CoreStates
  <2>5. s.nextVoteRoundN \in Nat /\ \A a \in s.cast : a.N \in Nat
    BY <1>1 DEF CoreStates, CastVotes
  <2>6. Distinct(t)
    BY <1>1, <2>4 DEF Distinct, ListPeers, LeaderSet
  <2>7. VotesInOrder(t)
    BY <1>1, <2>2, <2>4, <2>5 DEF VotesInOrder
  <2>8. VotesKnown(t, K)
    BY <1>1, <2>2, <2>4 DEF VotesKnown
  <2>9. Follows(s, t) /\ LastRound(t)
    BY <2>2, <2>4, <2>5 DEF Follows, LastRound
  <2> QED
    BY <2>3, <2>6, <2>7, <2>8, <2>9 DEF WellFormed, t
<1> QED
  BY <1>2, <1>3

\* electNewLeader votes for a client.
LEMMA CandidateType ==
    ASSUME NEW s \in CoreStates
    PROVE  Candidate(s) \in Client
<1> DEFINE D == {s.Id} \cup {p \in s.peers : s.peerRank[p] = Director}
           A == {s.Id} \cup s.peers
<1>1. D \in SUBSET Client /\ D # {} /\ A \in SUBSET Client /\ A # {}
  BY DEF CoreStates
<1>2. LowestId(D) \in D /\ LowestId(A) \in A
  <2> HIDE DEF D, A
  <2> QED BY <1>1, LowestIdMember
<1>3. s.leader # Nil => s.leader \in Client
  BY DEF CoreStates
<1>4. Candidate(s) = IF s.leader # Nil THEN s.leader
                     ELSE IF s.Rank = Director THEN LowestId(D)
                                               ELSE LowestId(A)
  BY DEF Candidate
<1> HIDE DEF D, A
<1> QED
  BY <1>1, <1>2, <1>3, <1>4

LEMMA ElectNewLeaderWellFormed ==
    ASSUME NEW K, NEW s, WellFormed(s, K)
    PROVE  LET t == electNewLeader(s)
           IN  /\ WellFormed(t, K)
               /\ Follows(s, t)
               /\ SameVotes(s, t) \/ LastRound(t)
BY CandidateType, ElectSpecificLeaderWellFormed DEF electNewLeader, WellFormed

\* A round is concluded only when every vote counted in it is this client's own.
LEMMA ConcludeWellFormed ==
    ASSUME NEW K, NEW s, WellFormed(s, K), s.voteRound # NoRound,
           LastRound(s), Tallied(s.voteRound) = {s.voteRound.MyVote}
    PROVE  /\ WellFormed(Conclude(s), K)
           /\ Follows(s, Conclude(s))
           /\ LastRound(Conclude(s))
<1> DEFINE round == s.voteRound
           v     == round.MyVote
           x     == [N |-> round.N, leader |-> v, voters |-> Voters(round)]
           over  == [s EXCEPT !.voteRound = NoRound, !.decided = @ \cup {x}]
           t     == Conclude(s)
<1>1. s \in CoreStates /\ Distinct(s) /\ VotesInOrder(s) /\ VotesKnown(s, K)
  BY DEF WellFormed
<1>2. round \in Rounds /\ v \in Client
  BY <1>1 DEF CoreStates, Rounds
<1>3. \A p \in x.voters : round.Votes[p] = v /\ round.Votes[p] # Nil
  BY DEF Tallied, Voters
<1>4. x \in Decisions
  BY <1>2 DEF Decisions, Rounds, Voters
<1>5. over \in CoreStates
  BY <1>1, <1>4 DEF CoreStates
<1>6. /\ over.Id = s.Id /\ over.isLeader = s.isLeader
      /\ over.leader = s.leader /\ over.peers = s.peers
      /\ over.voteRound = NoRound /\ over.nextVoteRoundN = s.nextVoteRoundN
      /\ over.broadcasts = s.broadcasts /\ over.cast = s.cast
      /\ over.decided = s.decided \cup {x}
  BY <1>1 DEF CoreStates
<1>7. /\ [N |-> x.N, Vote |-> x.leader] \in s.cast
      /\ \A p \in x.voters : [N |-> x.N, Vote |-> x.leader] \in K[p]
  <2>1. [N |-> x.N, Vote |-> x.leader] \in s.cast
    BY <1>1 DEF VotesInOrder
  <2>2. ASSUME NEW p \in x.voters
        PROVE  [N |-> x.N, Vote |-> x.leader] \in K[p]
    <3>1. p \in Client
      BY DEF Voters
    <3>2. [N |-> round.N, Vote |-> round.Votes[p]] \in K[p]
      BY <1>1, <1>3, <3>1 DEF VotesKnown
    <3> QED
      BY <1>3, <3>2
  <2> QED
    BY <2>1, <2>2
<1>8. NoRound.Votes = [p \in Client |-> Nil]
  BY DEF NoRound
<1>9. t = CASE v = s.Id                  -> becomeLeader(over)
            [] v # s.Id /\ v \in s.peers -> setLeader(over, v)
            [] v \notin {s.Id, s.leader} \cup s.peers ->
                                            [s EXCEPT !.c_electLeader = @ + 1]
            [] OTHER                     -> over
  BY DEF Conclude
<1> HIDE DEF x, over, t
<1>10. WellFormed(over, K)
  <2>1. Distinct(over)
    BY <1>1, <1>6 DEF Distinct, ListPeers, LeaderSet
  <2>2. VotesInOrder(over)
    BY <1>1, <1>6 DEF VotesInOrder
  <2>3. VotesKnown(over, K)
    BY <1>1, <1>6, <1>7, <1>8 DEF VotesKnown
  <2> QED
    BY <1>5, <2>1, <2>2, <2>3 DEF WellFormed
<1>11. Follows(s, over) /\ LastRound(over)
  BY <1>1, <1>6 DEF Follows, LastRound, CoreStates
<1>12. ASSUME WellFormed(t, K), SameVotes(over, t)
       PROVE  WellFormed(t, K) /\ Follows(s, t) /\ LastRound(t)
  <2>1. Follows(over, t) /\ LastRound(t)
    BY <1>10, <1>11, <1>12, SameVotesFollows
  <2> QED
    BY <1>6, <1>12, <2>1 DEF Follows
<1>13. CASE v = s.Id
  BY <1>9, <1>10, <1>12, <1>13, BecomeLeaderWellFormed DEF t
<1>14. CASE v # s.Id /\ v \in s.peers
  BY <1>6, <1>9, <1>10, <1>12, <1>14, SetLeaderWellFormed DEF t
<1>15. CASE v \notin {s.Id, s.leader} \cup s.peers
  <2>1. t = [s EXCEPT !.c_electLeader = @ + 1]
    BY <1>9, <1>15
  <2>2. t \in CoreStates /\ SameVotes(s, t)
    BY <1>1, <2>1 DEF CoreStates, SameVotes
  <2>3. Distinct(t)
    BY <1>1, <2>1 DEF Distinct, ListPeers, LeaderSet, CoreStates
  <2> QED
    BY <2>2, <2>3, SameVotesWellFormed, SameVotesFollows DEF t
<1>16. CASE v # s.Id /\ v \notin s.peers /\ v = s.leader
  <2>1. t = over
    BY <1>9, <1>16
  <2> QED
    BY <1>10, <1>11, <2>1 DEF t
<1> QED
  BY <1>13, <1>14, <1>15, <1>16

LEMMA CountVoteWellFormed ==
    ASSUME NEW K, NEW s, WellFormed(s, K), s.voteRound # NoRound,
           LastRound(s), NEW vote \in LeaderVotes, vote.N = s.voteRound.N,
           [N |-> vote.N, Vote |-> vote.Vote] \in K[vote.Sender]
    PROVE  /\ WellFormed(CountVote(s, vote), K)
           /\ Follows(s, CountVote(s, vote))
           /\ LastRound(CountVote(s, vote))
<1> DEFINE votes == [s.voteRound.Votes EXCEPT ![vote.Sender] = vote.Vote]
           round == [s.voteRound EXCEPT !.Votes = votes]
           t     == [s EXCEPT !.voteRound.Votes[vote.Sender] = vote.Vote]
           done  == [t EXCEPT !.retry = FALSE]
           r     == CountVote(s, vote)
<1>0. r = IF Cardinality(Voters(t.voteRound)) < PeerCount(t) THEN t
           ELSE IF Tallied(t.voteRound) = {t.voteRound.MyVote}
                THEN Conclude(done)
                ELSE electSpecificLeader(done, Majority(t.voteRound))
  BY DEF CountVote
<1>1. s \in CoreStates /\ Distinct(s) /\ VotesInOrder(s) /\ VotesKnown(s, K)
  BY DEF WellFormed
<1>2. s.voteRound \in Rounds
  BY <1>1 DEF CoreStates
<1>3. vote.Sender \in Client /\ vote.Vote \in Client
  BY DEF LeaderVotes
<1>4. votes \in [Client -> Client \cup {Nil}]
  BY <1>2, <1>3 DEF Rounds
<1>5. /\ round \in Rounds /\ round.N = s.voteRound.N
      /\ round.MyVote = s.voteRound.MyVote /\ round.Votes = votes
  <2> HIDE DEF votes
  <2> QED BY <1>2, <1>4 DEF Rounds
<1>6. /\ t = [s EXCEPT !.voteRound = round]
      /\ done = [t EXCEPT !.retry = FALSE]
  OBVIOUS
<1>7. \A p \in Client :
        votes[p] = IF p = vote.Sender THEN vote.Vote ELSE s.voteRound.Votes[p]
  BY <1>2 DEF Rounds
<1>8. round # NoRound
  BY <1>5, <1>2 DEF NoRound, Rounds
<1> HIDE DEF votes, round, t, done
<1>9. /\ t \in CoreStates /\ done \in CoreStates
      /\ t.voteRound = round /\ done.voteRound = round
  BY <1>1, <1>5, <1>6 DEF CoreStates
<1>10. ASSUME NEW u, u \in {t, done}
       PROVE  /\ u.Id = s.Id /\ u.isLeader = s.isLeader
              /\ u.leader = s.leader /\ u.peers = s.peers
              /\ u.voteRound = round /\ u.nextVoteRoundN = s.nextVoteRoundN
              /\ u.broadcasts = s.broadcasts /\ u.cast = s.cast
              /\ u.decided = s.decided /\ u \in CoreStates
  BY <1>1, <1>6, <1>9, <1>10 DEF CoreStates
<1> HIDE DEF r
<1>12. ASSUME NEW u, u \in {t, done}
       PROVE  WellFormed(u, K) /\ Follows(s, u) /\ LastRound(u)
  <2>1. Distinct(u)
    BY <1>1, <1>10, <1>12 DEF Distinct, ListPeers, LeaderSet
  <2>2. VotesInOrder(u)
    BY <1>1, <1>5, <1>10, <1>12 DEF VotesInOrder
  <2>3. VotesKnown(u, K)
    <3>1. ASSUME NEW p \in Client, votes[p] # Nil
          PROVE  [N |-> round.N, Vote |-> votes[p]] \in K[p]
      BY <1>1, <1>5, <1>7, <3>1 DEF VotesKnown
    <3> QED
      BY <1>1, <1>5, <1>10, <1>12, <3>1 DEF VotesKnown
  <2>4. Follows(s, u) /\ LastRound(u)
    BY <1>1, <1>5, <1>10, <1>12 DEF Follows, LastRound, CoreStates
  <2> QED
    BY <1>10, <1>12, <2>1, <2>2, <2>3, <2>4 DEF WellFormed
<1>13. CASE r = t
  BY <1>12, <1>13 DEF r
<1>14. CASE Tallied(round) = {round.MyVote} /\ r = Conclude(done)
  <2>1. WellFormed(r, K) /\ Follows(done, r) /\ LastRound(r)
    BY <1>8, <1>9, <1>12, <1>14, ConcludeWellFormed
  <2> QED
    BY <1>10, <1>12, <2>1 DEF Follows, r
<1>15. CASE r = electSpecificLeader(done, Majority(round))
  <2>1. Majority(round) \in Client
    BY <1>5, MajorityMember
  <2>2. /\ WellFormed(r, K) /\ Follows(done, r)
        /\ SameVotes(done, r) \/ LastRound(r)
    BY <1>12, <1>15, <2>1, ElectSpecificLeaderWellFormed
  <2>3. LastRound(r)
    BY <1>12, <2>2, SameVotesFollows
  <2> QED
    BY <1>10, <1>12, <2>2, <2>3 DEF Follows, r
<1> QED
  BY <1>0, <1>9, <1>13, <1>14, <1>15

\* Moving on to the round of a vote never reopens an earlier round, although
\* nextVoteRoundN is overwritten: the vote is of a later round than the last.
LEMMA OpenRoundWellFormed ==
    ASSUME NEW K, NEW s, WellFormed(s, K), LastRound(s),
           NEW vote \in LeaderVotes
    PROVE  LET r == OpenRound(s, vote)
           IN  /\ WellFormed(r, K)
               /\ Follows(s, r)
               /\ LastRound(r) \/ vote.N > r.voteRound.N
<1> DEFINE t == IF s.voteRound = NoRound THEN electNewLeader(s) ELSE s
           u == [t EXCEPT !.nextVoteRoundN = vote.N]
           r == OpenRound(s, vote)
<1>1. r = IF t.voteRound # NoRound /\ vote.N > t.voteRound.N
          THEN electNewLeader(u) ELSE t
  BY DEF OpenRound
<1>2. WellFormed(t, K) /\ Follows(s, t) /\ LastRound(t)
  <2>1. CASE s.voteRound = NoRound
    <3>1. /\ WellFormed(t, K) /\ Follows(s, t)
          /\ SameVotes(s, t) \/ LastRound(t)
      BY <2>1, ElectNewLeaderWellFormed
    <3> QED
      BY <3>1, SameVotesFollows
  <2>2. CASE s.voteRound # NoRound
    BY <2>2 DEF Follows, WellFormed, CoreStates
  <2> QED
    BY <2>1, <2>2
<1> HIDE DEF t
<1>3. CASE ~(t.voteRound # NoRound /\ vote.N > t.voteRound.N)
  BY <1>1, <1>2, <1>3
<1>4. CASE t.voteRound # NoRound /\ vote.N > t.voteRound.N
  <2>1. /\ t \in CoreStates /\ Distinct(t) /\ VotesInOrder(t)
        /\ VotesKnown(t, K)
    BY <1>2 DEF WellFormed
  <2>2. vote.N \in Nat
    BY DEF LeaderVotes
  <2>3. /\ u \in CoreStates /\ u.Id = t.Id /\ u.isLeader = t.isLeader
        /\ u.leader = t.leader /\ u.peers = t.peers
        /\ u.voteRound = t.voteRound /\ u.nextVoteRoundN = vote.N
        /\ u.broadcasts = t.broadcasts /\ u.cast = t.cast
        /\ u.decided = t.decided
    BY <2>1, <2>2 DEF CoreStates
  <2>4. r = electNewLeader(u)
    BY <1>1, <1>4
  <2> HIDE DEF u, r
  <2>5. t.voteRound.N \in Nat /\ t.nextVoteRoundN = t.voteRound.N + 1
    BY <1>2, <1>4, <2>1 DEF LastRound, CoreStates, Rounds
  <2>6. \A a \in t.cast : a.N \in Nat
    BY <2>1 DEF CoreStates, CastVotes
  <2>7. WellFormed(u, K)
    <3>1. Distinct(u)
      BY <2>1, <2>3 DEF Distinct, ListPeers, LeaderSet
    <3>2. VotesInOrder(u)
      BY <1>4, <2>1, <2>2, <2>3, <2>5, <2>6 DEF VotesInOrder
    <3>3. VotesKnown(u, K)
      BY <2>1, <2>3 DEF VotesKnown
    <3> QED
      BY <2>3, <3>1, <3>2, <3>3 DEF WellFormed
  <2>8. Follows(t, u)
    BY <1>4, <2>2, <2>3, <2>5 DEF Follows
  <2>9. /\ WellFormed(r, K) /\ Follows(u, r)
        /\ SameVotes(u, r) \/ LastRound(r)
    BY <2>4, <2>7, ElectNewLeaderWellFormed
  <2>10. LastRound(r) \/ vote.N > r.voteRound.N
    BY <1>4, <2>3, <2>9 DEF SameVotes
  <2>11. Follows(s, r)
    <3>1. /\ s \in CoreStates /\ r \in CoreStates
          /\ Follows(s, t)
      BY <1>2, <2>9 DEF WellFormed
    <3>2. Follows(s, u)
      BY <2>1, <2>3, <2>8, <3>1, FollowsTransitive
    <3> QED
      BY <2>3, <2>9, <3>1, <3>2, FollowsTransitive
  <2> QED
    BY <2>9, <2>10, <2>11 DEF r
<1> QED
  BY <1>3, <1>4

\* Accepting any vote that its sender has cast keeps the state well-formed.
LEMMA AcceptLeaderVoteWellFormed ==
    ASSUME NEW K, NEW s, WellFormed(s, K), LastRound(s),
           NEW vote \in LeaderVotes,
           [N |-> vote.N, Vote |-> vote.Vote] \in K[vote.Sender]
    PROVE  LET q == acceptLeaderVote(s, vote)
           IN  /\ WellFormed(q, K)
               /\ Follows(s, q)
               /\ q.status = "up" => LastRound(q)
<1> DEFINE t == OpenRound(s, vote)
           q == acceptLeaderVote(s, vote)
<1>1. /\ WellFormed(t, K) /\ Follows(s, t)
      /\ LastRound(t) \/ vote.N > t.voteRound.N
  BY OpenRoundWellFormed
<1>2. /\ s.nextVoteRoundN \in Nat /\ t.nextVoteRoundN \in Nat
      /\ t \in CoreStates /\ Distinct(t) /\ vote.N \in Nat
  BY <1>1 DEF WellFormed, CoreStates, LeaderVotes
<1>3. q = CASE t.voteRound = NoRound \/ vote.N > t.voteRound.N ->
                 [t EXCEPT !.status = "overflow"]
            [] t.voteRound # NoRound /\ vote.N = t.voteRound.N ->
                 CountVote(t, vote)
            [] OTHER -> t
  BY DEF acceptLeaderVote
<1> HIDE DEF t, q
<1>4. CASE t.voteRound = NoRound \/ vote.N > t.voteRound.N
  <2>1. q = [t EXCEPT !.status = "overflow"]
    <3>1. t.voteRound = NoRound => ~(t.voteRound # NoRound)
      OBVIOUS
    <3>2. t.voteRound # NoRound => t.voteRound.N \in Nat
      BY <1>2 DEF CoreStates, Rounds
    <3>3. ~(t.voteRound # NoRound /\ vote.N = t.voteRound.N)
      BY <1>2, <1>4, <3>2
    <3> QED
      BY <1>3, <1>4, <3>3
  <2>2. q \in CoreStates /\ SameVotes(t, q) /\ q.status = "overflow"
    BY <1>2, <2>1 DEF CoreStates, SameVotes, Statuses
  <2>3. Distinct(q)
    BY <1>2, <2>1 DEF Distinct, ListPeers, LeaderSet, CoreStates
  <2>4. WellFormed(q, K) /\ Follows(t, q)
    BY <1>1, <2>2, <2>3, SameVotesWellFormed, SameVotesFollows
  <2>5. Follows(s, q)
    BY <1>1, <1>2, <2>2 DEF Follows, SameVotes
  <2> QED
    BY <2>2, <2>4, <2>5 DEF q
<1>5. CASE /\ ~(t.voteRound = NoRound \/ vote.N > t.voteRound.N)
           /\ vote.N = t.voteRound.N
  <2>1. q = CountVote(t, vote)
    BY <1>3, <1>5
  <2>2. WellFormed(q, K) /\ Follows(t, q) /\ LastRound(q)
    BY <1>1, <1>5, <2>1, CountVoteWellFormed
  <2>3. Follows(s, q)
    BY <1>1, <2>2, FollowsTransitive DEF WellFormed
  <2> QED
    BY <2>2, <2>3 DEF q
<1>6. CASE /\ ~(t.voteRound = NoRound \/ vote.N > t.voteRound.N)
           /\ vote.N # t.voteRound.N
  <2>1. q = t
    BY <1>3, <1>6
  <2> QED
    BY <1>1, <1>6, <2>1 DEF q
<1> QED
  BY <1>4, <1>5, <1>6

-----------------------------------------------------------------------------
(* Whom a client follows.                                                  *)

\* No leader but the one before, or the winner of a concluded round.
Adopted(s, t) ==
    t.leader \in {s.leader, Nil} \cup {x.leader : x \in t.decided}

LEMMA BecomeLeaderLeader ==
    ASSUME NEW s \in CoreStates
    PROVE  becomeLeader(s).leader \in {s.leader, Nil}
<1> DEFINE free == DropLeader([s EXCEPT !.Rank = Director])
           T    == IF s.isLeader THEN free.timed ELSE s.peers
           lead == SpawnSyncRoster([free EXCEPT !.isLeader = TRUE, !.timed = T])
<1>1. becomeLeader(s) = Onward(free, lead)
  BY DEF becomeLeader
<1>2. free \in CoreStates /\ free.leader \in {s.leader, Nil}
  <2> DEFINE rank == [s EXCEPT !.Rank = Director]
  <2>1. rank \in CoreStates /\ rank.leader = s.leader
    BY DEF CoreStates, Ranks, Director
  <2> HIDE DEF rank
  <2>2. /\ DropLeader(rank) \in CoreStates
        /\ DropLeader(rank).leader \in {s.leader, Nil}
    BY <2>1, DropLeaderType
  <2> QED
    BY <2>2 DEF rank
<1> HIDE DEF free, T
<1>3. lead.leader = free.leader
  BY <1>2 DEF SpawnSyncRoster, CoreStates
<1> HIDE DEF lead
<1> QED
  BY <1>1, <1>2, <1>3 DEF Onward

\* Following v, a client has the leader it had, none, or v.
LEMMA SetLeaderLeader ==
    ASSUME NEW s \in CoreStates, NEW v
    PROVE  /\ setLeader(s, v).leader \in {s.leader, Nil, v}
           /\ setLeader(s, v).decided = s.decided
<1> DEFINE less == [s EXCEPT !.peers = @ \ {v}]
           free == DropLeader(less)
<1>1. less \in CoreStates /\ less.leader = s.leader /\ less.decided = s.decided
  BY DEF CoreStates
<1>2. /\ free \in CoreStates /\ free.leader \in {s.leader, Nil}
      /\ free.decided = s.decided
  <2> HIDE DEF less
  <2> QED BY <1>1, DropLeaderType DEF SameVotes
<1>3. setLeader(s, v) \in {Onward(free, SpawnSyncRoster(free)), s,
                           [s EXCEPT !.status = "panic"],
                           Onward(free, SpawnSyncRoster([free EXCEPT !.leader = v]))}
  BY DEF setLeader
<1> HIDE DEF free
<1>4. /\ SpawnSyncRoster(free).leader = free.leader
      /\ SpawnSyncRoster(free).decided = free.decided
      /\ SpawnSyncRoster([free EXCEPT !.leader = v]).leader = v
      /\ SpawnSyncRoster([free EXCEPT !.leader = v]).decided = free.decided
      /\ [s EXCEPT !.status = "panic"].leader = s.leader
      /\ [s EXCEPT !.status = "panic"].decided = s.decided
  BY <1>2 DEF SpawnSyncRoster, CoreStates
<1> QED
  BY <1>2, <1>3, <1>4 DEF Onward

LEMMA ElectNewLeaderLeader ==
    ASSUME NEW s \in CoreStates, NEW vote
    PROVE  electSpecificLeader(s, vote).leader \in {s.leader, Nil}
<1>1. CASE s.leader = Nil /\ s.peers = {} /\ vote = s.Id
  <2> DEFINE u == [s EXCEPT !.retry = FALSE]
  <2>1. u \in CoreStates /\ u.leader = s.leader
    BY DEF CoreStates
  <2>2. electSpecificLeader(s, vote) = becomeLeader(u)
    BY <1>1 DEF electSpecificLeader
  <2> HIDE DEF u
  <2> QED
    BY <2>1, <2>2, BecomeLeaderLeader
<1>2. CASE ~(s.leader = Nil /\ s.peers = {} /\ vote = s.Id)
  BY <1>2 DEF electSpecificLeader, CoreStates
<1> QED
  BY <1>1, <1>2

\* Concluding a round is the only way to a new leader, and records it.
LEMMA ConcludeAdopts ==
    ASSUME NEW s \in CoreStates, s.voteRound \in Rounds
    PROVE  Adopted(s, Conclude(s))
<1> DEFINE round == s.voteRound
           v     == round.MyVote
           x     == [N |-> round.N, leader |-> v, voters |-> Voters(round)]
           over  == [s EXCEPT !.voteRound = NoRound, !.decided = @ \cup {x}]
           other == [s EXCEPT !.c_electLeader = @ + 1]
<1>1. x \in Decisions
  BY DEF Rounds, Decisions, Voters
<1>2. x.leader = v
  OBVIOUS
<1> HIDE DEF x
<1>3. /\ over \in CoreStates /\ over.leader = s.leader /\ x \in over.decided
      /\ over.Id = s.Id /\ over.isLeader = s.isLeader
  BY <1>1 DEF CoreStates
<1>4. other.leader = s.leader
  BY DEF CoreStates
<1>5. \/ Conclude(s) = becomeLeader(over)
      \/ Conclude(s) = setLeader(over, v) /\ v # Nil
      \/ Conclude(s) = other
      \/ Conclude(s) = over
  BY ClientAssumption DEF Conclude, x, Rounds, CoreStates
<1> HIDE DEF over, other
<1>6. CASE Conclude(s) = becomeLeader(over)
  BY <1>3, <1>6, BecomeLeaderLeader DEF Adopted
<1>7. CASE Conclude(s) = setLeader(over, v) /\ v # Nil
  <2> DEFINE t == setLeader(over, v)
  <2>1. t.leader \in {over.leader, Nil, v} /\ t.decided = over.decided
    BY <1>3, SetLeaderLeader
  <2> HIDE DEF t
  <2> QED
    BY <1>2, <1>3, <1>7, <2>1 DEF Adopted, t
<1> QED
  BY <1>3, <1>4, <1>5, <1>6, <1>7 DEF Adopted

\* Whatever a vote makes a client do, it only follows whom it elected.
LEMMA AcceptLeaderVoteAdopts ==
    ASSUME NEW K, NEW s, WellFormed(s, K), LastRound(s),
           NEW vote \in LeaderVotes
    PROVE  Adopted(s, acceptLeaderVote(s, vote))
<1> DEFINE o == IF s.voteRound = NoRound THEN electNewLeader(s) ELSE s
           u == [o EXCEPT !.nextVoteRoundN = vote.N]
           t == OpenRound(s, vote)
           q == acceptLeaderVote(s, vote)
<1>1. s \in CoreStates /\ o \in CoreStates
  BY ElectNewLeaderWellFormed DEF WellFormed
<1>2. o.leader \in {s.leader, Nil}
  BY <1>1, ElectNewLeaderLeader DEF electNewLeader
<1>3. t = IF o.voteRound # NoRound /\ vote.N > o.voteRound.N
          THEN electNewLeader(u) ELSE o
  BY DEF OpenRound
<1> HIDE DEF o
<1>4. u \in CoreStates /\ u.leader = o.leader
  BY <1>1 DEF CoreStates, LeaderVotes
<1> HIDE DEF u
<1>5. t.leader \in {s.leader, Nil}
  BY <1>2, <1>3, <1>4, ElectNewLeaderLeader DEF electNewLeader
<1>6. t \in CoreStates
  BY OpenRoundWellFormed DEF WellFormed
<1>7. q = CASE t.voteRound = NoRound \/ vote.N > t.voteRound.N ->
                 [t EXCEPT !.status = "overflow"]
            [] t.voteRound # NoRound /\ vote.N = t.voteRound.N ->
                 CountVote(t, vote)
            [] OTHER -> t
  BY DEF acceptLeaderVote
<1> HIDE DEF t
<1>8. CASE q.leader = t.leader
  BY <1>5, <1>8 DEF Adopted
<1>9. CASE t.voteRound # NoRound /\ q = CountVote(t, vote)
  <2> DEFINE w    == [t EXCEPT !.voteRound.Votes[vote.Sender] = vote.Vote]
             done == [w EXCEPT !.retry = FALSE]
  <2>1. q = IF Cardinality(Voters(w.voteRound)) < PeerCount(w) THEN w
            ELSE IF Tallied(w.voteRound) = {w.voteRound.MyVote}
            THEN Conclude(done)
            ELSE electSpecificLeader(done, Majority(w.voteRound))
    BY <1>9 DEF CountVote
  <2>2. t.voteRound \in Rounds
    BY <1>6, <1>9 DEF CoreStates
  <2>3. w \in CoreStates /\ w.leader = t.leader /\ w.voteRound \in Rounds
    BY <1>6, <2>2 DEF CoreStates, Rounds, LeaderVotes
  <2> HIDE DEF w
  <2>4. /\ done \in CoreStates /\ done.leader = t.leader
        /\ done.voteRound \in Rounds
    BY <2>3 DEF CoreStates
  <2> HIDE DEF done
  <2>5. Adopted(done, Conclude(done))
    BY <2>4, ConcludeAdopts
  <2>6. electSpecificLeader(done, Majority(w.voteRound)).leader
            \in {t.leader, Nil}
    BY <2>4, ElectNewLeaderLeader
  <2> QED
    BY <1>5, <2>1, <2>3, <2>4, <2>5, <2>6 DEF Adopted
<1>10. q.leader = t.leader \/ (t.voteRound # NoRound /\ q = CountVote(t, vote))
  <2>1. [t EXCEPT !.status = "overflow"].leader = t.leader
    BY <1>6 DEF CoreStates
  <2> QED
    BY <1>7, <2>1
<1> QED
  BY <1>8, <1>9, <1>10

=============================================================================
