------------------------------ MODULE VideoSync ------------------------------
(***************************************************************************)
(* How the video is kept in step (ts/wetube.ts; run.go 418-458, 586-601):  *)
(* the pages of a leader and of the members that have joined its session.  *)
(* Pages of Editors and Directors report their player, when its state      *)
(* changes and by an interval.  The clients pass the reports on to the     *)
(* leader, in order.  The leader starts a goroutine for each report that   *)
(* sends it to the pages one after the other, so two of them may overtake  *)
(* each other on the way to some and not to others.  A page that gets an   *)
(* update adjusts its player and does not report for two seconds.          *)
(*                                                                         *)
(* The queues from page to client to leader are one queue, the page's      *)
(* sent, and so are those from the leader to a page.  What the clients     *)
(* remember of the video (updateVideo) is read only when a session starts. *)
(***************************************************************************)
EXTENDS Page, FiniteSets

CONSTANTS
    Member,       \* The members of the session
    Leader,       \* Its leader
    RankOf,       \* The ranks the members have joined with
    MaxActs,      \* Bound on what users and the ends of videos do
    MaxDemotions, \* Bound on the members that are made Viewers
    MaxUnblocks,  \* Bound on the timers of a page
    MaxReports    \* Bound on the reports of a page that are on their way

ASSUME VideoSyncAssumption ==
    /\ Leader \in Member
    /\ RankOf \in [Member -> Ranks] /\ RankOf[Leader] = Director
    /\ {MaxActs, MaxDemotions, MaxUnblocks, MaxReports} \subseteq Nat

VARIABLES
    page,      \* page[m]: the page of a member
    peerRank,  \* peerRank[m]: its rank, as the leader knows it
    ranks,     \* ranks[m]: the ranks on their way to its page
    tasks,     \* handleVideoUpdateRequestAsLeader goroutines
    updates,   \* updates[m]: the updates on their way to its page
    acts,      \* How much users have done
    demotions  \* How many members have been made Viewers

vars == <<page, peerRank, ranks, tasks, updates, acts, demotions>>

Reports == [from : Member, video : VideoInstants]
Tasks   == [from : Member, video : VideoInstants, to : SUBSET Member]

\* Every variable has its type: in particular each report on its way to the
\* leader and each update on its way to a page says one of the four states
\* that both sides know, whatever state its player was in (wetube.ts 92-106).
TypeOK ==
    /\ page \in [Member -> PageStates]
    /\ peerRank \in [Member -> Ranks]
    /\ ranks \in [Member -> Seq(Ranks)]
    /\ tasks \in Seq(Tasks)
    /\ updates \in [Member -> Seq(Reports)]
    /\ acts \in 0..MaxActs
    /\ demotions \in 0..MaxDemotions

\* A page that has just joined, or started the session: its player has been
\* embedded (handleSessionOk, handleJoinConfirmation).
JoinedPage(m) ==
    initYouTube(setMyRank([NewPage EXCEPT !.socket    = "open",
                                          !.heartbeat = TRUE,
                                          !.timeout   = TRUE], RankOf[m]),
                DefaultVideo)

\* startSession shows the leader the video it starts with.
FirstUpdate ==
    [from  |-> Leader,
     video |-> [Id |-> DefaultVideo, State |-> "Unstarted",
                SecondsElapsed |-> 0]]

Init ==
    /\ page = [m \in Member |-> JoinedPage(m)]
    /\ peerRank = RankOf
    /\ ranks = [m \in Member |-> <<>>]
    /\ tasks = <<>>
    /\ updates = [m \in Member |->
                    IF m = Leader THEN <<FirstUpdate>> ELSE <<>>]
    /\ acts = 0
    /\ demotions = 0

-----------------------------------------------------------------------------
(* Pages and players.                                                      *)

PageStep(m, p) ==
    /\ page' = [page EXCEPT ![m] = p]
    /\ UNCHANGED <<peerRank, ranks, tasks, updates, demotions>>

PlayerReady(m) ==
    /\ page[m].player # Nil /\ ~page[m].ytplayer
    /\ PageStep(m, onYouTubePlayerReady(page[m])) /\ UNCHANGED acts

\* The reports of m that have not reached everyone.
UnderWay(m) ==
    Len(page[m].sent)
      + Cardinality({n \in DOMAIN tasks : tasks[n].from = m})
      + Cardinality({x \in Member :
                       \E n \in DOMAIN updates[x] : updates[x][n].from = m})

PlayerReports(m) ==
    /\ page[m].ytplayer /\ page[m].event # Nil
    /\ UnderWay(m) < MaxReports
    /\ PageStep(m, onStateChange(page[m])) /\ UNCHANGED acts

\* Five seconds are enough for the last report of an interval to arrive.
IntervalReports(m) ==
    /\ page[m].intervals > 0
    /\ UnderWay(m) = 0
    /\ PageStep(m, VideoHeartbeat(page[m])) /\ UNCHANGED acts

EchoUnblocks(m) ==
    /\ page[m].unblocks > 0
    /\ PageStep(m, Unblock(page[m])) /\ UNCHANGED acts

PlayerBuffered(m) ==
    /\ page[m].ytplayer /\ page[m].player.state = "BUFFERING"
    /\ PageStep(m, TurnTo(page[m], "PLAYING")) /\ UNCHANGED acts

Act(m, p) ==
    /\ page[m].ytplayer
    /\ acts < MaxActs /\ acts' = acts + 1
    /\ PageStep(m, p)

PlayerEnds(m) ==
    /\ page[m].player.state = "PLAYING"
    /\ Act(m, TurnTo(page[m], "ENDED"))

\* The controls of the player, which every user has.
UserPlays(m) ==
    /\ page[m].player.state # "PLAYING"
    /\ Act(m, playVideo(page[m]))

UserPauses(m) ==
    /\ page[m].player.state = "PLAYING"
    /\ Act(m, pauseVideo(page[m]))

UserSeeks(m, at) ==
    /\ page[m].player.at # at
    /\ Act(m, seekTo(page[m], at))

\* #video_form, which is hidden from Viewers.
UserSelects(m, video) ==
    /\ page[m].myRank >= Editor
    /\ page[m].player.video # video
    /\ Act(m, selectNewVideo(page[m], video))

PageUpdates(m) ==
    /\ updates[m] # <<>>
    /\ page[m].unblocks < MaxUnblocks
    /\ page' = [page EXCEPT ![m] = handleMessage(@,
                  [type |-> "VideoUpdate", video |-> Head(updates[m]).video])]
    /\ updates' = [updates EXCEPT ![m] = Tail(@)]
    /\ UNCHANGED <<peerRank, ranks, tasks, acts, demotions>>

PageRanks(m) ==
    /\ ranks[m] # <<>>
    /\ page' = [page EXCEPT ![m] = handleMessage(@,
                  [type   |-> "RosterUpdate",
                   roster |-> [mine |-> Head(ranks[m]), others |-> {}]])]
    /\ ranks' = [ranks EXCEPT ![m] = Tail(@)]
    /\ UNCHANGED <<peerRank, tasks, updates, acts, demotions>>

-----------------------------------------------------------------------------
(* The leader.                                                             *)

\* Whose reports the leader serves: its own page's, and those of peers that
\* are Editors or Directors.
Permitted(m) == m = Leader \/ peerRank[m] \in {Editor, Director}

\* handleVideoUpdateRequest.  A report of the leader's own page is not sent
\* back to it.
LeaderReads(m) ==
    /\ page[m].sent # <<>>
    /\ LET request == Head(page[m].sent)
           to      == IF m = Leader THEN Member \ {Leader} ELSE Member
       IN  tasks' = IF Permitted(m) /\ to # {}
                    THEN Append(tasks, [from  |-> m,
                                        video |-> request.video,
                                        to    |-> to])
                    ELSE tasks
    /\ page' = [page EXCEPT ![m].sent = Tail(@)]
    /\ UNCHANGED <<peerRank, ranks, updates, acts, demotions>>

\* handleVideoUpdateRequestAsLeader: the leader's own page first, then the
\* peers in any order.
BroadcastStep(n, m) ==
    /\ m \in tasks[n].to
    /\ m # Leader => Leader \notin tasks[n].to
    /\ updates' = [updates EXCEPT ![m] =
         Append(@, [from |-> tasks[n].from, video |-> tasks[n].video])]
    /\ tasks' = IF tasks[n].to = {m}
                THEN SubSeq(tasks, 1, n - 1)
                       \o SubSeq(tasks, n + 1, Len(tasks))
                ELSE [tasks EXCEPT ![n].to = @ \ {m}]
    /\ UNCHANGED <<page, peerRank, ranks, acts, demotions>>

\* The leader makes a member a Viewer (handleRankChangeRequestAsLeader).
Demote(m) ==
    /\ m # Leader /\ peerRank[m] # Viewer
    /\ demotions < MaxDemotions
    /\ demotions' = demotions + 1
    /\ peerRank' = [peerRank EXCEPT ![m] = Viewer]
    /\ ranks' = [ranks EXCEPT ![m] = Append(@, Viewer)]
    /\ UNCHANGED <<page, tasks, updates, acts>>

-----------------------------------------------------------------------------
MemberNext(m) ==
    \/ PlayerReady(m) \/ PlayerReports(m) \/ IntervalReports(m)
    \/ EchoUnblocks(m) \/ PlayerBuffered(m)
    \/ PageUpdates(m) \/ PageRanks(m)
    \/ LeaderReads(m)

UserNext(m) ==
    \/ PlayerEnds(m) \/ UserPlays(m) \/ UserPauses(m)
    \/ \E at \in Second : UserSeeks(m, at)
    \/ \E video \in Video : UserSelects(m, video)

Next ==
    \/ \E m \in Member : MemberNext(m) \/ UserNext(m) \/ Demote(m)
    \/ \E n \in DOMAIN tasks : \E m \in tasks[n].to : BroadcastStep(n, m)

\* Timers elapse, the player loads and reports, and queues are read; users
\* need not do anything.  An update embeds a player that is loading again, so
\* that it gets ready assumes that it loads between two updates.
Fairness ==
    /\ \A m \in Member :
         /\ WF_vars(PlayerReady(m)) /\ WF_vars(PlayerReports(m))
         /\ WF_vars(IntervalReports(m)) /\ WF_vars(EchoUnblocks(m))
         /\ WF_vars(PlayerBuffered(m)) /\ WF_vars(PageUpdates(m))
         /\ WF_vars(PageRanks(m)) /\ WF_vars(LeaderReads(m))
    /\ WF_vars(\E n \in DOMAIN tasks : \E m \in tasks[n].to :
                 BroadcastStep(n, m))

Spec == Init /\ [][Next]_vars /\ Fairness

-----------------------------------------------------------------------------
(* Properties.                                                             *)

\* The id that a page compares updates with and puts into its reports is that
\* of the video in its player, whatever was selected, received and embedded
\* in between (wetube.ts 73, 214-215, 315-332).
VideoIdTrue == \A m \in Member : KnowsVideo(page[m])

\* A page whose reports are blocked has a timer running that lets them
\* through again: no order of updates and timers silences an Editor for good
\* (wetube.ts 312-313).
BlockLifted == \A m \in Member : BlockedWhileTimed(page[m])

\* The player of a member shows what the leader's shows.
Follows(m) ==
    LET own    == page[m].player
        leader == page[Leader].player
    IN  /\ own.video = leader.video
        /\ own.at = leader.at
        /\ own.state = "PLAYING" <=> leader.state = "PLAYING"

InSync == \A m \in Member : Follows(m)

OnlyViewers == \A m \in Member \ {Leader} : peerRank[m] = Viewer

\* Once the others are Viewers, all players end up showing what the leader's
\* shows, whatever their users did with the controls, and whatever a member
\* that was an Editor has still sent (README.md 50-54; wetube.ts 107,
\* 310-354, run.go 437).
ViewersFollow == <>[]OnlyViewers => <>[]InSync

=============================================================================
