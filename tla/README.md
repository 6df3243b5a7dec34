# A TLA+ model of WeTube

WeTube keeps a YouTube video in step between the members of a session. Every
member runs a Go *client* (`src/src/wetube`) and a browser page
(`src/ts/wetube.ts`); the clients form a peer-to-peer network in which one of
them, the *leader*, decides. This directory holds TLA+ modules translated from
that code, TLC configurations that check them on small sessions, and theorems
that TLAPS proves for sessions of every size.

All paths below are relative to `src/`; the Go files are in `src/wetube/`.

## 1. Inventory

| Part | State it keeps | Operations | What makes it correct |
|---|---|---|---|
| **Client state** (`client.go`, `NewClient`) | `isLeader`, `leader`, `peers`, `Rank`, `video`, `voteRound`, `nextVoteRoundN` | one actor goroutine serves fifteen request channels with a `select`: `becomeLeader`, `setLeader`, `deletePeer`, `addPeer`, `updatePeer`, `updateRoster`, `updateVideo`, `leaderVote`, `electLeader` and six queries | whoever leads has no leader; the leader is not a peer too; each request is served whole |
| **Leader election** (`client.go` 505-608, `run.go` 245-250, 603-615) | the open round and its votes, the retry timer | a client that misses its leader drops it and votes; votes open, restart and conclude rounds | one vote per round; votes counted as cast; agreement; a lost leader is replaced |
| **Peer connection** (`establishPeerConnection`) | the WebSocket, `CloseChannel` (1), `OutChannel` (91), the flag `running` | a reader goroutine, a writer goroutine, the actor, heartbeat timers | connections are closed for a cause only; broken ones are reported; the actor is not held up by a sound one |
| **Heartbeats** (`run.go` 110-121, 311-351) | `LeaderTimeout`, `Peer.Timeout`, `BrowserTimeout` | sent every 5 s, answered by the leader, 10 s without one is a timeout | the silent are dropped, and only they |
| **Roster synchronisation** (`syncRoster`, `updateRoster`) | each client's peers and ranks | the leader broadcasts its roster after every change; the others dial and drop peers to match | all converge on the leader's roster |
| **Session start, invitations** (`run.go` 65-236, 353-416, 510-569) | the phase of the client, `OutstandingInvitations`, the invitation | a Director has somebody invited; the invited accepts, connects back, is added and confirmed | who is confirmed is in the roster, with the rank that was offered |
| **Rank changes** (`run.go` 460-508) | `Peer.Rank` | a Director asks the leader | only Directors change ranks; the leader stays one |
| **Video** (`updateVideo`, `run.go` 418-458, 586-601) | the video, its state and position | an Editor asks the leader, which applies and broadcasts | everybody ends with the leader's video |
| **Incoming sockets** (`websockets.go`) | the channel to the browser, the input channel | one handler per connection decodes and forwards | a rejected or lost browser does not bring the client down |
| **Browser page** (`ts/wetube.ts`) | rank, `videoId`, player, intervals and timers, `echoBlock`, dialogs and the handlers added to them | message handlers, player callbacks, what the user clicks | page and client agree on the rank; one interval reports the player; a page knows what it shows; either side notices that the other has gone |
| **Signatures and encoding** (`PeerMessage.go`, `BrowserMessage.go`) | none | sign, verify against the key of a known peer | messages of strangers are ignored |

How they interact. A client has one *event loop* goroutine (`Run`: three phases,
then `eventLoop`) that handles messages of its browser and of peers one by one,
and one *actor* goroutine that owns the state. The event loop, timers and
short-lived goroutines (`go client.syncRoster()`, `go client.BroadcastToPeers`)
talk to the actor over Go channels. Between two clients there are two
WebSockets, one for each direction; each is owned by the sender, with a reader
and a writer goroutine. A client serves one page over one more WebSocket. The page
runs one handler at a time: a message, a click, a callback of the player or a
timer. Its requests go to its client, which passes them on to the leader, and what
the leader decides comes back to all pages.

What is hard to test here. The actor takes requests of *different kinds in any
order*; what it starts with `go` runs later, when its state has moved on; timers
fire between any two steps; connections lose what was not written; the vote of a
client that has gone can still be in a queue; two goroutines share a flag without
a lock; and a channel with room for one signal has up to four senders. In the
page, intervals and timers outlive the state they were started for, handlers are
added and never removed, the player becomes ready whenever it likes, and reports of
two players cross on the way. The
`hazards` of PROJECT.json list these places line by line.

## 2. The modules

| Module | What it models |
|---|---|
| `ClientCore` | the actor's state and its operations, as functions from state to state |
| `Election` | a session: actors, event loops, timers, goroutines and connections of all clients; composes `ClientCore` |
| `PeerConnection` | one outgoing connection at the grain of its goroutines |
| `Joining` | how clients come together: session start, invitations, confirmation, rosters, ranks; hosts, guests and their browsers |
| `Voting` | what elections promise, without channels, messages, timers or failures; `Election` implements it |
| `Page` | the script of a page: its variables, and every handler as a function from state to state |
| `Browser` | a client and its page, from the connection to the end of the session; composes `Page` with the phases and the actor of the client |
| `VideoSync` | the pages of a leader and of the members, and the leader's goroutines between them; composes `Page` |
| `MCElection`, `MCPeerConnection`, `MCJoining`, `MCBrowser`, `MCVideoSync` | constants for TLC |
| `ClientCoreProofs` | lemmas about the operations of `ClientCore` |
| `ElectionProofs` | the inductive invariant of `Election` and its theorems |
| `PeerConnectionProofs` | the same for `PeerConnection` |
| `PageProofs` | lemmas about the handlers of `Page` |
| `BrowserProofs`, `VideoSyncProofs` | the inductive invariants of `Browser` and `VideoSync` and their theorems |
| `BrowserRankProofs` | the second inductive invariant of `Browser`, about the rank of the page |
| `JoiningProofs` | the inductive invariant of `Joining` and its theorems |

### ClientCore

`CoreStates` is the part of `Client` that elections touch. Every operation of
the actor is an operator `op(s, ...)` that returns the state after it;
`becomeLeader`, `setLeader`, `electNewLeader`, `electSpecificLeader` and
`acceptLeaderVote` keep the names of the code. Because the actor finishes one
request before it takes the next, each is one atomic step, with all the calls it
makes. What it starts with `go` is recorded in the state (`broadcasts`,
`syncRoster`, `c_electLeader`, `retry`, `closing`) and happens later.

`acceptLeaderVote` is recursive in the code: it calls itself after opening a
round and after moving on to a later one. The recursion is at most two calls deep
unless it is endless (a client alone appoints itself without opening a round, so
the condition that led to the call stays true); `OpenRound` is those calls and
the status `"overflow"` the endless case. The panic of `setLeader` is the status
`"panic"`.

To drop a leader or a peer the actor sends on its `CloseChannel`, which has room for
one signal. `full` are the connections whose writer has exited and has left a signal
there (`PeerConnection` shows when that happens): a send to one of them never
returns. Such an actor has the status `"blocked"`, with the state as it was at the
send (`DropLeader`, `updateRoster`); `Onward` is the rest of the operation, for an
actor that is not blocked. Timers, goroutines and connections of a blocked client
go on, but nobody serves their requests.

Three details of the code are kept because they matter:
`electNewLeader` starts its search for a Director at `math.MinInt32`
(`Candidate`); the roster entry of its sender has no address, so dialling it
reaches the client's own server (`loopback`); and the timers `becomeLeader`
starts share the loop variable, so each of them signals the same, last peer
(`timed`, `timerPeer`, `TimerTargets`).

### Election

`core[c]` is the actor, `chan[c]` its request channels (one queue per kind),
`net[c][d]` what `c` has sent to `d` and `d` has not handled, and `timer[c]` the
leader for which `LeaderTimeout` was last reset.

| Action | Code |
|---|---|
| `DoSetLeader`, `DoElectLeader`, `DoLeaderVote`, `DoDeletePeer`, `DoUpdateRoster` | the cases of the `select` in `NewClient` |
| `LeaderTimeout`, `HeartbeatAck` | `eventLoop`, `handleHeartbeat`, `handleHeartbeatAck` |
| `PeerTimeout` | the timers of `handleHeartbeat` and `becomeLeader` |
| `RetryTimeout`, `RetryElection` | the function of `ElectionRetryTimeout`: two queries, then a request |
| `SendVote`, `SyncRoster` | the goroutines of `electSpecificLeader` and `syncRoster` |
| `ReceiveVote`, `ReceiveRoster` | `handleLeaderVote`, `handleRosterUpdate` |
| `ConnectionLost`, `LeaderConnectionLost`, `WriterExit` | the end of `establishPeerConnection`'s goroutines, to a peer, to the leader, and of one that was told to close; each may leave a signal |
| `Crash` | a client goes: browser timeout, end of session, power |

Abstractions. Time: an armed timer may fire in any state in which what it waits
for does not keep coming; `Late` names the clients whose heartbeats may come too
late although they are alive. A `syncRoster` reads the roster and broadcasts it
in one step, and a client has at most one pending: two that run after each other
send the same roster. What a client sends to one that has gone is lost.
Signatures: a vote is taken if its sender is a known peer, which is what
`ReadValue` needs to find a key. A peer that is dropped and dialled again has the
same id, and a `DeletePeer` of the old connection removes the new peer, as in the
code. Channel capacities (16, 91) are not reached within the bounds, except that
of `c_setLeader`.

### Voting

Three variables: the votes every client has cast, the rounds it has concluded (with
the winner and whose votes it counted) and the leader it follows. A step is the step
of one client, which may vote in rounds later than all it has voted in, once in each
(`Votes`); conclude a round for the candidate it voted for itself, with voters that
all voted for it (`Decides`); drop its leader, or follow the winner of a round it has
concluded (`Adopts`). `ImplementsVoting` is this specification with the variables of
`Election` in it: `cast` and `decided` are history that `ClientCore` keeps for it.

### PeerConnection

One step per statement that another goroutine can observe. `stopped` is the set
of goroutines that have assigned `running = false`; one that has done so reads
false, one that has not may read either. `NextWriter` fails only after an earlier
write has failed, as in the vendored library, and the errors of `Encode` and
`Close` are ignored, as in the code.

### Joining

*Hosts* start a session and lead it, *guests* join one. Every invitation opens a
connection of its own from the host to the guest, over which confirmation and
rosters come later, so `conn[i]`, `out[i]` and the `Peer` struct behind it are
known by the invitation `i`; the connection back, over which the guest answers, is
only the set `responses`.

| Action | Code |
|---|---|
| `HostInit`, `GuestInit`, `DoBecomeLeader`, `EnterLoop` | `startSession` and the way out of `waitForInvitation` |
| `InvitationRequest`, `DialInvited` | `handleInvitationRequest`, its two goroutines |
| `ReceiveInvitation`, `GuestResponds`, `ReceiveConfirmation`, `DropMessage` | the cases of `waitForInvitation` |
| `BrowserAnswers`, `ShowInvitation` | `respondToInvitation` and the dialog in `wetube.ts` |
| `HandleResponse`, `ReadRoster`, `SendConfirmation`, `SendBroadcast` | `handleInvitationResponse`: up to `AddPeer`, each `GetRoster`, each send |
| `RankChangeRequest` | `handleRankChangeRequest`, its goroutine |
| `DoSetLeader`, `DoUpdateRoster`; `DoAddPeer`, `DoUpdatePeer`, `DoDeletePeer` | cases of the `select` in `NewClient`, of guests and of hosts |
| `SyncReads`, `SyncSends` | `syncRoster`: the roster is read, and later sent |
| `Heartbeat`, `PeerTimeout` | `handleHeartbeat` and its timer |
| `ConnectionLost`, `WriterExit`, `Exit` | the end of a connection, of a guest |

The handler of a response is cut into steps wherever it waits for the actor,
because the rosters it reads, and the order in which they are sent, are what can go
wrong. Abstractions: a host does not lose its leadership (that is `Election`); of
a roster only the guests and their ranks are kept; names, keys and signatures are
left out (a guest states its own id and key, so the two checks on them never
fail); a request of a Director travels and is authorised in one step; a
connection fails only when the guest has gone; `Exit` covers a process that ends,
which `ConnectionLost` may report, and a machine that hangs, which nothing
reports. `Random` is a parameter; the runs use a number per invitation, so the
refusal of a number that is in use is in the model but not in the runs.
`confirmedBy` and `ignored` are history variables.

### Page

`PageStates` has the variables of the script under their own names, and what the
script has set up in the browser: the intervals that report the player (`intervals`;
`videoHeartbeat` is whether the script holds a handle), the two-second timers
(`unblocks`), requests for a title (`titles`), submit handlers (`submitters`),
dialogs, the list of peers, the player and the event it has to report, and what was
sent through the socket. Functions of the script keep their names; the cases of
`handleMessage` are `handleInvitation`, `handleJoinConfirmation` and so on.

External, from how the script uses it: the YouTube player (`Players`, `seekTo`,
`playVideo`, ...). A player buffers before it plays; changes of state that follow
each other before the player reports them are reported as one, the last; a player
that is embedded takes the place of the one before it. A position is the one
extrapolated to the present, so that of a playing player stands still and a report
is as good when it arrives as when it was sent. Left out: names, titles, addresses,
texts, layout, and input that the script refuses with an alert (an empty name, a
video id that has not eleven characters).

### Browser

| Action | Code |
|---|---|
| `ConnectToBrowser`, `BrowserConnectionTimeout`, `RefuseBrowser` | `connectToBrowser`, and the refusal of a second page |
| `RespondSessionOk`, `ShowFirstVideo` | the rest of `startSession` for a new leader, which the actor may overtake with the roster |
| `ReadMessage`, `EnterWait`, `InvitationResponse` | the loops of `startSession`, `waitForInvitation` and `eventLoop` with a message of the page |
| `InvitationArrives`, `JoinConfirmation`, `JoinRefused` | `waitForInvitation` with messages of a leader |
| `RosterArrives`, `VideoArrives`, `EndSessionArrives`, `PeersChange`, `WinElection` | `eventLoop` and the actor, with what the rest of the session does |
| `ActorBecomeLeader`, `ActorSetLeader`, `ActorUpdateRoster`, `ActorUpdatePeer` | cases of the `select` in `NewClient` |
| `RankChangeAsLeader`, `SyncReads`, `SyncSends` | the goroutines of `handleRankChangeRequest` and of `syncRoster`, which reads the roster and later sends it |
| `ReaderFails`, `BrowserTimeout`, `LoseUnsent` | `browserSocketHandler`, the `BrowserTimeout` of every loop, what a dead process had not written |
| `PageReceives`, `PageHeartbeat`, `PageTimeout`, `SocketError`, `PlayerReady`, `EchoUnblocks`, `ReceiveTitle` | the callbacks of the script |
| `ChooseSession`, `AnswerInvitation`, `OpenInvitation`, `CancelInvitation`, `SubmitInvitation`, `ClickPeer`, `ClosePeerInfo`, `SubmitRankChange`, `EndSession`, `ClosePage` | the user |

The client ends when `BrowserTimeout` fires, when the session ends, when its actor is
told to follow somebody although it leads by then (the panic of `setLeader`, in
`ActorSetLeader`), and when something is sent on `ToBrowser` after the reader of the
socket has closed it, which is a panic in Go (`TellBrowser`). The reader closes it as
soon as it has read the socket to its end; what the page had sent may still wait in
the input channel (`ReaderFails`), so that the answer to it may be the send that
panics. That the event loop may be held up behind a blocked actor is `Election` and
`PeerConnection`, and not repeated here. The other members are the environment: what they
may do to a client is any confirmation, roster, video or end that `Joining`,
`Election` and `VideoSync` let them send, as often as `Max` says. A user does nothing
more once the page has said that the connection is lost. `overtaken` is history.

### VideoSync

All members have joined and the players are embedded. A report of a page
(`PlayerReports`, `IntervalReports`) goes through its client to the leader
(`LeaderReads`: the rank is tested), which starts a goroutine that puts it into the
queues to the pages one after the other (`BroadcastStep`); goroutines overtake each
other. Users play, pause, seek and select as they like (`UserPlays`, ...), a video
may end, and the leader may make a member a Viewer (`Demote`), which its page learns
in its own time (`PageRanks`).

## 3. Runs

| Run | Instance | Checks | Result |
|---|---|---|---|
| `ElectionCrash` | 3 clients, one Viewer, any 1 crash, 3 rounds | `TypeOK`, `LeaderNotPeer`, `OneVotePerRound`, `RoundAgreement`, `ImplementsVoting` | pass, 1.3 million states |
| `ElectionLate` | 2 clients, one with late heartbeats, 1 crash, 3 rounds, fairness | `CountedVotesWereCast`, `RoundsGoUp`, `DeadLeaderNoticed` | pass, 100 thousand states |
| `PeerConnection` | one connection, `CloseChannel` of 1, 3 messages | `TypeOK`, `NeverClosedUnasked`, `FailureReported`, `ClosedWhenAsked`, `ActorGetsThrough` | pass |
| `JoiningOne` | 1 host, 1 guest, 2 invitations of different ranks | `TypeOK`, `JoinedInRoster`, `RankSettles` | pass, 300 thousand states |
| `JoiningSilent` | 1 invitation, 1 change of rank, the guest may go; fairness | `SilentDropped` | pass |
| `BrowserJoin` | 1 choice of a session, 2 invitations of different ranks, 1 roster or election, 1 video | `TypeOK`, `OneVideoHeartbeat`, `RankAgrees` | pass, 2.6 million states |
| `BrowserLoss` | 1 choice, and once each: a roster, a click on a peer, an invitation, a change of rank, the end of the session, a stall, a heartbeat; fairness | `ClientLossNoticed`, `PageLossNoticed` | pass, 770 thousand states |
| `VideoViewers` | leader and Viewer, 2 actions of users, 2 videos, 2 positions; fairness | `TypeOK`, `VideoIdTrue`, `BlockLifted`, `ViewersFollow` | pass, 110 thousand states |
| `VideoDemoted` | leader and Editor who is made a Viewer, 1 action; fairness | `ViewersFollow` | pass, 650 thousand states |
| `ElectionPanic` | 2 clients, late heartbeats | `NeverPanics` | **violated** |
| `ElectionStall` | 2 clients, 1 crash, fairness | `LeaderReplaced` | **violated** |
| `BrowserForm` | a leader's page with 2 peers, 2 clicks, 1 change of rank | `OnlyShownPeer` | **violated** |

What the passing runs of sessions and connections show. `DeadLeaderNoticed`: a
leader that has answered a heartbeat and then disappears is given up, unless the
process ends or its actor is blocked by a signal left behind; that one exception is
the code's, and `ActorGetsThrough` says how narrow it is: over a connection that
neither broke nor was signalled by a timer, the actor always gets through.
`NeverClosedUnasked`: whatever the reader and the writer read of their unlocked flag,
a connection ends only if it broke, the actor dropped it, or a timer signalled it
(which may be the timer of another peer, `TimerTargets`).

The type invariants each have a part that several steps could break: a vote is for a
client, never for the sentinel of the search (`Election`); the deletion of a peer is
asked for at most once (`PeerConnection`); whoever is in a roster has the id of its
guest (`Joining`); a client in its event loop has a rank (`Browser`); a report says
one of the four states both sides know (`VideoSync`).

What the passing runs of the page show. `OneVideoHeartbeat`: however the player's
readiness, changes of rank and losses follow each other, the script has exactly the
interval it should have, and can stop it. `RankAgrees`: when nothing is on its way,
page and client have the same rank, although each of them took it from another place
first. `VideoIdTrue`: the id that decides between seeking and loading is that of the
video in the player. `BlockLifted`: no page stays blocked without a timer that will
end the block. `ViewersFollow`: once the others are Viewers, all players end up at
the leader's video, position and state, although goroutines overtake each other and
Viewers use their own controls. `ClientLossNoticed` and `PageLossNoticed`: in every
phase each side ends what depends on the other.

The violations are disagreements between the code and what its comments, its
README or its own panic message say; PROJECT.json quotes each.

* *Panic.* Client 2 leads from the start. The heartbeats of client 1 come late, so it
  starts an election, and votes for client 2 because `SetLeader(nil)` has not been
  served yet. The vote makes client 2 open a round too:
  `acceptLeaderVote` does not look at `isLeader`. It votes for the Director with the
  lowest id, which is client 1; after a round in which the votes differ, the tie goes
  to the lower id and the next round is unanimously for client 1. Client 2 is told to
  follow it, and `setLeader` panics.
* *Stall.* `SetLeader(nil)` and `ElectNewLeader()` travel in two channels. If the
  second is served first, the client votes for the leader it has lost; the retry
  timer, seeing a leader, does not retry; then the leader is removed.
* *Form.* `showPeerInfoWindow` adds a submit handler to the form each time. A
  Director who has looked at two peers and changes the rank of the second asks for
  a change of both.

The same modules show other behaviours that no run is kept for:

* a client that is no Director votes for the lowest id, never for the lowest
  Director, because the search starts at `math.MinInt32` (`Candidate`);
* one crash is enough for two leaders, without any late heartbeat: a Viewer with the
  lowest id votes for the leader it has lost (as in *Stall*), the others' votes and
  the tie make a Director leader in the next round, and then the Viewer's retry timer
  opens one more, in which the tie makes the Viewer itself leader. A leader is never
  told that others have elected somebody else, so both stay. `RoundAgreement` is what
  the code does guarantee: within a round, those who counted each other agree;
* a leader that disappears before its first `HeartbeatAck` is never missed, since
  only that restarts `LeaderTimeout` (`DeadLeaderNoticed` without the condition on
  `timer`, with two crashes);
* a signal that was left in `CloseChannel` when its writer exited blocks the next
  sender for ever. If that is the actor, which wants to drop the leader whose
  connection broke, the client keeps that leader and serves no request any more
  (`DeadLeaderNoticed` without the status `"blocked"`, `ActorGetsThrough` without the
  exception);
* a guest that disappears between its answer and its first heartbeat, without an
  error on the connection, stays in the roster, since that heartbeat would create
  its timer (`SilentDropped` without the condition on `timed`);
* a confirmation that is handled before the actor has served `SetLeader` is thrown
  away, and never comes again (`Joining`, `ignored`);
* the last survivor with a vote of a dead peer in its queue recurses without end in
  `acceptLeaderVote` (two crashes; the status `"overflow"`);
* a roster of the old leader that waited in its channel makes a new leader a
  Viewer (two crashes; in `Browser` a roster and `WinElection`);
* the roster that follows a confirmation, read before a change of rank, is sent
  after the roster of that change, and the guest ends with the old rank
  (`RankSettles` with `MaxRankChanges` 1); the same between client and page
  (`RankAgrees` without `overtaken`);
* with two hosts, the answer to a dialog goes to the sender of the invitation that
  came last, not of the one that was shown; and a guest that accepts both is
  confirmed by the first and may then follow the second;
* the dialog that asks for *Start* or *Join* stays until the client has answered:
  a user who clicks Join and then Start sees a Director whose client waits for an
  invitation (`RankAgrees` without the condition on choices);
* reports of a leader and an Editor that cross make each page take over the state of
  the other; as long as their next reports cross too, they go on exchanging them
  (`<>[]InSync` with an Editor that stays one).

**Bounds.** Three clients are the fewest with which two survivors have to agree,
and one Viewer among them makes their first votes differ, so rounds are repeated.
`MaxRound` 3 allows an election, a restarted one and one more; `MaxRetry` bounds
the rounds whose retry timer fires. The violations with liveness end in states
with nothing pending (no vote, request, timer or round), so the bounds are not
what stops them. `ElectionCrash` allows one crash and no late heartbeat, which
leaves three clients with their rounds and their retries within reach of TLC;
`ElectionLate` has a late client, and the theorems have any number of both.

For joining, two invitations of one guest are the fewest with which an invitation
can be replaced, a second answer can collide and two entries can wait in
`c_addPeer`; they offer different ranks so that a wrong one shows. A rank change
is left out of `JoiningOne` because it breaks `RankSettles` (above), and
exits because they only add states in which less happens; `JoiningSilent` has
both. `RankSettles` leaves out guests whose confirmation was dropped: such a
guest may be confirmed over another invitation and miss every roster.

For a page, two invitations of different ranks and one roster are the fewest with
which the rank of a page can come from the wrong place; one choice, because a second
one breaks `RankAgrees` (above). `BrowserLoss` lets everything happen that puts
messages into the queues, once, so that each kind can be the one on its way when a
side goes. For the video, two members are enough for reports to cross, two videos and
two positions for a wrong one to show; two timers and two reports per page
(`MaxUnblocks`, `MaxReports`) let the timer of one update end the block of the next
and one report overtake another. In `VideoViewers` only the leader reports;
`VideoDemoted` has an Editor, whose block may end too early while its echo is still to
be reported, and therefore one report of each page and one action. An interval reports only when the last report
of its page has arrived, which five seconds allow.

**Fairness.** Weak fairness for every goroutine that can run, every request that
waits and every running timer: the Go scheduler runs every runnable goroutine, and
a `select` chooses at random among ready channels. The writer's `select` gets
strong fairness for `CloseChannel`, because the message channel may be ready every
time. No crash, broken connection, late heartbeat or message is assumed to happen,
and nobody is assumed to invite, to answer or to change a rank. In `Browser` and
`VideoSync`, both sides of a socket read what has arrived, timers that nothing
restarts elapse (a browser's event loop and Go's runtime both see to that), the
player gets ready, loads and reports; users are never assumed to do anything. That the
player gets ready is an assumption about it: every update that finds it loading embeds
it again (`wetube.ts` 314-316), so it has to load between two updates, of which the
interval of a leader sends one in five seconds.

Deadlock is not checked: a session where everybody has gone, or where a leader
works and nothing happens, has no step left in the model.

## 4. Theorems

`ElectionProofs` proves for every finite set of clients, every choice of the first
leader and ranks, any set of late clients, any number of crashes, rounds and
retries, from `ClientAssumption` and `ElectionAssumption`:

| Theorem | States |
|---|---|
| `TypeCorrect` | `Spec => []TypeOK` |
| `LeaderNeverPeer` | `Spec => []LeaderNotPeer` |
| `VoteOnce` | `Spec => []OneVotePerRound` |
| `HonestCount` | `Spec => []CountedVotesWereCast` |
| `Agreement` | `Spec => []RoundAgreement` |
| `RoundsNeverGoBack` | `Spec => RoundsGoUp` |
| `RefinesVoting` | `Spec => ImplementsVoting` |

None of these is inductive by itself. The invariant `IInv` adds:

* `CoreInv`: every actor is `WellFormed`: its state is typed; leader, peers and
  itself are distinct; the votes it has cast are for rounds below
  `nextVoteRoundN`, at most one for each; its open round is the last it has
  voted in, with the vote it cast; whatever that round has counted, and whatever
  concluded rounds counted, was cast by the clients it was counted for (`Casts`,
  the votes everyone has cast, only grows);
* `ChanInv` and `NetInv`: every vote in a channel, in a broadcast or on a
  connection was cast by its sender. Without this a vote could be counted that
  nobody cast;
* `TimerInv`: the timers are typed.

`Agreement` follows from `HonestCount` and `VoteOnce`: if `c` counted `d`'s vote in
round N, `d` cast the vote `c` counted, which is the leader `c` elected; and `d`
concluded round N only with its own vote of that round, of which there is one.

`RefinesVoting` takes one step more: every operation `Follows` the state before it,
which for its votes, decisions and leader is just `Votes`, `Decides` and `Adopts` of
`Voting`. The step of an action then splits into that of the client that acts
(`ActorActs`) and of the others, whose actors are unchanged (`OthersAct`). That a
decision's voters cast their votes comes from `IInv`.

`ClientCoreProofs` has one lemma per operation (it keeps `WellFormed` and what it
may change), and the facts about `LowestId`, `Tally` and `Majority` they rest on:
a finite set of numbers has a least element, a tally is a natural number, the
majority is one of the votes. `PeerConnectionProofs` proves `ConnectionTypeCorrect`
and `ClosedOnlyForCause` for channels of any capacity; its invariant says that each
thing that can lead to the end of a connection (a signal in a channel or about to
be sent, a cleared flag, a failed read or write) has a cause. The lemmas of
`ClientCoreProofs` hold for a blocked actor too: it has done part of an operation, and
is still `WellFormed`.

For the page, with any set of videos, positions, peers and invitations, any bounds
and, in `VideoSync`, any number of members:

| Theorem | States | Assumptions |
|---|---|---|
| `BrowserProofs!BrowserTypeCorrect` | `Spec => []TypeOK` | `PageAssumption`, `NilAssumption`, `BrowserAssumption` |
| `BrowserProofs!HeartbeatAlwaysOne` | `Spec => []OneVideoHeartbeat` | the same |
| `BrowserRankProofs!RankAlwaysAgrees` | `Spec => []RankAgrees` | the same |
| `VideoSyncProofs!VideoTypeCorrect` | `Spec => []TypeOK` | `PageAssumption`, `NilAssumption`, `VideoSyncAssumption` |
| `VideoSyncProofs!VideoIdAlwaysTrue` | `Spec => []VideoIdTrue` | the same |
| `VideoSyncProofs!BlockAlwaysLifted` | `Spec => []BlockLifted` | the same |

`PageProofs` has one lemma for every handler, callback and user action of the
script: it keeps a page `Good`, which is typed, with `OneInterval`, `KnowsVideo` and
`BlockedWhileTimed`. The parts need each other: that the interval's handle is held
is what makes `setMyRank` clear the right number of intervals (`intervals` stays a
natural number only because of `OneInterval`); a callback reads the position of the
player only because a ready player is there (`KnowsVideo`). The invariant of
`VideoSync` adds that the queue from a page to the leader holds reports only
(`Reporting`), because `LeaderReads` takes the video out of whatever it finds; that
of `Browser` adds that an invitation which may be answered is one that has arrived
(`ClientOK`), because the rank of a member is taken from it: a rank that is offered is
never `Unknown`, so a client that leaves `waitForInvitation` has one.

`RankAlwaysAgrees` needs an account of everything that can still change a rank. The
page takes its rank from whatever came last: its own choice of a session, the
invitation it showed, a roster. `RankInv`, on top of `IInv`, says:

* `UnconnectedInv`: until the first message has arrived the page is as it was loaded,
  and a client that has taken it has done nothing but queue that message;
* `StartInv`: a client leaves `startSession` for the one `SessionInit` of its page, so
  a page that made itself a Director has a client that will become a leader;
* `ToldInv`: either the client will still read its roster for the page (a request of
  the actor waits, or a goroutine has not asked yet; `RosterDue`), or the last roster
  that was read and not sent has the client's rank, or the last message on its way
  that changes the rank is a roster with the client's rank, or there is none and the
  page has that rank (`RankTold`).

Steps fall into a few kinds (`CalmInv`: the client sends nothing that changes the
rank; `DueInv`: a roster will be read after it; `QuietInv`: the page keeps its rank
and starts no session), and the lemmas `...Rank` put every action into one of them.
The conditions of `RankAgrees` are where the code needs them: an overtaken roster
breaks the order of the queue, a second choice breaks `StartInv`.

`JoiningProofs` proves, for every set of hosts, guests and invitations, any offered
ranks, any number of exits and, for the first two, of changes of rank:

| Theorem | States | Assumptions |
|---|---|---|
| `JoiningTypeCorrect` | `Spec => []TypeOK` | `JoiningAssumption` |
| `ConfirmedStaysInRoster` | `Spec => []JoinedInRoster` | the same, `OneHostEach`, `RandomsDiffer` |
| `RankOfGuestSettles` | `Spec => []RankSettles` | the same |

`OneHostEach` (a guest is invited by one host) and `RandomsDiffer` (a host does not
invite two guests under one `Random`) are hypotheses of the theorems, not of the
module, because the code does not enforce them and fails without them: a guest that
was confirmed by one host and follows another sends its heartbeats there, and the
first host's timer drops it; and a host that finds an invitation by its `Random` gives
the `Peer` the id of whoever answered. An ordinary session satisfies the first, having one leader,
and the second as long as the numbers the pages draw for their invitations
(`Math.round(Math.random() * 1000000)`, `wetube.ts:202`) do not meet.
`RankSettles` is about sessions without a change of rank and guests that dropped no
confirmation (`ignored`); section 3 says what happens otherwise.

The invariant `IInv` has three parts, each of which needs those before it:

* `TypeInv`: an outstanding invitation was dialled, by its own host, and its `Peer`
  has no id yet; a handler that confirms knows what it confirms; a guest that may
  answer has an invitation;
* `RosterInv`: a `Peer` with an id has that of the guest that was invited
  (`PeerIdInv`, from `OwnInv`: a guest holds and answers only its own invitations);
  the connection of a guest that was accepted and is there is never closed and its
  deletion never asked for (`CloseInv`, `DeleteInv`, `TimedInv`), so it stays in the
  roster or in `c_addPeer` (`AcceptedInv`); and only who was accepted is confirmed
  (`ConfirmInv`);
* `SettleInv`: as long as no rank has changed, every roster that is held, sent or
  taken has the ranks the host keeps (`TrueInv`), and each accepted guest waits for a
  confirmation after which a roster is still to be sent, or has the rank or a roster
  with it ahead (`DueInv`).

There is one lemma for every action and part (`...Type`, `...Roster`, `...Settle`),
and one that says what the action does to the fields (`...Effect`). TLC checked the
three parts on the instance of `JoiningOne`, and `RankInv` on that of `BrowserJoin`
and with two rosters and two choices, before they were proved.

Only model-checked: the liveness properties `FailureReported`, `ClosedWhenAsked`,
`ActorGetsThrough`, `DeadLeaderNoticed`, `SilentDropped`, `ClientLossNoticed`, `PageLossNoticed` and
`ViewersFollow`, because the prover does not do fairness. Every invariant and every
action property that a passing run checks has a theorem. The sets of sequences in the
inductive invariants of `Election`, `Browser` and `VideoSync` cannot be enumerated by
TLC; their parts over states are the invariants that the runs check.

## 5. Not modelled, and the plan

Left to do: the safety half of the liveness properties, as far as it is an invariant
(for `SilentDropped`, that a guest with a timer which has gone is in the roster only
while that timer runs; for `ClientLossNoticed`, that the heartbeat of a page has its
timeout), so that fairness has less to do and TLC less to show.

Not modelled, and why:

* Time. Timers fire when what they wait for does not come; how many seconds that
  takes, and which of the loop-variable timers of `becomeLeader` fires first, is
  outside. `ToInstant` and the two seconds of tolerance in `updateVideo` compare
  times too; the video a client stores is read only when a session starts.
* The case `EndSession` of `handleMessage`: no client sends that message to its page.
* What forms contain, names, texts and layout.
* The ticker goroutine of `startSession` and the message handlers read the leader
  twice, to test it and to use it; the models do both in one step.
* The vendored WebSocket library, jQuery, swfobject and the typings (third-party),
  RSA, gob and JSON (libraries), CSS and the build files (no behaviour),
  `wetube.go` (starts one client).
