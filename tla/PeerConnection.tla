---------------------------- MODULE PeerConnection ----------------------------
(***************************************************************************)
(* One outgoing connection of a client (establishPeerConnection, client.go *)
(* and the places that use Peer.CloseChannel and Peer.OutChannel): the     *)
(* reader goroutine, the writer goroutine, the actor goroutine that may    *)
(* drop the peer, and the timer that closes a silent one.                  *)
(*                                                                         *)
(* The reader and the writer share the variable `running` without a lock.  *)
(* stopped is the set of goroutines that have assigned false to it: one of *)
(* them sees its own assignment, the other may still read true.            *)
(***************************************************************************)
EXTENDS Naturals

CONSTANTS
    CloseCap,     \* The capacity of CloseChannel (1 in the code)
    OutCap,       \* The capacity of OutChannel (91 in the code)
    MaxMessages   \* Bound on the messages sent to the peer

ASSUME CapAssumption ==
    /\ CloseCap \in Nat \ {0}
    /\ OutCap \in Nat \ {0}
    /\ MaxMessages \in Nat

VARIABLES
    role,          \* Where the actor keeps the peer: as client.leader, in the
                   \* map of peers, or in the map of a client that leads
    known,         \* The actor still refers to the peer
    actor,         \* The actor goroutine: serving requests, or in a signal
    timeout,       \* The heartbeat timer whose function signals this peer
    closeChannel,  \* The number of signals in the channel
    outChannel,    \* The number of messages in the channel
    sent,          \* The number of messages sent so far
    stopped,       \* Who has set running to false
    conn,          \* The state of the WebSocket
    writeErr,      \* A write has failed before (websocket.Conn.writeErr)
    reader,        \* Program counter of the reader goroutine
    writer,        \* Program counter of the writer goroutine
    c_deletePeer,  \* DeletePeer requests waiting for the actor
    cause          \* History: why the connection may be closed

ends == <<role, known, actor, timeout, sent>>
vars == <<role, known, actor, timeout, closeChannel, outChannel, sent, stopped,
          conn, writeErr, reader, writer, c_deletePeer, cause>>

\* Every variable has its type; in particular the actor is asked at most once
\* to delete the peer, whichever goroutines notice the end of the connection
\* and in whatever order (client.go 341-377): the id may be another's by the
\* time of a second request.
TypeOK ==
    /\ role \in {"leader", "peer", "led"}
    /\ known \in BOOLEAN
    /\ actor \in {"serve", "signal"}
    /\ timeout \in {"off", "armed", "signal"}
    /\ closeChannel \in 0..CloseCap
    /\ outChannel \in 0..OutCap
    /\ sent \in 0..MaxMessages
    /\ stopped \subseteq {"reader", "writer"}
    /\ conn \in {"open", "failed", "closed"}
    /\ writeErr \in BOOLEAN
    /\ reader \in {"test", "read", "signal", "stop", "done"}
    /\ writer \in {"test", "select", "close", "delete", "done"}
    /\ c_deletePeer \in 0..1
    /\ cause \subseteq {"failure", "actor", "timeout"}

\* The connection was dialled and both goroutines have been started; no
\* heartbeat has arrived yet.
Init ==
    /\ role \in {"leader", "peer", "led"}
    /\ known = TRUE
    /\ actor = "serve"
    /\ timeout = "off"
    /\ closeChannel = 0
    /\ outChannel = 0
    /\ sent = 0
    /\ stopped = {}
    /\ conn = "open"
    /\ writeErr = FALSE
    /\ reader = "test"
    /\ writer = "test"
    /\ c_deletePeer = 0
    /\ cause = {}

-----------------------------------------------------------------------------
(* What g may read in `running`.                                           *)

MayReadTrue(g) == g \notin stopped
MayReadFalse   == stopped # {}

(* A send on CloseChannel blocks while it is full.                         *)
Signal ==
    /\ closeChannel < CloseCap
    /\ closeChannel' = closeChannel + 1

-----------------------------------------------------------------------------
(* The network (external): the connection breaks.                          *)

ConnectionFails ==
    /\ conn = "open"
    /\ conn' = "failed"
    /\ cause' = cause \cup {"failure"}
    /\ UNCHANGED <<ends, closeChannel, outChannel, stopped, writeErr, reader,
                   writer, c_deletePeer>>

-----------------------------------------------------------------------------
(* The reader goroutine.  The other side sends nothing on this connection, *)
(* so NextReader returns only when it fails.                               *)

ReaderTest ==
    /\ reader = "test"
    /\ \/ MayReadTrue("reader") /\ reader' = "read"
       \/ MayReadFalse /\ reader' = "done"
    /\ UNCHANGED <<ends, closeChannel, outChannel, stopped, conn, writeErr,
                   writer, c_deletePeer, cause>>

\* Mutant of ReaderFails: NextReader's error is not tested.
ReaderFails_Always ==
    /\ reader = "read"
    /\ reader' = "signal"
    /\ UNCHANGED <<ends, closeChannel, outChannel, stopped, conn, writeErr,
                   writer, c_deletePeer, cause>>

ReaderFails ==
    /\ reader = "read"
    /\ conn # "open"
    /\ reader' = "signal"
    /\ UNCHANGED <<ends, closeChannel, outChannel, stopped, conn, writeErr,
                   writer, c_deletePeer, cause>>

\* Mutant of ReaderSignals: the reader only clears `running`.
ReaderSignals_Silent ==
    /\ reader = "signal"
    /\ reader' = "stop"
    /\ UNCHANGED <<ends, closeChannel, outChannel, stopped, conn, writeErr,
                   writer, c_deletePeer, cause>>

ReaderSignals ==
    /\ reader = "signal"
    /\ Signal
    /\ reader' = "stop"
    /\ UNCHANGED <<ends, outChannel, stopped, conn, writeErr, writer,
                   c_deletePeer, cause>>

\* Mutant of ReaderStops: the reader asks for the deletion too.
ReaderStops_Deletes ==
    /\ reader = "stop"
    /\ stopped' = stopped \cup {"reader"}
    /\ reader' = "test"
    /\ c_deletePeer' = c_deletePeer + 1
    /\ UNCHANGED <<ends, closeChannel, outChannel, conn, writeErr, writer,
                   cause>>

ReaderStops ==
    /\ reader = "stop"
    /\ stopped' = stopped \cup {"reader"}
    /\ reader' = "test"
    /\ UNCHANGED <<ends, closeChannel, outChannel, conn, writeErr, writer,
                   c_deletePeer, cause>>

Reader == ReaderTest \/ ReaderFails \/ ReaderSignals \/ ReaderStops

-----------------------------------------------------------------------------
(* The writer goroutine.                                                   *)

WriterTest ==
    /\ writer = "test"
    /\ \/ MayReadTrue("writer") /\ writer' = "select"
       \/ MayReadFalse /\ writer' = "close"
    /\ UNCHANGED <<ends, closeChannel, outChannel, stopped, conn, writeErr,
                   reader, c_deletePeer, cause>>

\* Mutant of WriterTakesClose: `running` is not cleared.
WriterTakesClose_KeepsRunning ==
    /\ writer = "select" /\ closeChannel > 0
    /\ closeChannel' = closeChannel - 1
    /\ writer' = "test"
    /\ UNCHANGED <<ends, outChannel, stopped, conn, writeErr, reader,
                   c_deletePeer, cause>>

\* select, <-closeChannel.
WriterTakesClose ==
    /\ writer = "select" /\ closeChannel > 0
    /\ closeChannel' = closeChannel - 1
    /\ stopped' = stopped \cup {"writer"}
    /\ writer' = "test"
    /\ UNCHANGED <<ends, outChannel, conn, writeErr, reader, c_deletePeer,
                   cause>>

\* select, <-inChannel.  NextWriter returns the error of an earlier write; the
\* errors of this one (Encode, Close) are ignored, and the first write after
\* the other side has gone may even succeed.
WriterTakesMessage ==
    /\ writer = "select" /\ outChannel > 0
    /\ outChannel' = outChannel - 1
    /\ writer' = "test"
    /\ IF writeErr
       THEN /\ stopped' = stopped \cup {"writer"}
            /\ UNCHANGED writeErr
       ELSE /\ writeErr' \in IF conn = "open" THEN {FALSE} ELSE BOOLEAN
            /\ UNCHANGED stopped
    /\ UNCHANGED <<ends, closeChannel, conn, reader, c_deletePeer, cause>>

WriterCloses ==
    /\ writer = "close"
    /\ conn' = "closed"
    /\ writer' = "delete"
    /\ UNCHANGED <<ends, closeChannel, outChannel, stopped, writeErr, reader,
                   c_deletePeer, cause>>

WriterDeletes ==
    /\ writer = "delete"
    /\ c_deletePeer' = c_deletePeer + 1
    /\ writer' = "done"
    /\ UNCHANGED <<ends, closeChannel, outChannel, stopped, conn, writeErr,
                   reader, cause>>

Writer ==
    \/ WriterTest
    \/ WriterTakesClose
    \/ WriterTakesMessage
    \/ WriterCloses
    \/ WriterDeletes

-----------------------------------------------------------------------------
(* The rest of the client.                                                 *)

\* BroadcastToPeers, TrySendToPeer and the heartbeat goroutine.
SendMessage ==
    /\ sent < MaxMessages
    /\ outChannel < OutCap
    /\ sent' = sent + 1
    /\ outChannel' = outChannel + 1
    /\ UNCHANGED <<role, known, actor, timeout, closeChannel, stopped, conn,
                   writeErr, reader, writer, c_deletePeer, cause>>

\* setLeader, becomeLeader or updateRoster drops the peer.
ActorDrops ==
    /\ actor = "serve" /\ known
    /\ actor' = "signal"
    /\ cause' = cause \cup {"actor"}
    /\ UNCHANGED <<role, known, timeout, closeChannel, outChannel, sent,
                   stopped, conn, writeErr, reader, writer, c_deletePeer>>

ActorSignals ==
    /\ actor = "signal"
    /\ Signal
    /\ actor' = "serve"
    /\ known' = FALSE
    /\ UNCHANGED <<role, timeout, outChannel, sent, stopped, conn, writeErr,
                   reader, writer, c_deletePeer, cause>>

\* c_deletePeer only looks in the map.
ActorDeletes ==
    /\ actor = "serve" /\ c_deletePeer > 0
    /\ c_deletePeer' = c_deletePeer - 1
    /\ known' = (known /\ role = "leader")
    /\ UNCHANGED <<role, actor, timeout, closeChannel, outChannel, sent,
                   stopped, conn, writeErr, reader, writer, cause>>

\* setLeader moves the peer out of the map: it won an election.
ActorPromotes ==
    /\ actor = "serve" /\ known /\ role = "peer"
    /\ role' = "leader"
    /\ UNCHANGED <<known, actor, timeout, closeChannel, outChannel, sent,
                   stopped, conn, writeErr, reader, writer, c_deletePeer, cause>>

\* becomeLeader sets a timer for each peer of the map, but the functions of all
\* of them signal the last one: the timer of this peer may close another, and
\* those of others this one.
ActorLeads ==
    /\ actor = "serve" /\ known /\ role = "peer"
    /\ role' = "led"
    /\ timeout' \in {"off", "armed"}
    /\ UNCHANGED <<known, actor, closeChannel, outChannel, sent, stopped, conn,
                   writeErr, reader, writer, c_deletePeer, cause>>

\* handleHeartbeat of a leader sets the timer or resets one that has fired.
HandleHeartbeat ==
    /\ known /\ role = "led"
    /\ timeout = "off"
    /\ timeout' = "armed"
    /\ UNCHANGED <<role, known, actor, closeChannel, outChannel, sent, stopped,
                   conn, writeErr, reader, writer, c_deletePeer, cause>>

\* The function of the heartbeat timer runs in a goroutine of its own.
HeartbeatTimeout ==
    /\ timeout = "armed"
    /\ timeout' = "signal"
    /\ cause' = cause \cup {"timeout"}
    /\ UNCHANGED <<role, known, actor, closeChannel, outChannel, sent, stopped,
                   conn, writeErr, reader, writer, c_deletePeer>>

TimeoutSignals ==
    /\ timeout = "signal"
    /\ Signal
    /\ timeout' = "off"
    /\ UNCHANGED <<role, known, actor, outChannel, sent, stopped, conn,
                   writeErr, reader, writer, c_deletePeer, cause>>

-----------------------------------------------------------------------------
Next ==
    \/ ConnectionFails
    \/ Reader
    \/ Writer
    \/ SendMessage
    \/ ActorDrops
    \/ ActorSignals
    \/ ActorDeletes
    \/ ActorPromotes
    \/ ActorLeads
    \/ HandleHeartbeat
    \/ HeartbeatTimeout
    \/ TimeoutSignals

\* Goroutines that can run do so eventually, and the select of the writer does
\* not pass over a channel for ever.  Nothing makes the connection fail, a
\* heartbeat late, the actor drop the peer or anybody send.
Fairness ==
    /\ WF_vars(Reader)
    /\ WF_vars(Writer)
    /\ SF_vars(WriterTakesClose)
    /\ WF_vars(ActorSignals)
    /\ WF_vars(ActorDeletes)
    /\ WF_vars(TimeoutSignals)

Spec == Init /\ [][Next]_vars

FairSpec == Spec /\ Fairness

-----------------------------------------------------------------------------
(* Properties.                                                             *)

\* A connection is closed only if it broke, the actor dropped the peer or a
\* heartbeat timer signalled it: no interleaving of the reader and the writer
\* ends a connection by itself (client.go 341-377).
NeverClosedUnasked ==
    writer \in {"close", "delete", "done"} => cause # {}

\* When the connection breaks, the writer goroutine notices, even though it
\* does not read from the connection, and asks for the deletion of the peer.
FailureReported == conn = "failed" ~> writer = "done"

\* When the actor or the timer wants the peer closed, the connection is closed,
\* whoever else signals on CloseChannel and whether or not this signal gets
\* through.
ClosedWhenAsked ==
    /\ actor = "signal" ~> conn = "closed"
    /\ timeout = "signal" ~> conn = "closed"

\* The actor, which sends on CloseChannel between two requests, is not held up
\* for ever over a connection that was sound: it gets through unless the
\* connection broke or a timer signalled too, and a signal of theirs may be
\* left when the writer has exited (client.go 190, 460, 478, 497).
ActorGetsThrough ==
    actor = "signal" ~> actor = "serve" \/ cause \cap {"failure", "timeout"} # {}

=============================================================================
