------------------------- MODULE PeerConnectionProofs -------------------------
(***************************************************************************)
(* Safety of one connection, for channels of any capacity and any number   *)
(* of messages: the channels stay within their capacity and no healthy     *)
(* connection is closed unasked.                                           *)
(***************************************************************************)
EXTENDS PeerConnection, TLAPS

\* Somebody signals or has signalled, has cleared `running`, or has seen the
\* connection fail.
Ending ==
    \/ closeChannel > 0
    \/ stopped # {}
    \/ conn # "open"
    \/ writeErr = TRUE
    \/ reader \in {"signal", "stop"}
    \/ writer \in {"close", "delete", "done"}
    \/ actor = "signal"
    \/ timeout = "signal"

\* Whatever leads to the end of the connection was caused by something, and the
\* writer asks for the deletion of the peer only once, when it exits.
IInv ==
    /\ TypeOK
    /\ Ending => cause # {}
    /\ writer # "done" => c_deletePeer = 0

LEMMA InitInv == Init => IInv
<1> SUFFICES ASSUME Init PROVE IInv
  OBVIOUS
<1>1. known \in BOOLEAN /\ writeErr \in BOOLEAN /\ writeErr # TRUE
  BY Zenon DEF Init
<1>2. /\ role \in {"leader", "peer", "led"} /\ actor = "serve"
      /\ timeout = "off" /\ closeChannel = 0 /\ outChannel = 0 /\ sent = 0
      /\ stopped = {} /\ conn = "open" /\ reader = "test" /\ writer = "test"
      /\ c_deletePeer = 0 /\ cause = {}
  BY DEF Init
<1>3. TypeOK
  BY <1>1, <1>2, CapAssumption DEF TypeOK
<1>4. ~Ending
  <2>1. ~(closeChannel > 0)
    BY <1>2
  <2> QED
    BY <1>1, <1>2, <2>1, Zenon DEF Ending
<1> QED
  BY <1>2, <1>3, <1>4 DEF IInv

LEMMA NetworkInv == IInv /\ ConnectionFails => IInv'
BY DEF IInv, TypeOK, Ending, ConnectionFails, ends

LEMMA ReaderInv == IInv /\ Reader => IInv'
<1> SUFFICES ASSUME IInv, Reader PROVE IInv'
  OBVIOUS
<1>1. CASE ReaderTest
  BY <1>1 DEF IInv, TypeOK, Ending, ReaderTest, MayReadTrue, MayReadFalse, ends
<1>2. CASE ReaderFails
  BY <1>2 DEF IInv, TypeOK, Ending, ReaderFails, ends
<1>3. CASE ReaderSignals
  BY <1>3, CapAssumption DEF IInv, TypeOK, Ending, ReaderSignals, Signal, ends
<1>4. CASE ReaderStops
  BY <1>4 DEF IInv, TypeOK, Ending, ReaderStops, ends
<1> QED
  BY <1>1, <1>2, <1>3, <1>4 DEF Reader

LEMMA WriterInv == IInv /\ Writer => IInv'
<1> SUFFICES ASSUME IInv, Writer PROVE IInv'
  OBVIOUS
<1>1. CASE WriterTest
  BY <1>1 DEF IInv, TypeOK, Ending, WriterTest, MayReadTrue, MayReadFalse, ends
<1>2. CASE WriterTakesClose
  BY <1>2, CapAssumption DEF IInv, TypeOK, Ending, WriterTakesClose, ends
<1>3. CASE WriterTakesMessage
  <2>1. TypeOK'
    <3>1. writeErr' \in BOOLEAN /\ stopped' \subseteq {"reader", "writer"}
      BY <1>3, Zenon DEF IInv, TypeOK, WriterTakesMessage
    <3>2. /\ outChannel > 0 /\ outChannel' = outChannel - 1
          /\ writer' = "test"
          /\ UNCHANGED <<role, known, actor, timeout, sent, closeChannel, conn,
                         reader, c_deletePeer, cause>>
      BY <1>3 DEF WriterTakesMessage, ends
    <3> QED
      BY <3>1, <3>2, CapAssumption DEF IInv, TypeOK
  <2>2. Ending' => Ending
    <3>1. writeErr' = TRUE => writeErr = TRUE \/ conn # "open"
      BY <1>3, Zenon DEF IInv, TypeOK, WriterTakesMessage
    <3>2. stopped' # {} => stopped # {} \/ writeErr = TRUE
      BY <1>3, Zenon DEF IInv, TypeOK, WriterTakesMessage
    <3>3. /\ writer' = "test"
          /\ UNCHANGED <<closeChannel, conn, reader, actor, timeout>>
      BY <1>3 DEF WriterTakesMessage, ends
    <3> QED
      BY <3>1, <3>2, <3>3 DEF Ending
  <2> QED
    BY <1>3, <2>1, <2>2 DEF IInv, WriterTakesMessage
<1>4. CASE WriterCloses
  BY <1>4 DEF IInv, TypeOK, Ending, WriterCloses, ends
<1>5. CASE WriterDeletes
  BY <1>5 DEF IInv, TypeOK, Ending, WriterDeletes, ends
<1> QED
  BY <1>1, <1>2, <1>3, <1>4, <1>5 DEF Writer

LEMMA ActorInv ==
    /\ IInv /\ ActorDrops => IInv'
    /\ IInv /\ ActorSignals => IInv'
    /\ IInv /\ ActorDeletes => IInv'
    /\ IInv /\ ActorPromotes => IInv'
    /\ IInv /\ ActorLeads => IInv'
<1>1. ASSUME IInv, ActorDrops PROVE IInv'
  BY <1>1 DEF IInv, TypeOK, Ending, ActorDrops
<1>2. ASSUME IInv, ActorSignals PROVE IInv'
  <2>1. known' \in BOOLEAN
    BY <1>2, Zenon DEF ActorSignals
  <2>2. /\ actor = "signal" /\ actor' = "serve"
        /\ closeChannel < CloseCap /\ closeChannel' = closeChannel + 1
        /\ UNCHANGED <<role, timeout, outChannel, sent, stopped, conn, writeErr,
                       reader, writer, c_deletePeer, cause>>
    BY <1>2 DEF ActorSignals, Signal
  <2> QED
    BY <1>2, <2>1, <2>2, CapAssumption DEF IInv, TypeOK, Ending
<1>3. ASSUME IInv, ActorDeletes PROVE IInv'
  BY <1>3 DEF IInv, TypeOK, Ending, ActorDeletes
<1>4. ASSUME IInv, ActorPromotes PROVE IInv'
  BY <1>4 DEF IInv, TypeOK, Ending, ActorPromotes
<1>5. ASSUME IInv, ActorLeads PROVE IInv'
  BY <1>5 DEF IInv, TypeOK, Ending, ActorLeads
<1> QED
  BY <1>1, <1>2, <1>3, <1>4, <1>5

LEMMA OthersInv ==
    /\ IInv /\ SendMessage => IInv'
    /\ IInv /\ HandleHeartbeat => IInv'
    /\ IInv /\ HeartbeatTimeout => IInv'
    /\ IInv /\ TimeoutSignals => IInv'
<1>1. ASSUME IInv, SendMessage PROVE IInv'
  BY <1>1, CapAssumption DEF IInv, TypeOK, Ending, SendMessage
<1>2. ASSUME IInv, HandleHeartbeat PROVE IInv'
  BY <1>2 DEF IInv, TypeOK, Ending, HandleHeartbeat
<1>3. ASSUME IInv, HeartbeatTimeout PROVE IInv'
  BY <1>3 DEF IInv, TypeOK, Ending, HeartbeatTimeout
<1>4. ASSUME IInv, TimeoutSignals PROVE IInv'
  BY <1>4, CapAssumption DEF IInv, TypeOK, Ending, TimeoutSignals, Signal
<1> QED
  BY <1>1, <1>2, <1>3, <1>4

LEMMA NextInv == IInv /\ [Next]_vars => IInv'
<1> SUFFICES ASSUME IInv, [Next]_vars PROVE IInv'
  OBVIOUS
<1>1. CASE UNCHANGED vars
  BY <1>1 DEF IInv, TypeOK, Ending, vars
<1>2. CASE Next
  BY <1>2, NetworkInv, ReaderInv, WriterInv, ActorInv, OthersInv DEF Next
<1> QED
  BY <1>1, <1>2

LEMMA Invariance == Spec => []IInv
BY InitInv, NextInv, PTL DEF Spec

\* The connection asks for the deletion of its peer at most once, whichever of
\* the reader, the writer, the actor and the timers ends it (client.go
\* 341-377).
THEOREM ConnectionTypeCorrect == Spec => []TypeOK
<1>1. IInv => TypeOK
  BY DEF IInv
<1> QED
  BY <1>1, Invariance, PTL

\* establishPeerConnection's two goroutines close a connection only after it
\* broke, the actor dropped the peer or a heartbeat was missed, whatever they
\* read of the variable `running` they share without a lock.
THEOREM ClosedOnlyForCause == Spec => []NeverClosedUnasked
<1>1. IInv => NeverClosedUnasked
  BY DEF IInv, Ending, NeverClosedUnasked
<1> QED
  BY <1>1, Invariance, PTL

=============================================================================
