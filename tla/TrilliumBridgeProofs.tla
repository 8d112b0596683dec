-------------------------- MODULE TrilliumBridgeProofs --------------------------
(***************************************************************************)
(* The event loop and the Trillium server together: types, the order of    *)
(* commands and of telemetry from one end to the other, and the promise of *)
(* module BridgePromise, for every capacity of the channels and sockets    *)
(* and any number of connections.                                          *)
(***************************************************************************)
EXTENDS TrilliumBridge, EventLoopProofs, SequenceTheorems, WellFoundedInduction

\* The packets in the server's hands and in the socket come from the telemetry channel.
PacketsHeld == held \in Seq(Packets) /\ down \in Seq(Packets)

BridgeTypes == BridgeTypeOK /\ PacketsHeld

LEMMA BridgeInitType == BridgeInit => BridgeTypes
<1> SUFFICES ASSUME BridgeInit PROVE BridgeTypes
  OBVIOUS
<1>1. TypeOK
  BY InitType DEF BridgeInit
<1>2. Server!ServerInit
  BY DEF BridgeInit
<1>3. Len(<<>>) = 0 /\ \A S : <<>> \in Seq(S)
  OBVIOUS
<1>4. Server!ServerTypeOK
  <2>1. rxBuf \in Seq(Server!Items) /\ up \in Seq(Server!Items)
    BY <1>2, <1>3 DEF Server!ServerInit
  <2>2. Len(rxBuf) = 0 /\ Len(up) = 0 /\ Len(down) = 0 /\ Len(held) = 0
    BY <1>2, <1>3 DEF Server!ServerInit
  <2>3. Len(rxBuf) <= MaxRxBuf /\ Len(up) <= UpCap /\ Len(down) <= DownCap
    BY <2>2, ServerAssumption
  <2>4. phase \in Server!Phases /\ Len(held) = (IF phase = "writing" THEN 1 ELSE 0)
    BY <1>2, <2>2 DEF Server!ServerInit, Server!Phases
  <2>5. hungUp \in BOOLEAN /\ waiting \in BOOLEAN
    BY <1>2 DEF Server!ServerInit
  <2>6. /\ connections \in 0..MaxConnections /\ firstCmd \in 1..MaxCommands + 1
        /\ junk \in 0..MaxNoise /\ seen \in Nat
    BY <1>2, ServerAssumption, CounterAssumption DEF Server!ServerInit
  <2> QED
    BY <2>1, <2>3, <2>4, <2>5, <2>6 DEF Server!ServerTypeOK
<1>5. PacketsHeld
  BY <1>2, <1>3 DEF Server!ServerInit, PacketsHeld
<1> QED
  BY <1>1, <1>4, <1>5 DEF BridgeTypes, BridgeTypeOK

\* An action of the event loop's own specification, seen from the bridge.
LEMMA LoopType ==
    ASSUME BridgeTypes, LoopStep \/ TimerStep \/ SgStep
    PROVE  BridgeTypes'
<1>1. Next /\ UNCHANGED serverVars
  BY DEF LoopStep, TimerStep, SgStep, Next
<1>2. TypeOK'
  BY <1>1, StepType DEF BridgeTypes, BridgeTypeOK
<1>3. Server!ServerTypeOK' /\ PacketsHeld'
  BY <1>1 DEF BridgeTypes, BridgeTypeOK, serverVars, Server!ServerTypeOK, PacketsHeld
<1> QED
  BY <1>2, <1>3 DEF BridgeTypes, BridgeTypeOK

-------------------------------------------------------------------------------
\* Every set of naturals has a least element.
LEMMA LeastElement ==
    ASSUME NEW T \in SUBSET Nat, T # {}
    PROVE  \E m \in T : \A n \in T : m <= n
<1>1. PICK m \in T : \A n \in T : <<n, m>> \notin OpToRel(<, Nat)
  BY NatLessThanWellFounded, WFMin
<1>2. \A n \in T : ~(n < m)
  BY <1>1 DEF OpToRel
<1> QED
  BY <1>2

\* The parse loop finds the first frame of its buffer, and only noise is before it.
LEMMA FirstFrame ==
    ASSUME BridgeTypes, Server!HasFrame
    PROVE  /\ Server!NextFrameAt \in 1..Len(rxBuf)
           /\ Server!IsFrame(rxBuf[Server!NextFrameAt])
           /\ \A i \in 1..Server!NextFrameAt - 1 : ~Server!IsFrame(rxBuf[i])
<1> DEFINE T == {i \in 1..Len(rxBuf) : Server!IsFrame(rxBuf[i])}
<1>1. Len(rxBuf) \in Nat
  BY DEF BridgeTypes, BridgeTypeOK, Server!ServerTypeOK
<1>2. T \in SUBSET Nat /\ T # {}
  BY <1>1 DEF Server!HasFrame
<1>3. \E m \in T : \A n \in T : m <= n
  BY <1>2, LeastElement
<1>4. Server!NextFrameAt = CHOOSE m \in T : \A n \in T : m <= n
  BY <1>2 DEF Server!NextFrameAt, Server!SelectInSeq, Server!Min
<1>5. Server!NextFrameAt \in T /\ \A n \in T : Server!NextFrameAt <= n
  BY <1>3, <1>4
<1> QED
  BY <1>1, <1>5

LEMMA Piece ==
    ASSUME NEW S, NEW s \in Seq(S), NEW m \in 1..Len(s) + 1, NEW n \in 0..Len(s)
    PROVE  /\ SubSeq(s, m, n) \in Seq(S)
           /\ Len(SubSeq(s, m, n)) = IF m <= n THEN n - m + 1 ELSE 0
           /\ \A i \in 1..n - m + 1 : SubSeq(s, m, n)[i] = s[m + i - 1]
<1>1. Len(s) \in Nat /\ \A i \in m..n : s[i] \in S
  OBVIOUS
<1> QED
  BY <1>1, SubSeqProperties

LEMMA DisconnectType ==
    ASSUME BridgeTypes, Server!Disconnect
    PROVE  Server!ServerTypeOK' /\ PacketsHeld'
<1>1. Len(<<>>) = 0 /\ \A S : <<>> \in Seq(S)
  OBVIOUS
<1>2. rxBuf' \in Seq(Server!Items) /\ up' \in Seq(Server!Items) /\ PacketsHeld'
  BY <1>1 DEF Server!Disconnect, PacketsHeld
<1>3. Len(rxBuf') = 0 /\ Len(up') = 0 /\ Len(down') = 0 /\ Len(held') = 0
  BY <1>1 DEF Server!Disconnect
<1>4. Len(rxBuf') <= MaxRxBuf /\ Len(up') <= UpCap /\ Len(down') <= DownCap
  BY <1>3, ServerAssumption
<1>5. phase' \in Server!Phases /\ Len(held') = (IF phase' = "writing" THEN 1 ELSE 0)
  BY <1>3 DEF Server!Disconnect, Server!Phases
<1>6. hungUp' \in BOOLEAN /\ UNCHANGED <<waiting, connections, firstCmd, junk, seen>>
  BY DEF Server!Disconnect, Server!backlog
<1> QED
  BY <1>2, <1>4, <1>5, <1>6 DEF Server!ServerTypeOK, BridgeTypes, BridgeTypeOK

\* The loop's own variables while the server or a controller acts.
LEMMA ChannelType ==
    ASSUME BridgeTypes, UNCHANGED loopVars,
           cmdQ' \in Seq(1..MaxCommands), Len(cmdQ') <= CmdCap,
           telemQ' \in Seq(Packets), Len(telemQ') <= TelemCap,
           sent' \in 0..MaxCommands
    PROVE  TypeOK'
BY DEF BridgeTypes, BridgeTypeOK, TypeOK, loopVars, timer, ages

LEMMA ReceiveType ==
    ASSUME BridgeTypes, Server!Receive, UNCHANGED loopVars
    PROVE  BridgeTypes'
<1> USE DEF BridgeTypes, BridgeTypeOK, Server!ServerTypeOK
<1>1. PICK n \in 1..Len(up) : /\ Len(rxBuf) + n <= MaxRxBuf
                              /\ rxBuf' = rxBuf \o SubSeq(up, 1, n)
                              /\ up' = SubSeq(up, n + 1, Len(up))
  BY DEF Server!Receive
<1>2. /\ rxBuf \in Seq(Server!Items) /\ Len(rxBuf) \in Nat
      /\ up \in Seq(Server!Items) /\ Len(up) \in Nat
  OBVIOUS
<1>3. SubSeq(up, 1, n) \in Seq(Server!Items) /\ Len(SubSeq(up, 1, n)) = n
  BY <1>2, Piece
<1>4. up' \in Seq(Server!Items) /\ Len(up') = Len(up) - n
  BY <1>1, <1>2, Piece
<1>5. rxBuf' \in Seq(Server!Items) /\ Len(rxBuf') = Len(rxBuf) + n
  BY <1>1, <1>2, <1>3, ConcatProperties
<1>6. Len(rxBuf') <= MaxRxBuf /\ Len(up') <= UpCap
  BY <1>1, <1>2, <1>4, <1>5, ServerAssumption
<1>7. phase' = "parsing" /\ Len(held') = 0 /\ phase' \in Server!Phases
  BY DEF Server!Receive, Server!Phases
<1>8. UNCHANGED <<held, down, hungUp, firstCmd, waiting, connections, junk, seen>>
  BY DEF Server!Receive, Server!backlog
<1>9. Server!ServerTypeOK' /\ PacketsHeld'
  BY <1>4, <1>5, <1>6, <1>7, <1>8 DEF PacketsHeld
<1>10. TypeOK'
  BY ChannelType DEF Server!Receive, TypeOK
<1> QED
  BY <1>9, <1>10

LEMMA ParseFrameType ==
    ASSUME BridgeTypes, Server!ParseFrame, UNCHANGED loopVars
    PROVE  BridgeTypes'
<1> USE DEF BridgeTypes, BridgeTypeOK, Server!ServerTypeOK
<1> DEFINE at == Server!NextFrameAt
<1>1. at \in 1..Len(rxBuf) /\ rxBuf \in Seq(Server!Items) /\ Len(rxBuf) \in Nat
  BY FirstFrame DEF Server!ParseFrame
<1>2. rxBuf' = SubSeq(rxBuf, at + 1, Len(rxBuf))
  BY DEF Server!ParseFrame
<1> HIDE DEF at
<1>3. rxBuf' \in Seq(Server!Items) /\ Len(rxBuf') = Len(rxBuf) - at
  BY <1>1, <1>2, Piece
<1>4. Len(rxBuf') <= MaxRxBuf
  BY <1>1, <1>3, ServerAssumption
<1>5. UNCHANGED <<phase, held, up, down, hungUp, firstCmd, waiting, connections, junk, seen>>
  BY DEF Server!ParseFrame, Server!connection, Server!backlog
<1>6. Server!ServerTypeOK' /\ PacketsHeld'
  BY <1>3, <1>4, <1>5 DEF PacketsHeld
<1>7. rxBuf[at] \in Server!Items
  BY <1>1
<1>8. cmdQ' \in Seq(1..MaxCommands) /\ Len(cmdQ') <= CmdCap
  <2>1. cmdQ \in Seq(1..MaxCommands) /\ Len(cmdQ) \in Nat /\ Len(cmdQ) <= CmdCap
    BY DEF TypeOK
  <2>2. CASE rxBuf[at].kind = "command"
    <3>1. PICK c \in 1..MaxCommands : rxBuf[at] = Server!Command(c)
      BY <1>7, <2>2 DEF Server!Items, Server!Other, Server!Noise
    <3>2. rxBuf[at].number \in 1..MaxCommands
      BY <3>1 DEF Server!Command
    <3>3. Len(cmdQ) < CmdCap /\ cmdQ' = Append(cmdQ, rxBuf[at].number)
      BY <2>2 DEF Server!ParseFrame, at
    <3>4. cmdQ' \in Seq(1..MaxCommands) /\ Len(cmdQ') = Len(cmdQ) + 1
      BY <2>1, <3>2, <3>3, AppendProperties
    <3> QED
      BY <2>1, <3>3, <3>4, ChannelAssumption
  <2>3. CASE rxBuf[at].kind # "command"
    BY <2>1, <2>3 DEF Server!ParseFrame, at
  <2> QED
    BY <2>2, <2>3
<1>9. TypeOK'
  BY <1>8, ChannelType DEF Server!ParseFrame, TypeOK
<1> QED
  BY <1>6, <1>9

LEMMA TakeTelemetryType ==
    ASSUME BridgeTypes, Server!TakeTelemetry, UNCHANGED loopVars
    PROVE  BridgeTypes'
<1> USE DEF BridgeTypes, BridgeTypeOK, Server!ServerTypeOK
<1>1. telemQ \in Seq(Packets) /\ Len(telemQ) \in Nat /\ Len(telemQ) <= TelemCap /\ telemQ # <<>>
  BY DEF TypeOK, Server!TakeTelemetry
<1>2. /\ Head(telemQ) \in Packets
      /\ telemQ' \in Seq(Packets) /\ Len(telemQ') = Len(telemQ) - 1
  BY <1>1, HeadTailProperties DEF Server!TakeTelemetry
<1>3. held' \in Seq(Packets) /\ Len(held') = 1
  BY <1>2 DEF Server!TakeTelemetry
<1>4. phase' = "writing" /\ phase' \in Server!Phases
  BY DEF Server!TakeTelemetry, Server!Phases
<1>5. UNCHANGED <<rxBuf, up, down, hungUp, firstCmd, waiting, connections, junk, seen>>
  BY DEF Server!TakeTelemetry, Server!connection, Server!backlog
<1>6. Server!ServerTypeOK' /\ PacketsHeld'
  BY <1>3, <1>4, <1>5 DEF PacketsHeld
<1>7. Len(telemQ') <= TelemCap
  BY <1>1, <1>2, ChannelAssumption
<1>8. TypeOK'
  BY <1>2, <1>7, ChannelType DEF Server!TakeTelemetry, TypeOK
<1> QED
  BY <1>6, <1>8

LEMMA WriteTelemetryType ==
    ASSUME BridgeTypes, Server!WriteTelemetry, UNCHANGED loopVars
    PROVE  BridgeTypes'
<1> USE DEF BridgeTypes, BridgeTypeOK, Server!ServerTypeOK
<1>1. /\ down \in Seq(Packets) /\ held \in Seq(Packets) /\ Len(held) = 1
      /\ Len(down) \in Nat /\ Len(down) <= DownCap
  BY DEF PacketsHeld, Server!WriteTelemetry
<1>2. down' \in Seq(Packets) /\ Len(down') <= DownCap
  <2>1. CASE Len(down) < DownCap /\ down' = down \o held
    <3>1. down \o held \in Seq(Packets) /\ Len(down \o held) = Len(down) + 1
      <4>1. /\ down \o held \in Seq(Packets)
            /\ Len(down \o held) = Len(down) + Len(held)
        BY <1>1, ConcatProperties DEF PacketsHeld
      <4> QED
        BY <1>1, <4>1
    <3>2. Len(down) + 1 <= DownCap
      BY <1>1, <2>1, ServerAssumption
    <3> QED
      BY <2>1, <3>1, <3>2
  <2>2. CASE UNCHANGED down
    BY <1>1, <2>2
  <2> QED
    BY <2>1, <2>2 DEF Server!WriteTelemetry
<1>3. held' = <<>> /\ phase' = "select" /\ phase' \in Server!Phases
  BY DEF Server!WriteTelemetry, Server!Phases
<1>4. held' \in Seq(Packets) /\ Len(held') = 0
  BY <1>3
<1>5. UNCHANGED <<rxBuf, up, hungUp, firstCmd, waiting, connections, junk, seen>>
  BY DEF Server!WriteTelemetry, Server!backlog
<1>6. Server!ServerTypeOK' /\ PacketsHeld'
  BY <1>2, <1>3, <1>4, <1>5 DEF PacketsHeld
<1>7. TypeOK'
  BY ChannelType DEF Server!WriteTelemetry, TypeOK
<1> QED
  BY <1>6, <1>7

LEMMA SendType ==
    ASSUME BridgeTypes, Server!SendCommand \/ Server!SendJunk, UNCHANGED loopVars
    PROVE  BridgeTypes'
<1> USE DEF BridgeTypes, BridgeTypeOK, Server!ServerTypeOK
<1>1. up \in Seq(Server!Items) /\ Len(up) \in Nat
  OBVIOUS
<1>2. ASSUME NEW item \in Server!Items, up' = Append(up, item), Len(up) < UpCap
      PROVE  up' \in Seq(Server!Items) /\ Len(up') <= UpCap
  <2>1. up' \in Seq(Server!Items) /\ Len(up') = Len(up) + 1
    BY <1>1, <1>2, AppendProperties
  <2> QED
    BY <1>1, <1>2, <2>1, ServerAssumption
<1>3. CASE Server!SendCommand
  <2>1. sent + 1 \in 1..MaxCommands /\ sent' = sent + 1
    BY <1>3, CounterAssumption DEF Server!SendCommand, TypeOK
  <2>2. Server!Command(sent + 1) \in Server!Items
    BY <2>1 DEF Server!Items
  <2>3. up' \in Seq(Server!Items) /\ Len(up') <= UpCap
    BY <1>2, <1>3, <2>2 DEF Server!SendCommand
  <2>4. UNCHANGED <<phase, rxBuf, held, down, hungUp, firstCmd, waiting, connections, junk, seen>>
    BY <1>3 DEF Server!SendCommand, Server!backlog
  <2>5. Server!ServerTypeOK' /\ PacketsHeld'
    BY <2>3, <2>4 DEF PacketsHeld
  <2>6. TypeOK'
    <3>1. sent' \in 0..MaxCommands
      BY <2>1
    <3> QED
      BY <1>3, <3>1, ChannelType DEF Server!SendCommand, TypeOK
  <2> QED
    BY <2>5, <2>6
<1>4. CASE Server!SendJunk
  <2>1. Server!Other \in Server!Items /\ Server!Noise \in Server!Items
    BY DEF Server!Items
  <2>2. up' \in Seq(Server!Items) /\ Len(up') <= UpCap
    BY <1>2, <1>4, <2>1 DEF Server!SendJunk
  <2>3. junk' \in 0..MaxNoise
    BY <1>4, ServerAssumption DEF Server!SendJunk
  <2>4. UNCHANGED <<phase, rxBuf, held, down, hungUp, firstCmd, waiting, connections, seen>>
    BY <1>4 DEF Server!SendJunk, Server!backlog
  <2>5. Server!ServerTypeOK' /\ PacketsHeld'
    BY <2>2, <2>3, <2>4 DEF PacketsHeld
  <2>6. TypeOK'
    BY <1>4, ChannelType DEF Server!SendJunk, TypeOK
  <2> QED
    BY <2>5, <2>6
<1> QED
  BY <1>3, <1>4

LEMMA ReadTelemetryType ==
    ASSUME BridgeTypes, Server!ReadTelemetry, UNCHANGED loopVars
    PROVE  BridgeTypes'
<1> USE DEF BridgeTypes, BridgeTypeOK, Server!ServerTypeOK
<1>1. down \in Seq(Packets) /\ Len(down) \in Nat /\ Len(down) <= DownCap /\ down # <<>>
  BY DEF PacketsHeld, Server!ReadTelemetry
<1>2. Head(down) \in Packets /\ down' \in Seq(Packets) /\ Len(down') = Len(down) - 1
  BY <1>1, HeadTailProperties DEF Server!ReadTelemetry
<1>3. Len(down') <= DownCap /\ seen' \in Nat
  BY <1>1, <1>2, ServerAssumption, CounterAssumption DEF Packets, Server!ReadTelemetry
<1>4. UNCHANGED <<phase, rxBuf, held, up, hungUp, firstCmd, waiting, connections, junk>>
  BY DEF Server!ReadTelemetry, Server!backlog
<1>5. Server!ServerTypeOK' /\ PacketsHeld'
  BY <1>2, <1>3, <1>4 DEF PacketsHeld
<1>6. TypeOK'
  BY ChannelType DEF Server!ReadTelemetry, TypeOK
<1> QED
  BY <1>5, <1>6

\* The actions that move no item.
LEMMA OtherType ==
    ASSUME BridgeTypes, UNCHANGED loopVars,
           Server!Accept \/ Server!ParseEnds \/ Server!Connect \/ Server!HangUp
    PROVE  BridgeTypes'
<1> USE DEF BridgeTypes, BridgeTypeOK, Server!ServerTypeOK
<1>1. UNCHANGED <<rxBuf, held, up, down, junk, seen, cmdQ, sent, telemQ>>
  BY DEF Server!Accept, Server!ParseEnds, Server!Connect, Server!HangUp, Server!connection
<1>2. phase' \in Server!Phases /\ (phase' = "writing" <=> phase = "writing")
  BY DEF Server!Accept, Server!ParseEnds, Server!Connect, Server!HangUp, Server!Phases
<1>3. /\ hungUp' \in BOOLEAN /\ waiting' \in BOOLEAN
      /\ connections' \in 0..MaxConnections /\ firstCmd' \in 1..MaxCommands + 1
  <2>1. sent + 1 \in 1..MaxCommands + 1
    BY CounterAssumption DEF TypeOK
  <2>2. connections < MaxConnections => connections + 1 \in 0..MaxConnections
    BY ServerAssumption
  <2> QED
    BY <2>1, <2>2 DEF Server!Accept, Server!ParseEnds, Server!Connect, Server!HangUp,
                      Server!connection, Server!backlog
<1>4. Server!ServerTypeOK' /\ PacketsHeld'
  BY <1>1, <1>2, <1>3 DEF PacketsHeld
<1>5. TypeOK'
  BY <1>1, ChannelType DEF TypeOK
<1> QED
  BY <1>4, <1>5

LEMMA BridgeStepType == ASSUME BridgeTypes, [BridgeNext]_bridgeVars PROVE BridgeTypes'
<1>1. ASSUME Server!Disconnect, UNCHANGED telemQ, UNCHANGED loopVars
      PROVE  BridgeTypes'
  <2>1. TypeOK'
    BY <1>1, ChannelType DEF Server!Disconnect, BridgeTypes, BridgeTypeOK, TypeOK
  <2> QED
    BY <1>1, <2>1, DisconnectType DEF BridgeTypes, BridgeTypeOK
<1>2. CASE ServerStep
  BY <1>1, <1>2, ReceiveType, ParseFrameType, TakeTelemetryType, WriteTelemetryType, OtherType
     DEF ServerStep, Server!ServerNext, Server!Overflow, Server!ReadEnds, Server!WriteFails
<1>3. CASE ControllerStep
  BY <1>3, SendType, ReadTelemetryType, OtherType DEF ControllerStep, Server!ControllerNext
<1>4. CASE UNCHANGED bridgeVars
  <2>1. UNCHANGED vars /\ UNCHANGED serverVars
    BY <1>4 DEF bridgeVars
  <2>2. TypeOK'
    BY <2>1, StepType DEF BridgeTypes, BridgeTypeOK
  <2> QED
    BY <2>1, <2>2 DEF BridgeTypes, BridgeTypeOK, PacketsHeld, serverVars, Server!ServerTypeOK
<1> QED
  BY <1>2, <1>3, <1>4, LoopType DEF BridgeNext

(***************************************************************************)
(* Every channel, socket and buffer between the controllers and the loop   *)
(* keeps its capacity, and what travels in it is what belongs there,       *)
(* whatever the capacities are and however connections begin and end       *)
(* (server.rs:38-106, main.rs:68-89).                                      *)
(***************************************************************************)
THEOREM BridgeTypeCorrect == BridgeSpec => []BridgeTypeOK
<1>1. BridgeTypes => BridgeTypeOK
  BY DEF BridgeTypes
<1> QED
  BY <1>1, BridgeInitType, BridgeStepType, PTL DEF BridgeSpec

-------------------------------------------------------------------------------
(***************************************************************************)
(* Both ways through the bridge are one sequence from end to end: a step   *)
(* appends to it, cuts a run of its members out, or moves the border       *)
(* between two of its parts and leaves it as it is.                        *)
(***************************************************************************)
Way == down \o held \o telemQ

\* t is s without the b members that follow the first a.
Cut(t, s, a, b) ==
    /\ a \in Nat /\ b \in Nat /\ a + b <= Len(s)
    /\ Len(t) = Len(s) - b
    /\ \A i \in 1..Len(t) : t[i] = s[IF i <= a THEN i ELSE i + b]

\* Packet numbers grow until the count stops at its bound.
Before(m, n) == m < n \/ n = SeqBound

PacketsOrdered(s, low, high) ==
    \A i \in 1..Len(s) :
       /\ s[i].seq <= high /\ Before(low, s[i].seq)
       /\ \A j \in 1..i - 1 : Before(s[j].seq, s[i].seq)

\* No packet overtakes another between the event loop and a controller's eyes.
TelemetryOrder == seen <= telemSeq /\ PacketsOrdered(Way, seen, telemSeq)

CommandsOrdered(s, low, high) ==
    \A i \in 1..Len(s) : IsCommand(s[i]) =>
       /\ low < s[i].number /\ s[i].number <= high
       /\ \A j \in 1..i - 1 : IsCommand(s[j]) => s[j].number < s[i].number

\* What is in the pipeline was sent after last_cmd; it is the server's only while it is
\* connected.
CommandOrder ==
    /\ applied <= lastCmd /\ lastCmd <= sent
    /\ CommandsOrdered(Pipeline, lastCmd, sent)
    /\ ~Server!Connected => rxBuf = <<>> /\ up = <<>>

NothingLost ==
    Server!Connected =>
       \A c \in firstCmd..sent :
          c <= lastCmd \/ \E i \in 1..Len(Pipeline) : Pipeline[i] = Server!Command(c)

BridgeInv == BridgeTypes /\ TelemetryOrder /\ CommandOrder /\ NothingLost

LEMMA ThreeParts ==
    ASSUME NEW S, NEW d \in Seq(S), NEW h \in Seq(S), NEW q \in Seq(S)
    PROVE  /\ d \o h \o q \in Seq(S)
           /\ Len(d \o h \o q) = Len(d) + Len(h) + Len(q)
           /\ \A i \in 1..Len(d) + Len(h) + Len(q) :
                 (d \o h \o q)[i] = IF i <= Len(d) THEN d[i]
                                    ELSE IF i <= Len(d) + Len(h) THEN h[i - Len(d)]
                                    ELSE q[i - Len(d) - Len(h)]
<1>1. Len(d) \in Nat /\ Len(h) \in Nat /\ Len(q) \in Nat
  OBVIOUS
<1>2. /\ d \o h \in Seq(S) /\ Len(d \o h) = Len(d) + Len(h)
      /\ \A i \in 1..Len(d) + Len(h) :
            (d \o h)[i] = IF i <= Len(d) THEN d[i] ELSE h[i - Len(d)]
  BY ConcatProperties
<1> DEFINE dh == d \o h
<1>3. /\ dh \o q \in Seq(S) /\ Len(dh \o q) = Len(dh) + Len(q)
      /\ \A i \in 1..Len(dh) + Len(q) :
            (dh \o q)[i] = IF i <= Len(dh) THEN dh[i] ELSE q[i - Len(dh)]
  BY <1>2, ConcatProperties
<1> QED
  BY <1>1, <1>2, <1>3

LEMMA InChannel ==
    ASSUME NEW c \in Seq(1..MaxCommands)
    PROVE  LET cs == [i \in 1..Len(c) |-> Server!Command(c[i])]
           IN  /\ cs \in Seq(Server!Items) /\ Len(cs) = Len(c)
               /\ \A i \in 1..Len(c) : cs[i] = Server!Command(c[i])
<1> DEFINE cs == [i \in 1..Len(c) |-> Server!Command(c[i])]
<1>1. Len(c) \in Nat /\ \A i \in 1..Len(c) : c[i] \in 1..MaxCommands
  BY LenProperties, ElementOfSeq
<1>2. \A n \in 1..MaxCommands : Server!Command(n) \in Server!Items
  BY DEF Server!Items
<1>3. \A i \in 1..Len(c) : Server!Command(c[i]) \in Server!Items
  BY <1>1, <1>2
<1>4. cs \in [1..Len(c) -> Server!Items]
  BY <1>3
<1>5. cs \in Seq(Server!Items)
  BY <1>1, <1>4, SeqDef
<1>6. Len(cs) = Len(c)
  BY <1>1, <1>4, <1>5
<1> QED
  BY <1>5, <1>6

LEMMA PipelineItems ==
    ASSUME NEW c \in Seq(1..MaxCommands), NEW r \in Seq(Server!Items),
           NEW u \in Seq(Server!Items)
    PROVE  LET s == [i \in 1..Len(c) |-> Server!Command(c[i])] \o r \o u
           IN  /\ s \in Seq(Server!Items)
               /\ Len(s) = Len(c) + Len(r) + Len(u)
               /\ \A i \in 1..Len(c) + Len(r) + Len(u) :
                     s[i] = IF i <= Len(c) THEN Server!Command(c[i])
                            ELSE IF i <= Len(c) + Len(r) THEN r[i - Len(c)]
                            ELSE u[i - Len(c) - Len(r)]
<1> DEFINE cs == [i \in 1..Len(c) |-> Server!Command(c[i])]
<1>1. /\ cs \in Seq(Server!Items) /\ Len(cs) = Len(c)
      /\ \A i \in 1..Len(c) : cs[i] = Server!Command(c[i])
  BY InChannel
<1>2. Len(c) \in Nat /\ Len(r) \in Nat /\ Len(u) \in Nat
  OBVIOUS
<1> HIDE DEF cs
<1>3. /\ cs \o r \o u \in Seq(Server!Items)
      /\ Len(cs \o r \o u) = Len(cs) + Len(r) + Len(u)
      /\ \A i \in 1..Len(cs) + Len(r) + Len(u) :
            (cs \o r \o u)[i] = IF i <= Len(cs) THEN cs[i]
                                ELSE IF i <= Len(cs) + Len(r) THEN r[i - Len(cs)]
                                ELSE u[i - Len(cs) - Len(r)]
  BY <1>1, ThreeParts
<1>4. \A i \in 1..Len(c) + Len(r) + Len(u) :
         (cs \o r \o u)[i] = IF i <= Len(c) THEN Server!Command(c[i])
                             ELSE IF i <= Len(c) + Len(r) THEN r[i - Len(c)]
                             ELSE u[i - Len(c) - Len(r)]
  BY <1>1, <1>2, <1>3
<1> QED
  BY <1>1, <1>3, <1>4 DEF cs

LEMMA CutPackets ==
    ASSUME NEW s, NEW t, NEW a, NEW b, NEW low, NEW high, Len(s) \in Nat, Len(t) \in Nat,
           Cut(t, s, a, b), PacketsOrdered(s, low, high)
    PROVE  PacketsOrdered(t, low, high)
<1> SUFFICES ASSUME NEW i \in 1..Len(t)
             PROVE  /\ t[i].seq <= high /\ Before(low, t[i].seq)
                    /\ \A j \in 1..i - 1 : Before(t[j].seq, t[i].seq)
  BY DEF PacketsOrdered
<1> DEFINE f(k) == IF k <= a THEN k ELSE k + b
<1>1. \A k \in 1..i : t[k] = s[f(k)] /\ f(k) \in 1..Len(s)
  BY DEF Cut
<1>2. \A k \in 1..i - 1 : f(k) \in 1..f(i) - 1
  BY DEF Cut
<1> HIDE DEF f
<1>3. /\ s[f(i)].seq <= high /\ Before(low, s[f(i)].seq)
      /\ \A j \in 1..f(i) - 1 : Before(s[j].seq, s[f(i)].seq)
  BY <1>1 DEF PacketsOrdered
<1>4. ASSUME NEW j \in 1..i - 1 PROVE Before(t[j].seq, t[i].seq)
  <2>1. Before(s[f(j)].seq, s[f(i)].seq)
    BY <1>2, <1>3
  <2> QED
    BY <1>1, <2>1
<1> QED
  BY <1>1, <1>3, <1>4

LEMMA CutCommands ==
    ASSUME NEW s, NEW t, NEW a, NEW b, NEW low, NEW high, Len(s) \in Nat, Len(t) \in Nat,
           Cut(t, s, a, b), CommandsOrdered(s, low, high)
    PROVE  CommandsOrdered(t, low, high)
<1> SUFFICES ASSUME NEW i \in 1..Len(t), IsCommand(t[i])
             PROVE  /\ low < t[i].number /\ t[i].number <= high
                    /\ \A j \in 1..i - 1 : IsCommand(t[j]) => t[j].number < t[i].number
  BY DEF CommandsOrdered
<1> DEFINE f(k) == IF k <= a THEN k ELSE k + b
<1>1. \A k \in 1..i : t[k] = s[f(k)] /\ f(k) \in 1..Len(s)
  BY DEF Cut
<1>2. \A k \in 1..i - 1 : f(k) \in 1..f(i) - 1
  BY DEF Cut
<1> HIDE DEF f
<1>3. /\ low < s[f(i)].number /\ s[f(i)].number <= high
      /\ \A j \in 1..f(i) - 1 : IsCommand(s[j]) => s[j].number < s[f(i)].number
  BY <1>1 DEF CommandsOrdered
<1>4. ASSUME NEW j \in 1..i - 1, IsCommand(t[j]) PROVE t[j].number < t[i].number
  <2>1. t[i] = s[f(i)] /\ t[j] = s[f(j)]
    BY <1>1
  <2>2. f(j) \in 1..f(i) - 1 /\ IsCommand(s[f(j)])
    BY <1>2, <1>4, <2>1
  <2> QED
    BY <1>3, <2>1, <2>2
<1> QED
  BY <1>1, <1>3, <1>4

\* What is not cut out is still there.
LEMMA CutKeeps ==
    ASSUME NEW s, NEW t, NEW a, NEW b, Len(s) \in Nat, Len(t) \in Nat, Cut(t, s, a, b),
           NEW i \in 1..Len(s), i \notin a + 1..a + b
    PROVE  \E k \in 1..Len(t) : t[k] = s[i]
<1>1. CASE i <= a
  <2>1. i \in 1..Len(t) /\ t[i] = s[i]
    BY <1>1 DEF Cut
  <2> QED
    BY <2>1
<1>2. CASE i > a
  <2>1. i - b \in 1..Len(t) /\ t[i - b] = s[i]
    BY <1>2 DEF Cut
  <2> QED
    BY <2>1
<1> QED
  BY <1>1, <1>2 DEF Cut

-------------------------------------------------------------------------------
(***************************************************************************)
(* Telemetry.                                                              *)
(***************************************************************************)
LEMMA WayParts ==
    BridgeTypes => /\ down \in Seq(Packets) /\ Len(down) \in Nat
                   /\ held \in Seq(Packets) /\ Len(held) \in Nat
                   /\ telemQ \in Seq(Packets) /\ Len(telemQ) \in Nat
                   /\ Way \in Seq(Packets) /\ Len(Way) \in Nat
BY ThreeParts DEF BridgeTypes, BridgeTypeOK, PacketsHeld, TypeOK, Way

LEMMA WayAt ==
    ASSUME NEW d \in Seq(Packets), NEW h \in Seq(Packets), NEW q \in Seq(Packets)
    PROVE  /\ Len(d \o h \o q) = Len(d) + Len(h) + Len(q)
           /\ \A i \in 1..Len(d) : (d \o h \o q)[i] = d[i]
           /\ \A i \in 1..Len(h) : (d \o h \o q)[Len(d) + i] = h[i]
           /\ \A i \in 1..Len(q) : (d \o h \o q)[Len(d) + Len(h) + i] = q[i]
<1>1. Len(d) \in Nat /\ Len(h) \in Nat /\ Len(q) \in Nat
  OBVIOUS
<1> QED
  BY <1>1, ThreeParts

LEMMA WayNow ==
    ASSUME BridgeTypes
    PROVE  /\ Len(Way) = Len(down) + Len(held) + Len(telemQ)
           /\ \A i \in 1..Len(down) : Way[i] = down[i]
           /\ \A i \in 1..Len(held) : Way[Len(down) + i] = held[i]
           /\ \A i \in 1..Len(telemQ) : Way[Len(down) + Len(held) + i] = telemQ[i]
BY WayParts, WayAt DEF Way

LEMMA WayNext ==
    ASSUME BridgeTypes'
    PROVE  /\ Len(Way') = Len(down') + Len(held') + Len(telemQ')
           /\ \A i \in 1..Len(down') : Way'[i] = down'[i]
           /\ \A i \in 1..Len(held') : Way'[Len(down') + i] = held'[i]
           /\ \A i \in 1..Len(telemQ') : Way'[Len(down') + Len(held') + i] = telemQ'[i]
           /\ Len(Way') \in Nat /\ Len(down') \in Nat /\ Len(held') \in Nat
           /\ Len(telemQ') \in Nat
<1>1. down' \in Seq(Packets) /\ held' \in Seq(Packets) /\ telemQ' \in Seq(Packets)
  BY DEF BridgeTypes, BridgeTypeOK, PacketsHeld, TypeOK
<1>2. Len(down') \in Nat /\ Len(held') \in Nat /\ Len(telemQ') \in Nat
  BY <1>1
<1> QED
  BY <1>1, <1>2, WayAt DEF Way

\* The way is cut where a connection ends, and a packet falls out at the front when it is
\* read, or in the middle when it is written for nobody.
LEMMA DisconnectWay ==
    ASSUME BridgeTypes, BridgeTypes', Server!Disconnect, UNCHANGED telemQ
    PROVE  Cut(Way', Way, 0, Len(down) + Len(held))
<1>1. down' = <<>> /\ held' = <<>> /\ telemQ' = telemQ
  BY DEF Server!Disconnect
<1>2. Len(down') = 0 /\ Len(held') = 0
  BY <1>1
<1>3. /\ Len(Way') = Len(down') + Len(held') + Len(telemQ')
      /\ \A i \in 1..Len(telemQ') : Way'[Len(down') + Len(held') + i] = telemQ'[i]
  BY WayNext
<1>4. Len(Way') = Len(telemQ) /\ \A i \in 1..Len(telemQ) : Way'[i] = telemQ[i]
  BY <1>1, <1>2, <1>3, WayParts
<1> QED
  BY <1>4, WayNow, WayParts DEF Cut

LEMMA TakeTelemetryWay ==
    ASSUME BridgeTypes, BridgeTypes', Server!TakeTelemetry
    PROVE  Cut(Way', Way, 0, 0)
<1>1. down' = down /\ held' = <<Head(telemQ)>> /\ telemQ' = Tail(telemQ) /\ telemQ # <<>>
  BY DEF Server!TakeTelemetry, Server!connection
<1>2. Len(held) = 0
  BY DEF Server!TakeTelemetry, BridgeTypes, BridgeTypeOK, Server!ServerTypeOK
<1>3. /\ Len(held') = 1 /\ held'[1] = telemQ[1] /\ Len(telemQ') = Len(telemQ) - 1
      /\ \A i \in 1..Len(telemQ') : telemQ'[i] = telemQ[i + 1]
  BY <1>1, WayParts
<1>4. /\ Len(Way') = Len(down') + Len(held') + Len(telemQ')
      /\ \A i \in 1..Len(down') : Way'[i] = down'[i]
      /\ \A i \in 1..Len(held') : Way'[Len(down') + i] = held'[i]
      /\ \A i \in 1..Len(telemQ') : Way'[Len(down') + Len(held') + i] = telemQ'[i]
  BY WayNext
<1>5. Len(Way') = Len(Way)
  <2>1. Len(Way') = Len(down) + 1 + (Len(telemQ) - 1)
    BY <1>1, <1>3, <1>4
  <2>2. Len(Way) = Len(down) + 0 + Len(telemQ)
    BY <1>2, WayNow
  <2> QED
    BY <2>1, <2>2, WayParts
<1>6. ASSUME NEW i \in 1..Len(Way) PROVE Way'[i] = Way[i]
  <2>1. CASE i <= Len(down)
    BY <2>1, <1>1, <1>4, WayNow, WayParts
  <2>2. CASE i > Len(down)
    <3> DEFINE k == i - Len(down)
    <3>1. k \in 1..Len(telemQ) /\ i = Len(down) + k
      BY <2>2, <1>2, WayNow, WayParts
    <3>2. Way[i] = telemQ[k]
      <4>1. Way[Len(down) + Len(held) + k] = telemQ[k]
        BY <3>1, WayNow
      <4> QED
        BY <3>1, <4>1, <1>2, WayParts
    <3>3. CASE k = 1
      <4>1. Way'[Len(down') + 1] = held'[1]
        BY <1>3, <1>4
      <4> QED
        BY <1>1, <1>3, <3>1, <3>2, <3>3, <4>1
    <3>4. CASE k > 1
      <4>1. k - 1 \in 1..Len(telemQ')
        BY <1>3, <3>1, <3>4, WayParts
      <4>2. Way'[Len(down') + Len(held') + (k - 1)] = telemQ'[k - 1]
        BY <1>4, <4>1
      <4>3. telemQ'[k - 1] = telemQ[k]
        BY <1>3, <3>1, <4>1
      <4>4. Len(down') + Len(held') + (k - 1) = i
        <5>1. Len(down') = Len(down) /\ Len(held') = 1
          BY <1>1, <1>3
        <5> QED
          BY <3>1, <5>1, WayParts
      <4> QED
        BY <3>2, <4>2, <4>3, <4>4
    <3> QED
      BY <3>1, <3>3, <3>4
  <2> QED
    BY <2>1, <2>2, WayParts
<1> QED
  BY <1>5, <1>6, WayParts DEF Cut

LEMMA WriteTelemetryWay ==
    ASSUME BridgeTypes, BridgeTypes', Server!WriteTelemetry
    PROVE  \E b \in 0..1 : Cut(Way', Way, Len(down), b)
<1>1. held' = <<>> /\ telemQ' = telemQ /\ Len(held) = 1
  BY DEF Server!WriteTelemetry, BridgeTypes, BridgeTypeOK, Server!ServerTypeOK
<1>2. Len(held') = 0
  BY <1>1
<1>3. /\ Len(Way') = Len(down') + Len(held') + Len(telemQ')
      /\ \A i \in 1..Len(down') : Way'[i] = down'[i]
      /\ \A i \in 1..Len(telemQ') : Way'[Len(down') + Len(held') + i] = telemQ'[i]
  BY WayNext
<1>4. CASE down' = down
  <2>1. Len(Way') = Len(Way) - 1
    BY <1>1, <1>2, <1>3, <1>4, WayNow, WayParts, WayNext
  <2>2. ASSUME NEW i \in 1..Len(Way')
        PROVE  Way'[i] = Way[IF i <= Len(down) THEN i ELSE i + 1]
    <3>1. CASE i <= Len(down)
      BY <3>1, <1>3, <1>4, WayNow, WayParts
    <3>2. CASE i > Len(down)
      <4> DEFINE k == i - Len(down)
      <4>1. k \in 1..Len(telemQ)
        BY <3>2, <1>1, <1>2, <1>3, <1>4, WayParts
      <4>2. Way[Len(down) + Len(held) + k] = telemQ[k]
        BY <4>1, WayNow
      <4>3. Way'[Len(down') + Len(held') + k] = telemQ'[k]
        BY <4>1, <1>1, <1>3
      <4> QED
        BY <3>2, <4>1, <4>2, <4>3, <1>1, <1>2, <1>4, WayParts
    <3> QED
      BY <3>1, <3>2, WayParts
  <2>3. Cut(Way', Way, Len(down), 1)
    BY <2>1, <2>2, <1>1, WayNow, WayParts DEF Cut
  <2> QED
    BY <2>3
<1>5. CASE down' = down \o held
  <2>1. Way' = Way
    <3>1. held' = <<>> /\ down \o held \in Seq(Packets)
      BY <1>1, WayParts, ConcatProperties
    <3>2. (down \o held) \o <<>> = down \o held
      BY <3>1, ConcatEmptySeq
    <3> QED
      BY <1>1, <1>5, <3>1, <3>2 DEF Way
  <2>2. Cut(Way', Way, Len(down), 0)
    BY <2>1, WayNow, WayParts DEF Cut
  <2> QED
    BY <2>2
<1> QED
  BY <1>4, <1>5 DEF Server!WriteTelemetry

LEMMA ReadTelemetryWay ==
    ASSUME BridgeTypes, BridgeTypes', Server!ReadTelemetry
    PROVE  Cut(Way', Way, 0, 1) /\ Len(Way) > 0 /\ seen' = Way[1].seq
<1>1. /\ down # <<>> /\ seen' = Head(down).seq /\ down' = Tail(down)
      /\ held' = held /\ telemQ' = telemQ
  BY DEF Server!ReadTelemetry
<1>2. /\ Len(down) > 0 /\ Head(down) = down[1] /\ Len(down') = Len(down) - 1
      /\ \A i \in 1..Len(down') : down'[i] = down[i + 1]
  BY <1>1, WayParts
<1>3. /\ Len(Way') = Len(down') + Len(held') + Len(telemQ')
      /\ \A i \in 1..Len(down') : Way'[i] = down'[i]
      /\ \A i \in 1..Len(held') : Way'[Len(down') + i] = held'[i]
      /\ \A i \in 1..Len(telemQ') : Way'[Len(down') + Len(held') + i] = telemQ'[i]
  BY WayNext
<1>4. Len(Way') = Len(Way) - 1
  BY <1>1, <1>2, <1>3, WayNow, WayParts
<1>5. ASSUME NEW i \in 1..Len(Way') PROVE Way'[i] = Way[i + 1]
  <2>1. CASE i <= Len(down')
    <3>1. Way'[i] = down[i + 1] /\ i + 1 \in 1..Len(down)
      BY <2>1, <1>2, <1>3, WayParts
    <3> QED
      BY <3>1, WayNow
  <2>2. CASE i > Len(down') /\ i <= Len(down') + Len(held)
    <3> DEFINE k == i - Len(down')
    <3>1. k \in 1..Len(held)
      BY <2>2, <1>2, WayParts
    <3>2. Way'[Len(down') + k] = held[k] /\ Way[Len(down) + k] = held[k]
      BY <3>1, <1>1, <1>3, WayNow
    <3> QED
      BY <3>1, <3>2, <1>2, WayParts
  <2>3. CASE i > Len(down') + Len(held)
    <3> DEFINE k == i - Len(down') - Len(held)
    <3>1. k \in 1..Len(telemQ)
      BY <2>3, <1>1, <1>2, <1>3, WayParts
    <3>2. /\ Way'[Len(down') + Len(held) + k] = telemQ[k]
          /\ Way[Len(down) + Len(held) + k] = telemQ[k]
      BY <3>1, <1>1, <1>3, WayNow
    <3> QED
      BY <3>1, <3>2, <1>2, WayParts
  <2> QED
    BY <2>1, <2>2, <2>3, <1>2, WayParts
<1>6. Len(Way) > 0 /\ Way[1] = down[1]
  BY <1>2, WayNow, WayParts
<1>7. Cut(Way', Way, 0, 1)
  BY <1>4, <1>5, <1>6, WayParts DEF Cut
<1> QED
  BY <1>1, <1>2, <1>6, <1>7

LEMMA OfferWay ==
    ASSUME BridgeTypes, NEW source \in {"sim", "sg"}, Offer(source), UNCHANGED <<held, down>>
    PROVE  \/ Way' = Way /\ telemSeq' = telemSeq
           \/ \E packet \in Packets :
                 /\ Way' = Append(Way, packet) /\ packet.seq = telemSeq'
                 /\ telemSeq' = IF telemSeq < SeqBound THEN telemSeq + 1 ELSE SeqBound
<1> DEFINE seq == IF telemSeq < SeqBound THEN telemSeq + 1 ELSE SeqBound
           packet == [source |-> source, seq |-> seq]
<1>1. CASE ~(Len(telemQ) < TelemCap)
  BY <1>1 DEF Offer, Way
<1>2. CASE Len(telemQ) < TelemCap
  <2>1. telemQ' = Append(telemQ, packet) /\ telemSeq' = seq
    BY <1>2 DEF Offer
  <2>2. packet \in Packets
    BY CounterAssumption DEF BridgeTypes, BridgeTypeOK, TypeOK, Packets
  <2>3. packet.seq = seq
    OBVIOUS
  <2> HIDE DEF packet
  <2>4. Way' = down \o held \o (telemQ \o <<packet>>)
    BY <2>1, <2>2, WayParts, AppendIsConcat DEF Way
  <2>5. <<packet>> \in Seq(Packets) /\ down \o held \in Seq(Packets)
    BY <2>2, WayParts, ConcatProperties
  <2>6. Way' = Way \o <<packet>>
    BY <2>4, <2>5, WayParts, ConcatAssociative DEF Way
  <2>7. Way' = Append(Way, packet)
    BY <2>2, <2>6, WayParts, AppendIsConcat
  <2> QED
    BY <2>1, <2>2, <2>3, <2>7
<1> QED
  BY <1>1, <1>2

LEMMA AppendPackets ==
    ASSUME NEW s \in Seq(Packets), NEW packet \in Packets, NEW low \in Nat, NEW high \in Nat,
           PacketsOrdered(s, low, high), low <= high,
           high <= packet.seq, Before(high, packet.seq)
    PROVE  PacketsOrdered(Append(s, packet), low, packet.seq)
<1> DEFINE t == Append(s, packet)
<1>1. Len(s) \in Nat /\ packet.seq \in Nat /\ \A i \in 1..Len(s) : s[i].seq \in Nat
  <2>1. \A p \in Packets : p.seq \in Nat
    BY CounterAssumption DEF Packets
  <2> QED
    BY <2>1
<1>2. /\ Len(t) = Len(s) + 1 /\ t[Len(s) + 1] = packet
      /\ \A i \in 1..Len(s) : t[i] = s[i]
  BY AppendProperties
<1> HIDE DEF t
<1> SUFFICES ASSUME NEW i \in 1..Len(t)
             PROVE  /\ t[i].seq <= packet.seq /\ Before(low, t[i].seq)
                    /\ \A j \in 1..i - 1 : Before(t[j].seq, t[i].seq)
  BY DEF PacketsOrdered, t
<1>3. CASE i <= Len(s)
  <2>1. /\ s[i].seq <= high /\ Before(low, s[i].seq)
        /\ \A j \in 1..i - 1 : Before(s[j].seq, s[i].seq)
    BY <1>3 DEF PacketsOrdered
  <2>2. i \in 1..Len(s) /\ \A j \in 1..i - 1 : j \in 1..Len(s)
    BY <1>1, <1>3
  <2>3. t[i] = s[i] /\ \A j \in 1..i - 1 : t[j] = s[j]
    BY <1>2, <2>2
  <2>4. s[i].seq <= packet.seq
    BY <1>1, <2>1, <2>2
  <2> QED
    BY <2>1, <2>3, <2>4
<1>4. CASE i = Len(s) + 1
  <2>1. t[i] = packet
    BY <1>2, <1>4
  <2>2. Before(low, packet.seq)
    BY <1>1 DEF Before
  <2>3. ASSUME NEW j \in 1..i - 1 PROVE Before(t[j].seq, packet.seq)
    <3>1. j \in 1..Len(s) /\ t[j] = s[j]
      BY <1>1, <1>2, <1>4
    <3>2. s[j].seq <= high
      BY <3>1 DEF PacketsOrdered
    <3> QED
      BY <1>1, <3>1, <3>2 DEF Before
  <2> QED
    BY <1>1, <2>1, <2>2, <2>3
<1> QED
  BY <1>1, <1>2, <1>3, <1>4

\* What follows the first packet follows whoever has read it.
LEMMA FirstPacket ==
    ASSUME NEW s, NEW t, NEW low, NEW high, Len(s) \in Nat, Len(t) \in Nat,
           Cut(t, s, 0, 1), PacketsOrdered(s, low, high)
    PROVE  PacketsOrdered(t, s[1].seq, high)
<1> SUFFICES ASSUME NEW i \in 1..Len(t) PROVE Before(s[1].seq, t[i].seq)
  <2>1. PacketsOrdered(t, low, high)
    BY CutPackets
  <2> QED
    BY <2>1 DEF PacketsOrdered
<1>1. t[i] = s[i + 1] /\ i + 1 \in 1..Len(s) /\ 1 \in 1..(i + 1) - 1
  BY DEF Cut
<1>2. Before(s[1].seq, s[i + 1].seq)
  BY <1>1 DEF PacketsOrdered
<1> QED
  BY <1>1, <1>2

\* The loop's part: it appends a packet or leaves the way alone.
LEMMA LoopTelemetry ==
    ASSUME LoopStep \/ TimerStep \/ SgStep
    PROVE  /\ UNCHANGED <<held, down, seen>>
           /\ (\E source \in {"sim", "sg"} : Offer(source)) \/ UNCHANGED <<telemQ, telemSeq>>
<1>1. UNCHANGED <<held, down, seen>>
  BY DEF LoopStep, TimerStep, SgStep, serverVars
<1>2. \/ Offer("sim") \/ Offer("sg") \/ UNCHANGED <<telemQ, telemSeq>>
  BY DEF LoopStep, TimerStep, SgStep, LoopNext, TickSg, TickFallback, Hold, NoTick, TakeCommand,
         NoCommand, TakeStartOfFrame, TakeSensorResponse, NoResponse, TimerFires, SgResponds,
         HostSends, telem
<1> QED
  BY <1>1, <1>2

\* The other end's: a cut, which may make the first packet the one last read.
LEMMA ServerTelemetry ==
    ASSUME BridgeTypes, BridgeTypes', ServerStep \/ ControllerStep
    PROVE  /\ UNCHANGED telemSeq
           /\ \/ UNCHANGED seen /\ \E a, b \in Nat : Cut(Way', Way, a, b)
              \/ Cut(Way', Way, 0, 1) /\ Len(Way) > 0 /\ seen' = Way[1].seq
<1>1. UNCHANGED telemSeq
  BY DEF ServerStep, ControllerStep, loopVars
<1>2. ASSUME UNCHANGED <<down, held, telemQ>> PROVE Cut(Way', Way, 0, 0)
  BY <1>2, WayParts DEF Cut, Way
<1>3. CASE ControllerStep
  <2>1. CASE Server!ReadTelemetry
    BY <1>1, <2>1, ReadTelemetryWay
  <2>2. CASE Server!Connect \/ Server!SendCommand \/ Server!SendJunk \/ Server!HangUp
    <3>1. UNCHANGED <<down, held, telemQ, seen>>
      BY <2>2 DEF Server!Connect, Server!SendCommand, Server!SendJunk, Server!HangUp,
                  Server!connection
    <3>2. Cut(Way', Way, 0, 0) /\ 0 \in Nat
      BY <1>2, <3>1
    <3> QED
      BY <1>1, <3>1, <3>2
  <2> QED
    BY <1>3, <2>1, <2>2 DEF ControllerStep, Server!ControllerNext
<1>4. CASE ServerStep
  <2>1. ASSUME Server!Disconnect, UNCHANGED telemQ
        PROVE  UNCHANGED seen /\ \E a, b \in Nat : Cut(Way', Way, a, b)
    <3>1. Cut(Way', Way, 0, Len(down) + Len(held)) /\ Len(down) + Len(held) \in Nat
      BY <2>1, DisconnectWay, WayParts
    <3>2. UNCHANGED seen
      BY <2>1 DEF Server!Disconnect
    <3> QED
      BY <3>1, <3>2
  <2>2. CASE Server!Accept \/ Server!Receive \/ Server!ParseFrame \/ Server!ParseEnds
    <3>1. UNCHANGED <<down, held, telemQ, seen>>
      BY <2>2 DEF Server!Accept, Server!Receive, Server!ParseFrame, Server!ParseEnds,
                  Server!connection
    <3>2. Cut(Way', Way, 0, 0) /\ 0 \in Nat
      BY <1>2, <3>1
    <3> QED
      BY <1>1, <3>1, <3>2
  <2>3. CASE Server!TakeTelemetry
    <3>1. UNCHANGED seen
      BY <2>3 DEF Server!TakeTelemetry
    <3>2. Cut(Way', Way, 0, 0) /\ 0 \in Nat
      BY <2>3, TakeTelemetryWay
    <3> QED
      BY <1>1, <3>1, <3>2
  <2>4. CASE Server!WriteTelemetry
    <3>1. UNCHANGED seen
      BY <2>4 DEF Server!WriteTelemetry
    <3>2. PICK b \in 0..1 : Cut(Way', Way, Len(down), b)
      BY <2>4, WriteTelemetryWay
    <3> QED
      BY <1>1, <3>1, <3>2, WayParts
  <2> QED
    BY <1>1, <1>4, <2>1, <2>2, <2>3, <2>4
       DEF ServerStep, Server!ServerNext, Server!Overflow, Server!ReadEnds, Server!WriteFails
<1> QED
  BY <1>3, <1>4

LEMMA TelemetryStep ==
    ASSUME BridgeTypes, BridgeTypes', TelemetryOrder, [BridgeNext]_bridgeVars
    PROVE  TelemetryOrder'
<1>1. /\ seen \in Nat /\ telemSeq \in Nat /\ Way \in Seq(Packets) /\ Len(Way) \in Nat
      /\ telemSeq <= SeqBound
  BY WayParts, CounterAssumption DEF BridgeTypes, BridgeTypeOK, TypeOK, Server!ServerTypeOK
<1>2. Len(Way') \in Nat
  BY WayNext
<1>3. CASE UNCHANGED <<Way, seen, telemSeq>>
  BY <1>3 DEF TelemetryOrder, PacketsOrdered
<1>4. CASE LoopStep \/ TimerStep \/ SgStep
  <2>1. UNCHANGED <<held, down, seen>>
    BY <1>4, LoopTelemetry
  <2>2. CASE UNCHANGED <<telemQ, telemSeq>>
    BY <1>3, <2>1, <2>2 DEF Way
  <2>3. ASSUME NEW packet \in Packets, Way' = Append(Way, packet), packet.seq = telemSeq',
               telemSeq' = IF telemSeq < SeqBound THEN telemSeq + 1 ELSE SeqBound
        PROVE  TelemetryOrder'
    <3>1. telemSeq <= packet.seq /\ Before(telemSeq, packet.seq)
      BY <1>1, <2>3, CounterAssumption DEF Before
    <3>2. PacketsOrdered(Append(Way, packet), seen, packet.seq)
      BY <1>1, <3>1, AppendPackets DEF TelemetryOrder
    <3>3. seen' <= telemSeq'
      BY <1>1, <2>1, <2>3, <3>1 DEF TelemetryOrder, Packets
    <3> QED
      BY <2>1, <2>3, <3>2, <3>3 DEF TelemetryOrder
  <2>4. CASE \E source \in {"sim", "sg"} : Offer(source)
    BY <1>3, <2>1, <2>3, <2>4, OfferWay
  <2> QED
    BY <1>4, <2>2, <2>4, LoopTelemetry
<1>5. CASE ServerStep \/ ControllerStep
  <2>1. UNCHANGED telemSeq
    BY <1>5, ServerTelemetry
  <2>2. ASSUME UNCHANGED seen, NEW a, NEW b, Cut(Way', Way, a, b)
        PROVE  TelemetryOrder'
    BY <1>1, <1>2, <2>1, <2>2, CutPackets DEF TelemetryOrder
  <2>3. ASSUME Cut(Way', Way, 0, 1), Len(Way) > 0, seen' = Way[1].seq
        PROVE  TelemetryOrder'
    <3>1. PacketsOrdered(Way', seen', telemSeq')
      BY <1>1, <1>2, <2>1, <2>3, FirstPacket DEF TelemetryOrder
    <3>2. seen' <= telemSeq'
      BY <1>1, <2>1, <2>3 DEF TelemetryOrder, PacketsOrdered
    <3> QED
      BY <3>1, <3>2 DEF TelemetryOrder
  <2> QED
    BY <1>5, <2>2, <2>3, ServerTelemetry
<1>6. CASE UNCHANGED bridgeVars
  BY <1>3, <1>6 DEF bridgeVars, vars, serverVars, telem, Way
<1> QED
  BY <1>4, <1>5, <1>6 DEF BridgeNext

-------------------------------------------------------------------------------
(***************************************************************************)
(* Commands.                                                               *)
(***************************************************************************)
LEMMA PipelineAt ==
    ASSUME NEW c \in Seq(1..MaxCommands), NEW r \in Seq(Server!Items),
           NEW u \in Seq(Server!Items)
    PROVE  LET s == [i \in 1..Len(c) |-> Server!Command(c[i])] \o r \o u
           IN  /\ s \in Seq(Server!Items)
               /\ Len(s) = Len(c) + Len(r) + Len(u)
               /\ \A i \in 1..Len(c) : s[i] = Server!Command(c[i])
               /\ \A i \in 1..Len(r) : s[Len(c) + i] = r[i]
               /\ \A i \in 1..Len(u) : s[Len(c) + Len(r) + i] = u[i]
               /\ Len(c) \in Nat /\ Len(r) \in Nat /\ Len(u) \in Nat /\ Len(s) \in Nat
<1> DEFINE s == [i \in 1..Len(c) |-> Server!Command(c[i])] \o r \o u
<1>1. Len(c) \in Nat /\ Len(r) \in Nat /\ Len(u) \in Nat
  OBVIOUS
<1>2. /\ s \in Seq(Server!Items)
      /\ Len(s) = Len(c) + Len(r) + Len(u)
      /\ \A i \in 1..Len(c) + Len(r) + Len(u) :
            s[i] = IF i <= Len(c) THEN Server!Command(c[i])
                   ELSE IF i <= Len(c) + Len(r) THEN r[i - Len(c)]
                   ELSE u[i - Len(c) - Len(r)]
  BY PipelineItems
<1> HIDE DEF s
<1>3. \A i \in 1..Len(c) : s[i] = Server!Command(c[i])
  BY <1>1, <1>2
<1>4. \A i \in 1..Len(r) : s[Len(c) + i] = r[i]
  BY <1>1, <1>2
<1>5. ASSUME NEW i \in 1..Len(u) PROVE s[Len(c) + Len(r) + i] = u[i]
  <2> DEFINE k == Len(c) + Len(r) + i
  <2>1. /\ k \in 1..Len(c) + Len(r) + Len(u) /\ k - Len(c) - Len(r) = i
        /\ ~(k <= Len(c)) /\ ~(k <= Len(c) + Len(r))
    BY <1>1
  <2> HIDE DEF k
  <2>2. s[k] = u[k - Len(c) - Len(r)]
    BY <1>2, <2>1
  <2> QED
    BY <2>1, <2>2 DEF k
<1> QED
  BY <1>1, <1>2, <1>3, <1>4, <1>5 DEF s

LEMMA PipelineNow ==
    ASSUME BridgeTypes
    PROVE  /\ Pipeline \in Seq(Server!Items)
           /\ Len(Pipeline) = Len(cmdQ) + Len(rxBuf) + Len(up)
           /\ \A i \in 1..Len(cmdQ) : Pipeline[i] = Server!Command(cmdQ[i])
           /\ \A i \in 1..Len(rxBuf) : Pipeline[Len(cmdQ) + i] = rxBuf[i]
           /\ \A i \in 1..Len(up) : Pipeline[Len(cmdQ) + Len(rxBuf) + i] = up[i]
           /\ Len(cmdQ) \in Nat /\ Len(rxBuf) \in Nat /\ Len(up) \in Nat
           /\ Len(Pipeline) \in Nat
<1>1. cmdQ \in Seq(1..MaxCommands) /\ rxBuf \in Seq(Server!Items) /\ up \in Seq(Server!Items)
  BY DEF BridgeTypes, BridgeTypeOK, TypeOK, Server!ServerTypeOK
<1> QED
  BY <1>1, PipelineAt DEF Pipeline

LEMMA PipelineNext ==
    ASSUME BridgeTypes'
    PROVE  /\ Pipeline' \in Seq(Server!Items)
           /\ Len(Pipeline') = Len(cmdQ') + Len(rxBuf') + Len(up')
           /\ \A i \in 1..Len(cmdQ') : Pipeline'[i] = Server!Command(cmdQ'[i])
           /\ \A i \in 1..Len(rxBuf') : Pipeline'[Len(cmdQ') + i] = rxBuf'[i]
           /\ \A i \in 1..Len(up') : Pipeline'[Len(cmdQ') + Len(rxBuf') + i] = up'[i]
           /\ Len(cmdQ') \in Nat /\ Len(rxBuf') \in Nat /\ Len(up') \in Nat
           /\ Len(Pipeline') \in Nat
<1>1. cmdQ' \in Seq(1..MaxCommands) /\ rxBuf' \in Seq(Server!Items) /\ up' \in Seq(Server!Items)
  BY DEF BridgeTypes, BridgeTypeOK, TypeOK, Server!ServerTypeOK
<1> QED
  BY <1>1, PipelineAt DEF Pipeline

\* A read moves the border between socket and buffer.
LEMMA ReceivePipeline ==
    ASSUME BridgeTypes, Server!Receive
    PROVE  Pipeline' = Pipeline
<1> DEFINE cs == [i \in 1..Len(cmdQ) |-> Server!Command(cmdQ[i])]
<1>1. /\ rxBuf \in Seq(Server!Items) /\ up \in Seq(Server!Items) /\ Len(up) \in Nat
      /\ cmdQ \in Seq(1..MaxCommands)
  BY DEF BridgeTypes, BridgeTypeOK, TypeOK, Server!ServerTypeOK
<1>2. cs \in Seq(Server!Items)
  BY <1>1, InChannel
<1>3. \E read, rest \in Seq(Server!Items) :
         rxBuf' = rxBuf \o read /\ up' = rest /\ read \o rest = up
  <2>1. PICK n \in 1..Len(up) : /\ rxBuf' = rxBuf \o SubSeq(up, 1, n)
                                /\ up' = SubSeq(up, n + 1, Len(up))
    BY DEF Server!Receive
  <2>2. /\ SubSeq(up, 1, n) \in Seq(Server!Items)
        /\ SubSeq(up, n + 1, Len(up)) \in Seq(Server!Items)
    BY <1>1, Piece
  <2>3. n \in 1 - 1..Len(up) /\ Len(up) \in n..Len(up) /\ 1 \in 1..Len(up) + 1
    BY <1>1
  <2>4. SubSeq(up, 1, n) \o SubSeq(up, n + 1, Len(up)) = SubSeq(up, 1, Len(up))
    BY <1>1, <2>3, ConcatAdjacentSubSeq
  <2>5. SubSeq(up, 1, n) \o SubSeq(up, n + 1, Len(up)) = up
    BY <1>1, <2>4, SubSeqFull
  <2> QED
    BY <2>1, <2>2, <2>5
<1>4. PICK read, rest \in Seq(Server!Items) :
         rxBuf' = rxBuf \o read /\ up' = rest /\ read \o rest = up
  BY <1>3
<1>5. Pipeline' = cs \o (rxBuf \o read) \o rest
  BY <1>4 DEF Pipeline, Server!Receive
<1>6. Pipeline = cs \o rxBuf \o (read \o rest)
  BY <1>4 DEF Pipeline
<1> HIDE DEF cs
<1>7. cs \o rxBuf \in Seq(Server!Items)
  BY <1>1, <1>2, ConcatProperties
<1>8. (cs \o rxBuf) \o read = cs \o (rxBuf \o read)
  BY <1>1, <1>2, ConcatAssociative
<1>9. ((cs \o rxBuf) \o read) \o rest = (cs \o rxBuf) \o (read \o rest)
  BY <1>7, ConcatAssociative
<1> QED
  BY <1>5, <1>6, <1>8, <1>9

\* A frame takes the noise before it out of the pipeline, and itself unless it is a command.
LEMMA ParseFramePipeline ==
    ASSUME BridgeTypes, BridgeTypes', Server!ParseFrame
    PROVE  \E b \in Nat : /\ Cut(Pipeline', Pipeline, Len(cmdQ), b)
                          /\ \A i \in Len(cmdQ) + 1..Len(cmdQ) + b : ~IsCommand(Pipeline[i])
<1> DEFINE at == Server!NextFrameAt
<1>1. at \in 1..Len(rxBuf) /\ rxBuf \in Seq(Server!Items) /\ rxBuf[at] \in Server!Items
  BY FirstFrame DEF Server!ParseFrame, BridgeTypes, BridgeTypeOK, Server!ServerTypeOK
<1>2. \A i \in 1..at - 1 : ~IsCommand(rxBuf[i])
  BY FirstFrame DEF Server!ParseFrame, Server!IsFrame, IsCommand
<1>3. rxBuf' = SubSeq(rxBuf, at + 1, Len(rxBuf)) /\ up' = up
  BY DEF Server!ParseFrame, Server!connection
<1> DEFINE item == rxBuf[at]
<1>4. /\ IsCommand(item) => cmdQ' = Append(cmdQ, item.number)
      /\ ~IsCommand(item) => cmdQ' = cmdQ
  BY DEF Server!ParseFrame, IsCommand
<1>5. IsCommand(item) => item.number \in 1..MaxCommands /\ item = Server!Command(item.number)
  BY <1>1 DEF IsCommand, Server!Items, Server!Other, Server!Noise, Server!Command
<1> DEFINE b == IF IsCommand(item) THEN at - 1 ELSE at
<1>6. /\ Len(cmdQ) \in Nat /\ Len(rxBuf) \in Nat /\ Len(up) \in Nat
      /\ at \in 1..Len(rxBuf)
      /\ (IsCommand(item) /\ b = at - 1) \/ (~IsCommand(item) /\ b = at)
  <2>1. Len(cmdQ) \in Nat /\ Len(rxBuf) \in Nat /\ Len(up) \in Nat
    BY PipelineNow
  <2>2. CASE IsCommand(item)
    BY <1>1, <2>1, <2>2
  <2>3. CASE ~IsCommand(item)
    BY <1>1, <2>1, <2>3
  <2> QED
    BY <2>2, <2>3
<1> HIDE DEF at, item, b
<1>7. b \in Nat /\ b <= Len(rxBuf)
  BY <1>6
<1>8. /\ Len(cmdQ') = IF IsCommand(item) THEN Len(cmdQ) + 1 ELSE Len(cmdQ)
      /\ \A i \in 1..Len(cmdQ) : cmdQ'[i] = cmdQ[i]
      /\ IsCommand(item) => cmdQ'[Len(cmdQ) + 1] = item.number
  <2>1. cmdQ \in Seq(1..MaxCommands)
    BY DEF BridgeTypes, BridgeTypeOK, TypeOK
  <2> QED
    BY <1>4, <1>5, <2>1, AppendProperties
<1>9. Len(rxBuf') = Len(rxBuf) - at /\ \A i \in 1..Len(rxBuf) - at : rxBuf'[i] = rxBuf[at + i]
  <2>1. at + 1 \in 1..Len(rxBuf) + 1 /\ Len(rxBuf) \in 0..Len(rxBuf)
    BY <1>6
  <2>2. /\ Len(rxBuf') = IF at + 1 <= Len(rxBuf) THEN Len(rxBuf) - (at + 1) + 1 ELSE 0
        /\ \A i \in 1..Len(rxBuf) - (at + 1) + 1 : rxBuf'[i] = rxBuf[(at + 1) + i - 1]
    BY <1>1, <1>3, <2>1, Piece
  <2> QED
    BY <1>6, <2>2
<1>10. ASSUME NEW i \in Len(cmdQ) + 1..Len(cmdQ) + b PROVE ~IsCommand(Pipeline[i])
  <2> DEFINE k == i - Len(cmdQ)
  <2>1. k \in 1..b /\ k \in 1..Len(rxBuf) /\ i = Len(cmdQ) + k
    BY <1>6, <1>7, <1>10
  <2>2. Pipeline[i] = rxBuf[k]
    BY <2>1, PipelineNow
  <2>3. k \in 1..at - 1 \/ (k = at /\ ~IsCommand(item))
    BY <1>6, <2>1
  <2> HIDE DEF k
  <2> QED
    BY <1>2, <2>2, <2>3 DEF item
<1>11. /\ Len(cmdQ') \in Nat /\ Len(rxBuf') \in Nat
       /\ Len(Pipeline') = Len(cmdQ') + Len(rxBuf') + Len(up)
       /\ Len(Pipeline) = Len(cmdQ) + Len(rxBuf) + Len(up)
       /\ Len(cmdQ') + Len(rxBuf') = Len(cmdQ) + Len(rxBuf) - b
  <2>1. /\ Len(Pipeline') = Len(cmdQ') + Len(rxBuf') + Len(up)
        /\ Len(Pipeline) = Len(cmdQ) + Len(rxBuf) + Len(up)
    BY <1>3, PipelineNow, PipelineNext
  <2> QED
    BY <1>6, <1>8, <1>9, <2>1
<1>12. ASSUME NEW i \in 1..Len(Pipeline')
       PROVE  Pipeline'[i] = Pipeline[IF i <= Len(cmdQ) THEN i ELSE i + b]
  <2>1. CASE i <= Len(cmdQ)
    <3>1. i \in 1..Len(cmdQ) /\ i \in 1..Len(cmdQ')
      BY <1>6, <1>8, <2>1
    <3>2. Pipeline'[i] = Server!Command(cmdQ'[i]) /\ Pipeline[i] = Server!Command(cmdQ[i])
      BY <3>1, PipelineNow, PipelineNext
    <3> QED
      BY <1>8, <2>1, <3>1, <3>2
  <2>2. CASE IsCommand(item) /\ i = Len(cmdQ) + 1
    <3>1. i \in 1..Len(cmdQ')
      BY <1>6, <1>8, <2>2
    <3>2. Pipeline'[i] = Server!Command(cmdQ'[i])
      BY <3>1, PipelineNext
    <3>3. Pipeline'[i] = item
      BY <1>5, <1>8, <2>2, <3>2
    <3>4. Pipeline[Len(cmdQ) + at] = item
      BY <1>1, PipelineNow DEF item
    <3>5. i + b = Len(cmdQ) + at /\ ~(i <= Len(cmdQ))
      BY <1>6, <2>2
    <3> QED
      BY <3>3, <3>4, <3>5
  <2>3. CASE i > Len(cmdQ') /\ i <= Len(cmdQ') + Len(rxBuf')
    <3> DEFINE k == i - Len(cmdQ')
    <3>1. k \in 1..Len(rxBuf') /\ k \in 1..Len(rxBuf) - at /\ at + k \in 1..Len(rxBuf)
      BY <1>6, <1>9, <1>11, <2>3
    <3>2. /\ Len(cmdQ') + k = i /\ Len(cmdQ) + (at + k) = i + b
          /\ ~(i <= Len(cmdQ))
      <4>1. /\ i \in Nat /\ Len(cmdQ) \in Nat /\ Len(cmdQ') \in Nat /\ at \in Nat
            /\ (Len(cmdQ') = Len(cmdQ) + 1 /\ b = at - 1) \/ (Len(cmdQ') = Len(cmdQ) /\ b = at)
        BY <1>6, <1>8, <1>11
      <4> QED
        BY <2>3, <4>1
    <3> HIDE DEF k
    <3>3. Pipeline'[Len(cmdQ') + k] = rxBuf'[k]
      BY <3>1, PipelineNext
    <3>4. rxBuf'[k] = rxBuf[at + k]
      BY <1>9, <3>1
    <3>5. Pipeline[Len(cmdQ) + (at + k)] = rxBuf[at + k]
      BY <3>1, PipelineNow
    <3> QED
      BY <3>2, <3>3, <3>4, <3>5
  <2>4. CASE i > Len(cmdQ') + Len(rxBuf')
    <3> DEFINE k == i - Len(cmdQ') - Len(rxBuf')
    <3>1. k \in 1..Len(up)
      BY <1>6, <1>11, <2>4
    <3>2. Len(cmdQ') + Len(rxBuf') + k = i /\ Len(cmdQ) + Len(rxBuf) + k = i + b
      BY <1>6, <1>11, <2>4
    <3>3. ~(i <= Len(cmdQ))
      BY <1>6, <1>8, <1>11, <2>4
    <3> HIDE DEF k
    <3>4. Pipeline'[Len(cmdQ') + Len(rxBuf') + k] = up'[k]
      BY <1>3, <3>1, PipelineNext
    <3>5. Pipeline[Len(cmdQ) + Len(rxBuf) + k] = up[k]
      BY <3>1, PipelineNow
    <3> QED
      BY <1>3, <3>2, <3>3, <3>4, <3>5
  <2>5. i <= Len(cmdQ') => i <= Len(cmdQ) \/ (IsCommand(item) /\ i = Len(cmdQ) + 1)
    BY <1>6, <1>8
  <2>6. i \in Nat /\ Len(cmdQ') \in Nat /\ Len(rxBuf') \in Nat
    BY <1>11
  <2> QED
    BY <2>1, <2>2, <2>3, <2>4, <2>5, <2>6
<1>13. Cut(Pipeline', Pipeline, Len(cmdQ), b)
  <2>1. Len(Pipeline') = Len(Pipeline) - b /\ Len(cmdQ) + b <= Len(Pipeline)
    BY <1>6, <1>7, <1>11
  <2> QED
    BY <1>6, <1>7, <1>12, <2>1 DEF Cut
<1> QED
  BY <1>7, <1>10, <1>13
\* A connection that ends takes what the server has not parsed with it.
LEMMA DisconnectPipeline ==
    ASSUME BridgeTypes, BridgeTypes', Server!Disconnect
    PROVE  /\ Cut(Pipeline', Pipeline, Len(cmdQ), Len(rxBuf) + Len(up))
           /\ Len(rxBuf) + Len(up) \in Nat
<1>1. cmdQ' = cmdQ /\ rxBuf' = <<>> /\ up' = <<>>
  BY DEF Server!Disconnect
<1>2. Len(rxBuf') = 0 /\ Len(up') = 0 /\ Len(cmdQ') = Len(cmdQ)
  BY <1>1
<1>3. Len(cmdQ) \in Nat /\ Len(rxBuf) \in Nat /\ Len(up) \in Nat
  BY PipelineNow
<1>4. Len(Pipeline') = Len(cmdQ) /\ Len(Pipeline) = Len(cmdQ) + Len(rxBuf) + Len(up)
  <2>1. Len(Pipeline') = Len(cmdQ') + Len(rxBuf') + Len(up')
    BY PipelineNext
  <2>2. Len(Pipeline) = Len(cmdQ) + Len(rxBuf) + Len(up)
    BY PipelineNow
  <2> QED
    BY <1>2, <1>3, <2>1, <2>2
<1>5. ASSUME NEW i \in 1..Len(cmdQ) PROVE Pipeline'[i] = Pipeline[i]
  <2>1. Pipeline'[i] = Server!Command(cmdQ'[i])
    BY <1>2, PipelineNext
  <2>2. Pipeline[i] = Server!Command(cmdQ[i])
    BY PipelineNow
  <2> QED
    BY <1>1, <2>1, <2>2
<1> QED
  BY <1>3, <1>4, <1>5 DEF Cut

LEMMA TakeCommandPipeline ==
    ASSUME BridgeTypes, BridgeTypes', TakeCommand, UNCHANGED <<rxBuf, up>>
    PROVE  /\ Cut(Pipeline', Pipeline, 0, 1)
           /\ Len(Pipeline) > 0 /\ Pipeline[1] = Server!Command(lastCmd')
<1>1. cmdQ \in Seq(1..MaxCommands)
  BY DEF BridgeTypes, BridgeTypeOK, TypeOK
<1>2. cmdQ # <<>> /\ lastCmd' = Head(cmdQ) /\ cmdQ' = Tail(cmdQ)
  BY DEF TakeCommand
<1>3. /\ Len(cmdQ) \in Nat /\ Len(cmdQ) > 0 /\ lastCmd' = cmdQ[1] /\ Len(cmdQ') = Len(cmdQ) - 1
      /\ \A i \in 1..Len(cmdQ') : cmdQ'[i] = cmdQ[i + 1]
  BY <1>1, <1>2
<1>4. Len(rxBuf') = Len(rxBuf) /\ Len(up') = Len(up)
  OBVIOUS
<1>5. /\ Len(rxBuf) \in Nat /\ Len(up) \in Nat /\ Len(Pipeline) \in Nat
      /\ Len(Pipeline) = Len(cmdQ) + Len(rxBuf) + Len(up)
  BY PipelineNow
<1>6. Len(Pipeline') = Len(cmdQ') + Len(rxBuf') + Len(up')
  BY PipelineNext
<1>7. Len(Pipeline') = Len(Pipeline) - 1 /\ Len(Pipeline) > 0
  BY <1>3, <1>4, <1>5, <1>6
<1>8. Pipeline[1] = Server!Command(cmdQ[1])
  BY <1>3, PipelineNow
<1>9. ASSUME NEW i \in 1..Len(Pipeline') PROVE Pipeline'[i] = Pipeline[i + 1]
  <2>1. CASE i \in 1..Len(cmdQ')
    <3>1. i + 1 \in 1..Len(cmdQ)
      BY <1>3, <2>1
    <3>2. Pipeline'[i] = Server!Command(cmdQ'[i])
      BY <2>1, PipelineNext
    <3>3. Pipeline[i + 1] = Server!Command(cmdQ[i + 1])
      BY <3>1, PipelineNow
    <3> QED
      BY <1>3, <2>1, <3>2, <3>3
  <2>2. CASE i \in Len(cmdQ') + 1..Len(cmdQ') + Len(rxBuf)
    <3> DEFINE k == i - Len(cmdQ')
    <3>1. k \in 1..Len(rxBuf) /\ Len(cmdQ') + k = i /\ Len(cmdQ) + k = i + 1
      BY <1>3, <1>5, <2>2
    <3> HIDE DEF k
    <3>2. Pipeline'[Len(cmdQ') + k] = rxBuf'[k]
      BY <1>4, <3>1, PipelineNext
    <3>3. Pipeline[Len(cmdQ) + k] = rxBuf[k]
      BY <3>1, PipelineNow
    <3> QED
      BY <3>1, <3>2, <3>3
  <2>3. CASE i \in Len(cmdQ') + Len(rxBuf) + 1..Len(cmdQ') + Len(rxBuf) + Len(up)
    <3> DEFINE k == i - Len(cmdQ') - Len(rxBuf)
    <3>1. /\ k \in 1..Len(up) /\ Len(cmdQ') + Len(rxBuf) + k = i
          /\ Len(cmdQ) + Len(rxBuf) + k = i + 1
      BY <1>3, <1>5, <2>3
    <3> HIDE DEF k
    <3>2. Pipeline'[Len(cmdQ') + Len(rxBuf') + k] = up'[k]
      BY <1>4, <3>1, PipelineNext
    <3>3. Pipeline[Len(cmdQ) + Len(rxBuf) + k] = up[k]
      BY <3>1, PipelineNow
    <3> QED
      BY <1>4, <3>1, <3>2, <3>3
  <2> QED
    BY <1>3, <1>4, <1>5, <1>6, <2>1, <2>2, <2>3
<1> QED
  BY <1>3, <1>5, <1>7, <1>8, <1>9 DEF Cut

LEMMA SendPipeline ==
    ASSUME BridgeTypes, NEW item \in Server!Items, up' = Append(up, item),
           UNCHANGED <<cmdQ, rxBuf>>
    PROVE  Pipeline' = Append(Pipeline, item)
<1> DEFINE cs == [i \in 1..Len(cmdQ) |-> Server!Command(cmdQ[i])]
<1>1. /\ rxBuf \in Seq(Server!Items) /\ up \in Seq(Server!Items)
      /\ cmdQ \in Seq(1..MaxCommands)
  BY DEF BridgeTypes, BridgeTypeOK, TypeOK, Server!ServerTypeOK
<1>2. cs \in Seq(Server!Items)
  BY <1>1, InChannel
<1>3. Pipeline' = (cs \o rxBuf) \o up' /\ Pipeline = (cs \o rxBuf) \o up
  BY DEF Pipeline
<1> HIDE DEF cs
<1>4. cs \o rxBuf \in Seq(Server!Items) /\ <<item>> \in Seq(Server!Items)
  BY <1>1, <1>2, ConcatProperties
<1>5. up' = up \o <<item>>
  BY <1>1, AppendIsConcat
<1>6. ((cs \o rxBuf) \o up) \o <<item>> = (cs \o rxBuf) \o (up \o <<item>>)
  BY <1>1, <1>4, ConcatAssociative
<1>7. Pipeline' = Pipeline \o <<item>>
  BY <1>3, <1>5, <1>6
<1> QED
  BY <1>7, PipelineNow, AppendIsConcat

LEMMA ItemNumbers ==
    ASSUME NEW item \in Server!Items
    PROVE  item.number \in Nat /\ (IsCommand(item) => item = Server!Command(item.number))
BY CounterAssumption DEF Server!Items, Server!Command, Server!Other, Server!Noise, IsCommand

LEMMA AppendCommands ==
    ASSUME NEW s \in Seq(Server!Items), NEW item \in Server!Items, NEW low \in Nat,
           NEW high \in Nat, NEW new \in Nat,
           CommandsOrdered(s, low, high), low <= high, high <= new,
           IsCommand(item) => high < item.number /\ item.number <= new
    PROVE  CommandsOrdered(Append(s, item), low, new)
<1> DEFINE t == Append(s, item)
<1>1. /\ Len(s) \in Nat /\ item.number \in Nat
      /\ \A i \in 1..Len(s) : s[i].number \in Nat
  BY ItemNumbers
<1>2. /\ Len(t) = Len(s) + 1 /\ t[Len(s) + 1] = item
      /\ \A i \in 1..Len(s) : t[i] = s[i]
  BY AppendProperties
<1> HIDE DEF t
<1> SUFFICES ASSUME NEW i \in 1..Len(t), IsCommand(t[i])
             PROVE  /\ low < t[i].number /\ t[i].number <= new
                    /\ \A j \in 1..i - 1 : IsCommand(t[j]) => t[j].number < t[i].number
  BY DEF CommandsOrdered, t
<1>3. CASE i <= Len(s)
  <2>1. i \in 1..Len(s) /\ \A j \in 1..i - 1 : j \in 1..Len(s)
    BY <1>1, <1>3
  <2>2. t[i] = s[i] /\ \A j \in 1..i - 1 : t[j] = s[j]
    BY <1>2, <2>1
  <2>3. /\ low < s[i].number /\ s[i].number <= high
        /\ \A j \in 1..i - 1 : IsCommand(s[j]) => s[j].number < s[i].number
    BY <2>1, <2>2 DEF CommandsOrdered
  <2>4. s[i].number <= new
    BY <1>1, <2>1, <2>3
  <2> QED
    BY <2>2, <2>3, <2>4
<1>4. CASE i = Len(s) + 1
  <2>1. t[i] = item
    BY <1>2, <1>4
  <2>2. high < item.number /\ item.number <= new /\ low < item.number
    BY <1>1, <2>1
  <2>3. ASSUME NEW j \in 1..i - 1, IsCommand(t[j]) PROVE t[j].number < item.number
    <3>1. j \in 1..Len(s) /\ t[j] = s[j]
      BY <1>1, <1>2, <1>4
    <3>2. s[j].number <= high
      BY <2>3, <3>1 DEF CommandsOrdered
    <3> QED
      BY <1>1, <2>2, <3>1, <3>2
  <2> QED
    BY <2>1, <2>2, <2>3
<1> QED
  BY <1>1, <1>2, <1>3, <1>4

\* What follows the first command follows last_cmd once it is taken.
LEMMA FirstCommand ==
    ASSUME NEW s, NEW t, NEW low, NEW high, Len(s) \in Nat, Len(t) \in Nat,
           Cut(t, s, 0, 1), IsCommand(s[1]), CommandsOrdered(s, low, high)
    PROVE  CommandsOrdered(t, s[1].number, high)
<1>1. CommandsOrdered(t, low, high)
  BY CutCommands
<1>2. ASSUME NEW i \in 1..Len(t), IsCommand(t[i]) PROVE s[1].number < t[i].number
  <2>1. t[i] = s[i + 1] /\ i + 1 \in 1..Len(s) /\ 1 \in 1..(i + 1) - 1
    BY DEF Cut
  <2>2. s[1].number < s[i + 1].number
    BY <1>2, <2>1 DEF CommandsOrdered
  <2> QED
    BY <2>1, <2>2
<1> QED
  BY <1>1, <1>2 DEF CommandsOrdered

\* The loop's part: it takes the first command, or moves the simulator on to last_cmd.
LEMMA LoopCommands ==
    ASSUME LoopStep \/ TimerStep \/ SgStep
    PROVE  /\ UNCHANGED <<phase, rxBuf, up, firstCmd, sent>>
           /\ \/ TakeCommand /\ UNCHANGED applied
              \/ UNCHANGED <<cmdQ, lastCmd>> /\ (applied' = applied \/ applied' = lastCmd)
<1>1. UNCHANGED <<phase, rxBuf, up, firstCmd>>
  BY DEF LoopStep, TimerStep, SgStep, serverVars
<1>2. CASE TickSg \/ TickFallback
  BY <1>1, <1>2 DEF TickSg, TickFallback, Tick, Apply, command
<1>3. CASE TakeCommand
  BY <1>1, <1>3 DEF TakeCommand
<1>4. CASE \/ NoTick \/ NoCommand \/ TakeStartOfFrame \/ TakeSensorResponse \/ NoResponse
           \/ TimerFires \/ SgResponds \/ HostSends
  BY <1>1, <1>4 DEF NoTick, NoCommand, TakeStartOfFrame, TakeSensorResponse, NoResponse,
                    TimerFires, SgResponds, HostSends, command
<1> QED
  BY <1>2, <1>3, <1>4 DEF LoopStep, TimerStep, SgStep, LoopNext

\* The other end's: a new item at the end of the pipeline, or a cut, in which commands are
\* lost only with their connection.
LEMMA ServerCommands ==
    ASSUME BridgeTypes, BridgeTypes', ServerStep \/ ControllerStep,
           ~Server!Connected => rxBuf = <<>> /\ up = <<>>
    PROVE  /\ UNCHANGED <<lastCmd, applied>>
           /\ ~Server!Connected' => rxBuf' = <<>> /\ up' = <<>>
           /\ \/ \E item \in Server!Items :
                    /\ Pipeline' = Append(Pipeline, item)
                    /\ Server!Connected /\ UNCHANGED firstCmd
                    /\ \/ item = Server!Command(sent + 1) /\ sent' = sent + 1
                       \/ ~IsCommand(item) /\ UNCHANGED sent
              \/ \E a, b \in Nat :
                    /\ Cut(Pipeline', Pipeline, a, b) /\ UNCHANGED sent
                    /\ \/ ~Server!Connected' \/ firstCmd' = sent + 1
                       \/ /\ Server!Connected /\ UNCHANGED firstCmd
                          /\ \A i \in a + 1..a + b : ~IsCommand(Pipeline[i])
<1> DEFINE Appended == \E item \in Server!Items :
                          /\ Pipeline' = Append(Pipeline, item)
                          /\ Server!Connected /\ UNCHANGED firstCmd
                          /\ \/ item = Server!Command(sent + 1) /\ sent' = sent + 1
                             \/ ~IsCommand(item) /\ UNCHANGED sent
           WasCut(a, b) == /\ Cut(Pipeline', Pipeline, a, b) /\ UNCHANGED sent
                           /\ \/ ~Server!Connected' \/ firstCmd' = sent + 1
                              \/ /\ Server!Connected /\ UNCHANGED firstCmd
                                 /\ \A i \in a + 1..a + b : ~IsCommand(Pipeline[i])
           Emptied == ~Server!Connected' => rxBuf' = <<>> /\ up' = <<>>
<1>1. UNCHANGED <<lastCmd, applied>>
  BY DEF ServerStep, ControllerStep, loopVars
<1>2. 0 \in Nat /\ \A i \in 0 + 1..0 + 0 : FALSE
  OBVIOUS
<1>3. ASSUME Pipeline' = Pipeline PROVE Cut(Pipeline', Pipeline, 0, 0)
  BY <1>3, PipelineNow DEF Cut
<1>4. ASSUME UNCHANGED <<cmdQ, rxBuf, up>> PROVE Pipeline' = Pipeline
  BY <1>4 DEF Pipeline
<1>5. CASE \/ Server!ParseEnds \/ Server!TakeTelemetry \/ Server!WriteTelemetry
           \/ Server!ReadTelemetry \/ Server!HangUp
  <2>1. UNCHANGED <<cmdQ, rxBuf, up, sent, firstCmd>> /\ Server!Connected /\ Server!Connected'
    BY <1>5 DEF Server!ParseEnds, Server!TakeTelemetry, Server!WriteTelemetry,
                Server!ReadTelemetry, Server!HangUp, Server!connection, Server!Connected
  <2>2. WasCut(0, 0)
    BY <1>2, <1>3, <1>4, <2>1
  <2> QED
    BY <1>1, <1>2, <2>1, <2>2
<1>6. CASE Server!Connect
  <2>1. UNCHANGED <<cmdQ, rxBuf, up, sent, firstCmd, phase>>
    BY <1>6 DEF Server!Connect, Server!connection
  <2>2. Emptied
    BY <2>1 DEF Server!Connected
  <2>3. WasCut(0, 0)
    BY <1>2, <1>3, <1>4, <2>1 DEF Server!Connected
  <2> QED
    BY <1>1, <1>2, <2>2, <2>3
<1>7. CASE Server!Accept
  <2>1. UNCHANGED <<cmdQ, rxBuf, up, sent>> /\ firstCmd' = sent + 1 /\ Server!Connected'
    BY <1>7 DEF Server!Accept, Server!Connected
  <2>2. WasCut(0, 0)
    BY <1>3, <1>4, <2>1
  <2> QED
    BY <1>1, <1>2, <2>1, <2>2
<1>8. CASE Server!Receive
  <2>1. UNCHANGED <<sent, firstCmd>> /\ Server!Connected /\ Server!Connected'
    BY <1>8 DEF Server!Receive, Server!Connected
  <2>2. WasCut(0, 0)
    BY <1>2, <1>3, <1>8, <2>1, ReceivePipeline
  <2> QED
    BY <1>1, <1>2, <2>1, <2>2
<1>9. CASE Server!ParseFrame
  <2>1. UNCHANGED <<sent, firstCmd>> /\ Server!Connected /\ Server!Connected'
    BY <1>9 DEF Server!ParseFrame, Server!connection, Server!Connected
  <2>2. Len(cmdQ) \in Nat
    BY PipelineNow
  <2>3. \E b \in Nat : WasCut(Len(cmdQ), b)
    BY <1>9, <2>1, ParseFramePipeline
  <2> QED
    BY <1>1, <2>1, <2>2, <2>3
<1>10. CASE Server!Disconnect
  <2>1. UNCHANGED <<sent, firstCmd>> /\ ~Server!Connected' /\ rxBuf' = <<>> /\ up' = <<>>
    BY <1>10 DEF Server!Disconnect, Server!Connected
  <2>2. Len(cmdQ) \in Nat /\ Len(rxBuf) + Len(up) \in Nat
    BY PipelineNow
  <2>3. WasCut(Len(cmdQ), Len(rxBuf) + Len(up))
    BY <1>10, <2>1, DisconnectPipeline
  <2> QED
    BY <1>1, <2>1, <2>2, <2>3
<1>11. CASE Server!SendCommand
  <2>1. /\ UNCHANGED <<cmdQ, rxBuf, firstCmd>> /\ Server!Connected /\ Server!Connected'
        /\ sent' = sent + 1 /\ up' = Append(up, Server!Command(sent + 1))
    BY <1>11 DEF Server!SendCommand, Server!Connected
  <2>2. Server!Command(sent + 1) \in Server!Items
    <3>1. sent + 1 \in 1..MaxCommands
      BY <1>11, CounterAssumption DEF Server!SendCommand, BridgeTypes, BridgeTypeOK, TypeOK
    <3> QED
      BY <3>1 DEF Server!Items
  <2>3. Pipeline' = Append(Pipeline, Server!Command(sent + 1))
    BY <2>1, <2>2, SendPipeline
  <2>4. Appended
    BY <2>1, <2>2, <2>3
  <2> QED
    BY <1>1, <2>1, <2>4
<1>12. CASE Server!SendJunk
  <2>1. /\ UNCHANGED <<cmdQ, rxBuf, firstCmd, sent>> /\ Server!Connected /\ Server!Connected'
    BY <1>12 DEF Server!SendJunk, Server!Connected
  <2>2. PICK item \in {Server!Other, Server!Noise} : up' = Append(up, item)
    BY <1>12 DEF Server!SendJunk
  <2>3. item \in Server!Items /\ ~IsCommand(item)
    BY DEF Server!Items, Server!Other, Server!Noise, IsCommand
  <2>4. Pipeline' = Append(Pipeline, item)
    BY <2>1, <2>2, <2>3, SendPipeline
  <2>5. Appended
    BY <2>1, <2>3, <2>4
  <2> QED
    BY <1>1, <2>1, <2>5
<1> QED
  BY <1>5, <1>6, <1>7, <1>8, <1>9, <1>10, <1>11, <1>12
     DEF ServerStep, ControllerStep, Server!ServerNext, Server!ControllerNext,
         Server!Overflow, Server!ReadEnds, Server!WriteFails

LEMMA CommandNumbers ==
    BridgeTypes => /\ lastCmd \in Nat /\ applied \in Nat /\ sent \in Nat /\ firstCmd \in Nat
                   /\ Pipeline \in Seq(Server!Items) /\ Len(Pipeline) \in Nat
BY PipelineNow, CounterAssumption
   DEF BridgeTypes, BridgeTypeOK, TypeOK, Server!ServerTypeOK

LEMMA CommandOrderStep ==
    ASSUME BridgeTypes, BridgeTypes', CommandOrder, [BridgeNext]_bridgeVars
    PROVE  CommandOrder'
<1>1. /\ lastCmd \in Nat /\ applied \in Nat /\ sent \in Nat
      /\ Pipeline \in Seq(Server!Items) /\ Len(Pipeline) \in Nat
  BY CommandNumbers
<1>2. Len(Pipeline') \in Nat
  BY PipelineNext
<1>3. /\ applied <= lastCmd /\ lastCmd <= sent
      /\ CommandsOrdered(Pipeline, lastCmd, sent)
      /\ ~Server!Connected => rxBuf = <<>> /\ up = <<>>
  BY DEF CommandOrder
<1>4. ASSUME UNCHANGED <<cmdQ, rxBuf, up, phase, sent, lastCmd>>,
             applied' = applied \/ applied' = lastCmd
      PROVE  CommandOrder'
  <2>1. Pipeline' = Pipeline
    BY <1>4 DEF Pipeline
  <2>2. CommandsOrdered(Pipeline, lastCmd, sent)'
    BY <1>3, <1>4, <2>1 DEF CommandsOrdered
  <2> QED
    BY <1>1, <1>3, <1>4, <2>2 DEF CommandOrder, Server!Connected
<1>5. CASE LoopStep \/ TimerStep \/ SgStep
  <2>1. UNCHANGED <<phase, rxBuf, up, sent>>
    BY <1>5, LoopCommands
  <2>2. CASE TakeCommand /\ UNCHANGED applied
    <3>1. /\ Cut(Pipeline', Pipeline, 0, 1)
          /\ Len(Pipeline) > 0 /\ Pipeline[1] = Server!Command(lastCmd')
      BY <2>1, <2>2, TakeCommandPipeline
    <3>2. IsCommand(Pipeline[1]) /\ Pipeline[1].number = lastCmd'
      BY <3>1 DEF IsCommand, Server!Command
    <3>3. CommandsOrdered(Pipeline', lastCmd', sent')
      <4>1. CommandsOrdered(Pipeline', Pipeline[1].number, sent)
        BY <1>1, <1>2, <1>3, <3>1, <3>2, FirstCommand
      <4> QED
        BY <2>1, <3>2, <4>1
    <3>4. lastCmd < lastCmd' /\ lastCmd' <= sent
      <4>1. 1 \in 1..Len(Pipeline)
        BY <1>1, <3>1
      <4> QED
        BY <1>3, <3>2, <4>1 DEF CommandsOrdered
    <3>5. lastCmd' \in Nat
      BY CounterAssumption DEF BridgeTypes, BridgeTypeOK, TypeOK
    <3>6. applied' <= lastCmd' /\ lastCmd' <= sent'
      BY <1>1, <1>3, <2>1, <2>2, <3>4, <3>5
    <3>7. ~Server!Connected' => rxBuf' = <<>> /\ up' = <<>>
      BY <1>3, <2>1 DEF Server!Connected
    <3> QED
      BY <3>3, <3>6, <3>7 DEF CommandOrder
  <2> QED
    BY <1>4, <1>5, <2>1, <2>2, LoopCommands
<1>6. CASE ServerStep \/ ControllerStep
  <2>1. UNCHANGED <<lastCmd, applied>> /\ (~Server!Connected' => rxBuf' = <<>> /\ up' = <<>>)
    BY <1>3, <1>6, ServerCommands
  <2>2. ASSUME NEW item \in Server!Items, Pipeline' = Append(Pipeline, item),
               \/ item = Server!Command(sent + 1) /\ sent' = sent + 1
               \/ ~IsCommand(item) /\ UNCHANGED sent
        PROVE  CommandOrder'
    <3>1. sent' \in Nat /\ sent <= sent' /\ (IsCommand(item) => sent < item.number)
      BY <1>1, <2>2 DEF Server!Command
    <3>2. IsCommand(item) => item.number <= sent'
      BY <1>1, <2>2 DEF Server!Command
    <3>3. CommandsOrdered(Append(Pipeline, item), lastCmd, sent')
      BY <1>1, <1>3, <3>1, <3>2, AppendCommands
    <3>4. applied' <= lastCmd' /\ lastCmd' <= sent'
      BY <1>1, <1>3, <2>1, <3>1
    <3> QED
      BY <2>1, <2>2, <3>3, <3>4 DEF CommandOrder
  <2>3. ASSUME NEW a, NEW b, Cut(Pipeline', Pipeline, a, b), UNCHANGED sent
        PROVE  CommandOrder'
    <3>1. CommandsOrdered(Pipeline', lastCmd, sent)
      BY <1>1, <1>2, <1>3, <2>3, CutCommands
    <3> QED
      BY <1>3, <2>1, <2>3, <3>1 DEF CommandOrder
  <2> QED
    BY <1>3, <1>6, <2>2, <2>3, ServerCommands
<1>7. CASE UNCHANGED bridgeVars
  BY <1>4, <1>7 DEF bridgeVars, vars, serverVars, command
<1> QED
  BY <1>5, <1>6, <1>7 DEF BridgeNext

LEMMA NothingLostStep ==
    ASSUME BridgeTypes, BridgeTypes', CommandOrder, NothingLost, [BridgeNext]_bridgeVars
    PROVE  NothingLost'
<1>1. /\ lastCmd \in Nat /\ sent \in Nat /\ firstCmd \in Nat
      /\ Pipeline \in Seq(Server!Items) /\ Len(Pipeline) \in Nat
  BY CommandNumbers
<1>2. Len(Pipeline') \in Nat /\ lastCmd' \in Nat /\ firstCmd' \in Nat /\ sent' \in Nat
  BY PipelineNext, CounterAssumption DEF BridgeTypes, BridgeTypeOK, TypeOK, Server!ServerTypeOK
<1> DEFINE On(c) == \E i \in 1..Len(Pipeline) : Pipeline[i] = Server!Command(c)
<1>3. ASSUME Server!Connected PROVE \A c \in firstCmd..sent : c <= lastCmd \/ On(c)
  BY <1>3 DEF NothingLost
<1>4. CASE UNCHANGED <<cmdQ, rxBuf, up, phase, firstCmd, sent, lastCmd>>
  <2>1. Pipeline' = Pipeline
    BY <1>4 DEF Pipeline
  <2> QED
    BY <1>4, <2>1 DEF NothingLost, Server!Connected
<1> HIDE DEF On
<1>5. CASE LoopStep \/ TimerStep \/ SgStep
  <2>1. UNCHANGED <<phase, rxBuf, up, firstCmd, sent>>
    BY <1>5, LoopCommands
  <2>2. CASE TakeCommand
    <3> SUFFICES ASSUME Server!Connected', NEW c \in firstCmd'..sent', ~(c <= lastCmd')
                 PROVE  \E i \in 1..Len(Pipeline') : Pipeline'[i] = Server!Command(c)
      BY DEF NothingLost
    <3>1. /\ Cut(Pipeline', Pipeline, 0, 1)
          /\ Len(Pipeline) > 0 /\ Pipeline[1] = Server!Command(lastCmd')
      BY <2>1, <2>2, TakeCommandPipeline
    <3>2. lastCmd < lastCmd'
      <4>1. 1 \in 1..Len(Pipeline) /\ IsCommand(Pipeline[1]) /\ Pipeline[1].number = lastCmd'
        BY <1>1, <3>1 DEF IsCommand, Server!Command
      <4> QED
        BY <4>1 DEF CommandOrder, CommandsOrdered
    <3>3. c \in firstCmd..sent /\ ~(c <= lastCmd) /\ Server!Connected
      BY <1>1, <1>2, <2>1, <3>2 DEF Server!Connected
    <3>4. On(c)
      BY <1>3, <3>3
    <3>5. PICK i \in 1..Len(Pipeline) : Pipeline[i] = Server!Command(c)
      BY <3>4 DEF On
    <3>6. i # 1
      BY <1>2, <3>1, <3>5 DEF Server!Command
    <3>7. i \notin 0 + 1..0 + 1
      BY <3>6
    <3>8. \E k \in 1..Len(Pipeline') : Pipeline'[k] = Pipeline[i]
      BY <1>1, <1>2, <3>1, <3>7, CutKeeps
    <3> QED
      BY <3>5, <3>8
  <2> QED
    BY <1>4, <1>5, <2>1, <2>2, LoopCommands
<1>6. CASE ServerStep \/ ControllerStep
  <2>1. UNCHANGED lastCmd
    BY <1>6 DEF ServerStep, ControllerStep, loopVars
  <2>2. ASSUME NEW item \in Server!Items, Pipeline' = Append(Pipeline, item),
               Server!Connected, UNCHANGED firstCmd,
               \/ item = Server!Command(sent + 1) /\ sent' = sent + 1
               \/ ~IsCommand(item) /\ UNCHANGED sent
        PROVE  NothingLost'
    <3> SUFFICES ASSUME NEW c \in firstCmd'..sent', ~(c <= lastCmd')
                 PROVE  \E i \in 1..Len(Pipeline') : Pipeline'[i] = Server!Command(c)
      BY DEF NothingLost
    <3>1. /\ Len(Pipeline') = Len(Pipeline) + 1 /\ Pipeline'[Len(Pipeline) + 1] = item
          /\ \A i \in 1..Len(Pipeline) : Pipeline'[i] = Pipeline[i]
      BY <1>1, <2>2, AppendProperties
    <3>2. CASE c <= sent
      <4>1. c \in firstCmd..sent /\ ~(c <= lastCmd)
        BY <1>1, <1>2, <2>1, <2>2, <3>2
      <4>2. PICK i \in 1..Len(Pipeline) : Pipeline[i] = Server!Command(c)
        BY <1>3, <2>2, <4>1 DEF On
      <4>3. i \in 1..Len(Pipeline') /\ Pipeline'[i] = Server!Command(c)
        BY <1>1, <3>1, <4>2
      <4> QED
        BY <4>3
    <3>3. CASE c > sent
      <4>1. sent' = sent + 1 /\ item = Server!Command(sent + 1)
        BY <1>1, <1>2, <2>2, <3>3
      <4>2. c = sent + 1
        BY <1>1, <1>2, <3>3, <4>1
      <4>3. Len(Pipeline) + 1 \in 1..Len(Pipeline')
        BY <1>1, <3>1
      <4> QED
        BY <3>1, <4>1, <4>2, <4>3
    <3> QED
      BY <1>1, <1>2, <3>2, <3>3
  <2>3. ASSUME NEW a, NEW b, Cut(Pipeline', Pipeline, a, b), UNCHANGED sent,
               ~Server!Connected' \/ firstCmd' = sent + 1
        PROVE  NothingLost'
    BY <1>1, <1>2, <2>3 DEF NothingLost
  <2>4. ASSUME NEW a, NEW b, Cut(Pipeline', Pipeline, a, b), UNCHANGED <<sent, firstCmd>>,
               Server!Connected, \A i \in a + 1..a + b : ~IsCommand(Pipeline[i])
        PROVE  NothingLost'
    <3> SUFFICES ASSUME NEW c \in firstCmd'..sent', ~(c <= lastCmd')
                 PROVE  \E i \in 1..Len(Pipeline') : Pipeline'[i] = Server!Command(c)
      BY DEF NothingLost
    <3>1. On(c)
      BY <1>3, <2>1, <2>4
    <3>2. PICK i \in 1..Len(Pipeline) : Pipeline[i] = Server!Command(c)
      BY <3>1 DEF On
    <3>3. IsCommand(Pipeline[i])
      BY <3>2 DEF IsCommand, Server!Command
    <3>4. i \notin a + 1..a + b
      BY <2>4, <3>3
    <3>5. \E k \in 1..Len(Pipeline') : Pipeline'[k] = Pipeline[i]
      BY <1>1, <1>2, <2>4, <3>4, CutKeeps
    <3> QED
      BY <3>2, <3>5
  <2>5. ~Server!Connected => rxBuf = <<>> /\ up = <<>>
    BY DEF CommandOrder
  <2> QED
    BY <1>6, <2>2, <2>3, <2>4, <2>5, ServerCommands
<1>7. CASE UNCHANGED bridgeVars
  BY <1>4, <1>7 DEF bridgeVars, vars, serverVars, command, Server!connection
<1> QED
  BY <1>5, <1>6, <1>7 DEF BridgeNext

LEMMA BridgeInvInit == BridgeInit => BridgeInv
<1> SUFFICES ASSUME BridgeInit PROVE BridgeInv
  OBVIOUS
<1>1. BridgeTypes
  BY BridgeInitType
<1>2. /\ cmdQ = <<>> /\ rxBuf = <<>> /\ up = <<>> /\ sent = 0 /\ lastCmd = 0 /\ applied = 0
      /\ down = <<>> /\ held = <<>> /\ telemQ = <<>> /\ seen = 0 /\ telemSeq = 0
      /\ ~Server!Connected
  BY DEF BridgeInit, Init, Server!ServerInit, Server!Connected
<1>3. Len(Way) = 0 /\ Len(Pipeline) = 0
  <2>1. Len(<<>>) = 0
    OBVIOUS
  <2>2. Len(Way) = Len(down) + Len(held) + Len(telemQ)
    BY <1>1, WayNow
  <2>3. Len(Pipeline) = Len(cmdQ) + Len(rxBuf) + Len(up)
    BY <1>1, PipelineNow
  <2> QED
    BY <1>2, <2>1, <2>2, <2>3
<1>4. TelemetryOrder
  BY <1>2, <1>3 DEF TelemetryOrder, PacketsOrdered
<1>5. CommandOrder
  BY <1>2, <1>3 DEF CommandOrder, CommandsOrdered
<1>6. NothingLost
  BY <1>2 DEF NothingLost
<1> QED
  BY <1>1, <1>4, <1>5, <1>6 DEF BridgeInv

LEMMA BridgeInvStep == ASSUME BridgeInv, [BridgeNext]_bridgeVars PROVE BridgeInv'
<1>1. BridgeTypes'
  BY BridgeStepType DEF BridgeInv
<1>2. TelemetryOrder'
  BY <1>1, TelemetryStep DEF BridgeInv
<1>3. CommandOrder'
  BY <1>1, CommandOrderStep DEF BridgeInv
<1>4. NothingLost'
  BY <1>1, NothingLostStep DEF BridgeInv
<1> QED
  BY <1>1, <1>2, <1>3, <1>4 DEF BridgeInv

LEMMA BridgeInvHolds == BridgeSpec => []BridgeInv
BY BridgeInvInit, BridgeInvStep, PTL DEF BridgeSpec

(***************************************************************************)
(* From the socket to last_cmd no command is overtaken, doubled or, while  *)
(* its connection lasts, lost, whatever the sizes of socket, buffer and    *)
(* channel and however connections begin and end (server.rs:68-104,        *)
(* main.rs:250-252).                                                       *)
(***************************************************************************)
THEOREM CommandsAreInOrder == BridgeSpec => []CommandsInTransit
<1>1. BridgeInv => CommandsInTransit
  BY DEF BridgeInv, CommandOrder, CommandsOrdered, NothingLost, CommandsInTransit
<1> QED
  BY <1>1, BridgeInvHolds, PTL

-------------------------------------------------------------------------------
(***************************************************************************)
(* The promise.                                                            *)
(***************************************************************************)
LEMMA PromiseInit == BridgeInit => Promise!Init
BY DEF BridgeInit, Init, Server!ServerInit, Promise!Init

\* The loop may follow a newer command and may offer a packet.
LEMMA PromiseLoop ==
    ASSUME BridgeInv, LoopStep \/ TimerStep \/ SgStep
    PROVE  Promise!Serve
<1>1. /\ lastCmd \in Nat /\ applied \in Nat /\ sent \in Nat
      /\ applied <= lastCmd /\ lastCmd <= sent
  BY CommandNumbers DEF BridgeInv, CommandOrder
<1>2. applied' \in applied..sent /\ UNCHANGED sent
  BY <1>1, LoopCommands
<1>3. telemSeq \in 0..SeqBound /\ SeqBound \in Nat
  BY CounterAssumption DEF BridgeInv, BridgeTypes, BridgeTypeOK, TypeOK
<1>4. telemSeq' \in {telemSeq, telemSeq + 1} /\ telemSeq' <= SeqBound
  <2>1. CASE UNCHANGED telemSeq
    BY <1>3, <2>1
  <2>2. CASE telemSeq' = IF telemSeq < SeqBound THEN telemSeq + 1 ELSE SeqBound
    BY <1>3, <2>2
  <2> QED
    BY <2>1, <2>2, LoopTelemetry DEF Offer
<1>5. UNCHANGED seen
  BY LoopTelemetry
<1> QED
  BY <1>2, <1>4, <1>5 DEF Promise!Serve

LEMMA PromiseRead ==
    ASSUME BridgeInv, BridgeTypes', Server!ReadTelemetry, UNCHANGED loopVars
    PROVE  [Promise!Next]_(Promise!promiseVars)
<1>1. UNCHANGED <<sent, applied, telemSeq>>
  BY DEF Server!ReadTelemetry, loopVars
<1>2. Len(Way) > 0 /\ seen' = Way[1].seq
  BY ReadTelemetryWay DEF BridgeInv
<1>3. seen \in Nat /\ telemSeq \in Nat /\ telemSeq <= SeqBound /\ seen <= telemSeq
  BY CounterAssumption
     DEF BridgeInv, BridgeTypes, BridgeTypeOK, TypeOK, Server!ServerTypeOK, TelemetryOrder
<1>4. seen' \in Nat
  BY DEF BridgeTypes, BridgeTypeOK, Server!ServerTypeOK
<1>5. seen' <= telemSeq /\ Before(seen, seen')
  <2>1. 1 \in 1..Len(Way)
    BY <1>2, WayParts DEF BridgeInv
  <2> QED
    BY <1>2, <2>1 DEF BridgeInv, TelemetryOrder, PacketsOrdered
<1>6. CASE seen < seen'
  <2>1. seen' \in seen + 1..telemSeq
    BY <1>3, <1>4, <1>5, <1>6
  <2> QED
    BY <1>1, <2>1 DEF Promise!Next, Promise!See
<1>7. CASE seen' = SeqBound
  <2>1. seen' = seen \/ seen < seen'
    BY <1>3, <1>4, <1>5, <1>7, CounterAssumption
  <2> QED
    BY <1>1, <1>6, <2>1 DEF Promise!promiseVars
<1> QED
  BY <1>5, <1>6, <1>7 DEF Before

LEMMA PromiseStep ==
    ASSUME BridgeInv, BridgeInv', [BridgeNext]_bridgeVars
    PROVE  [Promise!Next]_(Promise!promiseVars)
<1>1. CASE LoopStep \/ TimerStep \/ SgStep
  BY <1>1, PromiseLoop DEF Promise!Next
<1>2. CASE ControllerStep
  <2>1. UNCHANGED <<applied, telemSeq>>
    BY <1>2 DEF ControllerStep, loopVars
  <2>2. CASE Server!SendCommand
    BY <2>1, <2>2 DEF Server!SendCommand, Promise!Next, Promise!Send
  <2>3. CASE Server!ReadTelemetry
    BY <1>2, <2>3, PromiseRead DEF ControllerStep, BridgeInv
  <2>4. CASE Server!Connect \/ Server!SendJunk \/ Server!HangUp
    BY <2>1, <2>4 DEF Server!Connect, Server!SendJunk, Server!HangUp, Promise!promiseVars
  <2> QED
    BY <1>2, <2>2, <2>3, <2>4 DEF ControllerStep, Server!ControllerNext
<1>3. CASE ServerStep
  <2>1. UNCHANGED <<applied, telemSeq>>
    BY <1>3 DEF ServerStep, loopVars
  <2>2. UNCHANGED <<sent, seen>>
    BY <1>3 DEF ServerStep, Server!ServerNext, Server!Accept, Server!Receive, Server!Overflow,
                Server!ReadEnds, Server!ParseFrame, Server!ParseEnds, Server!TakeTelemetry,
                Server!WriteTelemetry, Server!WriteFails, Server!Disconnect
  <2> QED
    BY <2>1, <2>2 DEF Promise!promiseVars
<1>4. CASE UNCHANGED bridgeVars
  BY <1>4 DEF bridgeVars, vars, serverVars, telem, command, Promise!promiseVars
<1> QED
  BY <1>1, <1>2, <1>3, <1>4 DEF BridgeNext

(***************************************************************************)
(* The bridge implements its promise: the gimbal never goes back to an     *)
(* older command and no controller reads an older packet than one read     *)
(* before it, by whichever controller (server.rs:3-9).                     *)
(***************************************************************************)
THEOREM PromiseIsKept == BridgeSpec => KeepsPromise
BY PromiseInit, PromiseStep, BridgeInvHolds, PTL DEF BridgeSpec, KeepsPromise, Promise!Spec
===============================================================================
