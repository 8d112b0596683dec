---------------------------- MODULE TrilliumServer ----------------------------
(***************************************************************************)
(* The TCP server of src/src/trillium/server.rs and the controllers that   *)
(* connect to it: one connection at a time, a select between telemetry to  *)
(* write and bytes to read, and the command and telemetry channels to the  *)
(* event loop.  Module TrilliumBridge puts the event loop at their other   *)
(* ends.                                                                   *)
(*                                                                         *)
(* The unit of the byte stream is the frame, or a run of noise bytes that  *)
(* belong to none: a frame cut by a read is a frame not read yet (module   *)
(* OrionWire has the bytes).  What a controller sends before it is         *)
(* accepted waits in the socket, so it counts as sent afterwards.          *)
(***************************************************************************)
EXTENDS Naturals, Sequences, SequencesExt

CONSTANTS
    CmdCap,          \* capacity of the command channel
    UpCap, DownCap,  \* what the socket buffers hold in each direction
    MaxRxBuf,        \* MAX_RX_BUF, in frames
    MaxCommands,     \* bound: commands sent by the controllers
    MaxNoise,        \* bound: other frames and runs of noise
    MaxConnections   \* bound: connections

VARIABLES
    phase,        \* where the task is: accept(), the select, the parse loop or write_all
    rxBuf,        \* rx_buf
    held,         \* the packet being written: <<>> or <<packet>>
    up, down,     \* what is in flight to the server and to the controller
    hungUp,       \* the controller has closed, or vanished from, the connection
    waiting,      \* a controller is in the listener's backlog
    connections,  \* connections made so far
    firstCmd,     \* the number of the connection's first command
    junk,         \* frames that are not commands, and runs of noise, sent so far
    seen,         \* number of the telemetry packet last read by a controller
    cmdQ, sent,   \* the command channel; commands sent by the controllers so far
    telemQ        \* the telemetry channel

connection == <<up, down, hungUp, firstCmd>>
backlog    == <<waiting, connections>>
serverVars == <<phase, rxBuf, held, connection, backlog, junk, seen>>

Phases == {"accept", "select", "parsing", "writing"}
Connected == phase # "accept"

Command(c) == [kind |-> "command", number |-> c]
Other == [kind |-> "other", number |-> 0]
Noise == [kind |-> "noise", number |-> 0]
Items == {Command(c) : c \in 1..MaxCommands} \cup {Other, Noise}

ServerInit ==
    /\ phase = "accept" /\ rxBuf = <<>> /\ held = <<>>
    /\ up = <<>> /\ down = <<>> /\ hungUp = FALSE /\ firstCmd = 1
    /\ waiting = FALSE /\ connections = 0
    /\ junk = 0 /\ seen = 0

-------------------------------------------------------------------------------
Accept ==
    /\ phase = "accept" /\ waiting
    /\ phase' = "select" /\ waiting' = FALSE /\ firstCmd' = sent + 1
    /\ UNCHANGED <<rxBuf, held, up, down, hungUp, connections, junk, seen, cmdQ, sent, telemQ>>

\* handle_connection returns: both halves of the stream and the buffer are dropped.
Disconnect ==
    /\ phase' = "accept" /\ rxBuf' = <<>> /\ held' = <<>>
    /\ up' = <<>> /\ down' = <<>> /\ hungUp' = FALSE
    /\ UNCHANGED <<firstCmd, backlog, junk, seen, cmdQ, sent>>

\* Mutant: the size of the buffer is not tested.
ReceiveUnbounded ==
    /\ phase = "select"
    /\ \E n \in 1..Len(up) :
          /\ rxBuf' = rxBuf \o SubSeq(up, 1, n)
          /\ up' = SubSeq(up, n + 1, Len(up))
    /\ phase' = "parsing"
    /\ UNCHANGED <<held, down, hungUp, firstCmd, backlog, junk, seen, cmdQ, sent, telemQ>>

\* Mutant: a biased select, telemetry first.
ReceiveBiased ==
    /\ phase = "select" /\ telemQ = <<>>
    /\ \E n \in 1..Len(up) :
          /\ Len(rxBuf) + n <= MaxRxBuf
          /\ rxBuf' = rxBuf \o SubSeq(up, 1, n)
          /\ up' = SubSeq(up, n + 1, Len(up))
    /\ phase' = "parsing"
    /\ UNCHANGED <<held, down, hungUp, firstCmd, backlog, junk, seen, cmdQ, sent, telemQ>>

\* The read branch of the select: any part of what has arrived.
Receive ==
    /\ phase = "select"
    /\ \E n \in 1..Len(up) :
          /\ Len(rxBuf) + n <= MaxRxBuf
          /\ rxBuf' = rxBuf \o SubSeq(up, 1, n)
          /\ up' = SubSeq(up, n + 1, Len(up))
    /\ phase' = "parsing"
    /\ UNCHANGED <<held, down, hungUp, firstCmd, backlog, junk, seen, cmdQ, sent, telemQ>>

\* The size is tested before anything is parsed.
Overflow ==
    /\ phase = "select" /\ Len(rxBuf) + Len(up) > MaxRxBuf
    /\ Disconnect
    /\ UNCHANGED telemQ

\* Mutant: an error of read is ignored.
ReadEndsIgnored ==
    /\ phase = "select" /\ hungUp
    /\ UNCHANGED <<serverVars, cmdQ, sent, telemQ>>

\* Ok(0) or Err: the latter may come before all that was sent has been read.
ReadEnds ==
    /\ phase = "select" /\ hungUp
    /\ Disconnect
    /\ UNCHANGED telemQ

IsFrame(item) == item.kind # "noise"
NextFrameAt == SelectInSeq(rxBuf, IsFrame)
HasFrame == \E i \in 1..Len(rxBuf) : IsFrame(rxBuf[i])

\* Mutant: the rest of the buffer is dropped with the frame.
ParseFrameClear ==
    /\ phase = "parsing" /\ HasFrame
    /\ LET item == rxBuf[NextFrameAt]
       IN  IF item.kind = "command"
           THEN Len(cmdQ) < CmdCap /\ cmdQ' = Append(cmdQ, item.number)
           ELSE UNCHANGED cmdQ
    /\ rxBuf' = <<>>
    /\ UNCHANGED <<phase, held, connection, backlog, junk, seen, sent, telemQ>>

\* Mutant: the last frame in the buffer first.
ParseFrameLast ==
    /\ phase = "parsing" /\ HasFrame
    /\ LET at == SelectLastInSeq(rxBuf, IsFrame)
       IN  /\ IF rxBuf[at].kind = "command"
              THEN Len(cmdQ) < CmdCap /\ cmdQ' = Append(cmdQ, rxBuf[at].number)
              ELSE UNCHANGED cmdQ
           /\ rxBuf' = SubSeq(rxBuf, 1, at - 1)
    /\ UNCHANGED <<phase, held, connection, backlog, junk, seen, sent, telemQ>>

\* The first frame in the buffer, with the noise before it; a command waits for room in
\* the channel.
ParseFrame ==
    /\ phase = "parsing" /\ HasFrame
    /\ LET item == rxBuf[NextFrameAt]
       IN  IF item.kind = "command"
           THEN Len(cmdQ) < CmdCap /\ cmdQ' = Append(cmdQ, item.number)
           ELSE UNCHANGED cmdQ
    /\ rxBuf' = SubSeq(rxBuf, NextFrameAt + 1, Len(rxBuf))
    /\ UNCHANGED <<phase, held, connection, backlog, junk, seen, sent, telemQ>>

\* Noise that no frame follows stays in the buffer.
ParseEnds ==
    /\ phase = "parsing" /\ ~HasFrame
    /\ phase' = "select"
    /\ UNCHANGED <<rxBuf, held, connection, backlog, junk, seen, cmdQ, sent, telemQ>>

\* The telemetry branch of the select.
TakeTelemetry ==
    /\ phase = "select" /\ telemQ # <<>>
    /\ held' = <<Head(telemQ)>> /\ telemQ' = Tail(telemQ)
    /\ phase' = "writing"
    /\ UNCHANGED <<rxBuf, connection, backlog, junk, seen, cmdQ, sent>>

\* write_all waits for room.  On a connection that the controller has left it may still
\* succeed, into a buffer that nobody reads.
WriteTelemetry ==
    /\ phase = "writing"
    /\ \/ Len(down) < DownCap /\ down' = down \o held
       \/ hungUp /\ UNCHANGED down
    /\ held' = <<>> /\ phase' = "select"
    /\ UNCHANGED <<rxBuf, up, hungUp, firstCmd, backlog, junk, seen, cmdQ, sent, telemQ>>

\* The packet is lost.
WriteFails ==
    /\ phase = "writing" /\ hungUp
    /\ Disconnect
    /\ UNCHANGED telemQ

ServerNext ==
    \/ Accept \/ Receive \/ Overflow \/ ReadEnds \/ ParseFrame \/ ParseEnds
    \/ TakeTelemetry \/ WriteTelemetry \/ WriteFails

-------------------------------------------------------------------------------
\* The controllers.
Connect ==
    /\ ~waiting /\ connections < MaxConnections
    /\ waiting' = TRUE /\ connections' = connections + 1
    /\ UNCHANGED <<phase, rxBuf, held, connection, junk, seen, cmdQ, sent, telemQ>>

SendCommand ==
    /\ Connected /\ ~hungUp /\ Len(up) < UpCap /\ sent < MaxCommands
    /\ sent' = sent + 1 /\ up' = Append(up, Command(sent + 1))
    /\ UNCHANGED <<phase, rxBuf, held, down, hungUp, firstCmd, backlog, junk, seen, cmdQ, telemQ>>

SendJunk ==
    /\ Connected /\ ~hungUp /\ Len(up) < UpCap /\ junk < MaxNoise
    /\ junk' = junk + 1
    /\ \E item \in {Other, Noise} : up' = Append(up, item)
    /\ UNCHANGED <<phase, rxBuf, held, down, hungUp, firstCmd, backlog, seen, cmdQ, sent, telemQ>>

ReadTelemetry ==
    /\ Connected /\ ~hungUp /\ down # <<>>
    /\ seen' = Head(down).seq /\ down' = Tail(down)
    /\ UNCHANGED <<phase, rxBuf, held, up, hungUp, firstCmd, backlog, junk, cmdQ, sent, telemQ>>

HangUp ==
    /\ Connected /\ ~hungUp
    /\ hungUp' = TRUE
    /\ UNCHANGED <<phase, rxBuf, held, up, down, firstCmd, backlog, junk, seen, cmdQ, sent, telemQ>>

ControllerNext == Connect \/ SendCommand \/ SendJunk \/ ReadTelemetry \/ HangUp

-------------------------------------------------------------------------------
\* The task runs whenever it can; the select picks at random among the branches that
\* are ready, so neither branch is passed over for ever.  A controller owes nothing.
ServerFairness ==
    /\ WF_serverVars(ServerNext)
    /\ SF_serverVars(Receive \/ Overflow)
    /\ SF_serverVars(ReadEnds)
    /\ SF_serverVars(TakeTelemetry)

ServerTypeOK ==
    /\ phase \in Phases
    /\ rxBuf \in Seq(Items) /\ Len(rxBuf) <= MaxRxBuf
    /\ Len(held) = (IF phase = "writing" THEN 1 ELSE 0)
    /\ up \in Seq(Items) /\ Len(up) <= UpCap
    /\ Len(down) <= DownCap
    /\ hungUp \in BOOLEAN /\ waiting \in BOOLEAN
    /\ connections \in 0..MaxConnections
    /\ firstCmd \in 1..MaxCommands + 1
    /\ junk \in 0..MaxNoise /\ seen \in Nat
===============================================================================
