---------------------------- MODULE TrilliumBridge ----------------------------
(***************************************************************************)
(* The event loop and the Trillium server together: the two tasks share    *)
(* the command channel and the telemetry channel and nothing else          *)
(* (main.rs:68-69, 85-89).                                                 *)
(***************************************************************************)
EXTENDS EventLoop

CONSTANTS UpCap, DownCap, MaxRxBuf, MaxNoise, MaxConnections

ASSUME ServerAssumption ==
    /\ UpCap \in Nat \ {0} /\ DownCap \in Nat \ {0} /\ MaxRxBuf \in Nat \ {0}
    /\ MaxNoise \in Nat /\ MaxConnections \in Nat

VARIABLES phase, rxBuf, held, up, down, hungUp, waiting, connections, firstCmd, junk, seen

Server == INSTANCE TrilliumServer

serverVars == <<phase, rxBuf, held, up, down, hungUp, waiting, connections, firstCmd,
                junk, seen>>
loopVars   == <<timer, ages, telemSeq, silence, respQ, cigiQ, lastCmd, applied>>
bridgeVars == <<vars, serverVars>>

BridgeInit == Init /\ Server!ServerInit

LoopStep   == LoopNext /\ UNCHANGED serverVars
TimerStep  == TimerFires /\ UNCHANGED serverVars
SgStep     == (SgResponds \/ HostSends) /\ UNCHANGED serverVars
ServerStep == Server!ServerNext /\ UNCHANGED loopVars
ControllerStep == Server!ControllerNext /\ UNCHANGED loopVars

BridgeNext == LoopStep \/ TimerStep \/ SgStep \/ ServerStep \/ ControllerStep

BridgeSpec == BridgeInit /\ [][BridgeNext]_bridgeVars
FairBridgeSpec == BridgeSpec /\ Fairness /\ Server!ServerFairness

-------------------------------------------------------------------------------
BridgeTypeOK == TypeOK /\ Server!ServerTypeOK

IsCommand(item) == item.kind = "command"

\* Everything on its way to last_cmd, the oldest first: what the channel holds and, with
\* the other frames and the noise, what the server has not parsed.
Pipeline == [i \in 1..Len(cmdQ) |-> Server!Command(cmdQ[i])] \o rxBuf \o up

(***************************************************************************)
(* From the socket to last_cmd no command is overtaken, doubled or, while  *)
(* its connection lasts, lost: whatever noise surrounds it, however the    *)
(* reads cut the stream and however often the server must wait for room in *)
(* the channel or for the controller to read (server.rs:68-104,            *)
(* main.rs:250-252).                                                       *)
(***************************************************************************)
CommandsInTransit ==
    /\ \A i \in 1..Len(Pipeline) : IsCommand(Pipeline[i]) =>
          /\ Pipeline[i].number > lastCmd
          /\ \A j \in 1..i - 1 :
                IsCommand(Pipeline[j]) => Pipeline[j].number < Pipeline[i].number
    /\ Server!Connected =>
          \A c \in firstCmd..sent :
             c <= lastCmd \/ \E i \in 1..Len(Pipeline) : Pipeline[i] = Server!Command(c)

(***************************************************************************)
(* The abstract promise, across all connections: the gimbal never goes     *)
(* back to an older command and a controller never reads an older packet   *)
(* than one read before (server.rs:3-9).                                   *)
(***************************************************************************)
Promise == INSTANCE BridgePromise WITH offered <- telemSeq, Bound <- SeqBound
KeepsPromise == Promise!Spec

(***************************************************************************)
(* "On disconnect, waits for the next incoming connection"                 *)
(* (server.rs:9): if no controller stays for ever, one that waits is       *)
(* accepted, even when the one before it left in the middle of a write or  *)
(* with commands unread.                                                   *)
(***************************************************************************)
ControllersServed ==
    []<>(~Server!Connected \/ hungUp) => (waiting ~> ~waiting)

(***************************************************************************)
(* A command of a controller that stays and keeps reading its telemetry    *)
(* is applied, or a later one is, although telemetry and commands compete  *)
(* for the server's select and the loop's (server.rs:68-104).              *)
(***************************************************************************)
CommandsReachGimbal ==
    \A c \in 1..MaxCommands :
       []<>(down = <<>>) =>
          (sent >= c ~> (applied >= c \/ hungUp \/ ~Server!Connected \/ firstCmd > c))
===============================================================================
