------------------------------- MODULE EventLoop -------------------------------
(***************************************************************************)
(* The event loop of src/src/main.rs: a biased select over the 50 Hz tick, *)
(* the commands of the Trillium server and the responses of the scene      *)
(* generator, connected to its neighbours by bounded channels.             *)
(*                                                                         *)
(* One period of the tick is the unit of time.  The select polls its arms  *)
(* in order, and other threads fill the channels between two polls, so     *)
(* every poll is a step of its own.  Commands are numbered as they are     *)
(* sent; the simulator is represented by the command it last applied.      *)
(* Abstracted: the contents of datagrams and packets, the platform state   *)
(* they are computed from, and the diagnostics log.                        *)
(***************************************************************************)
EXTENDS Naturals, Sequences

CONSTANTS
    RuntimeMode,     \* "bridge" or "simulator"
    CmdCap,          \* capacity of the command channel (32)
    TelemCap,        \* capacity of the telemetry channel (4)
    RespCap,         \* capacity of the response channel (8)
    CigiCap,         \* capacity of the datagram channel (8)
    TelemPeriod,     \* ticks between two synthetic telemetry packets (5)
    FrameSpace,      \* frame_ctr counts modulo this (2^32)
    SgTimeout,       \* SG_TIMEOUT in ticks (100)
    SrStale,         \* SR_KEEPALIVE_STALE in ticks (10)
    MaxCommands,     \* bound: commands the controller sends
    SeqBound         \* bound: telemetry packets are numbered up to here

ASSUME ChannelAssumption ==
    /\ RuntimeMode \in {"bridge", "simulator"}
    /\ CmdCap \in Nat \ {0} /\ TelemCap \in Nat \ {0}
    /\ RespCap \in Nat \ {0} /\ CigiCap \in Nat \ {0}

\* 2^32 leaves 1 modulo 5: after the wrap two frames in a row are multiples.
ASSUME CounterAssumption ==
    /\ TelemPeriod \in Nat \ {0} /\ FrameSpace \in Nat \ {0}
    /\ FrameSpace % TelemPeriod \in 0..1 /\ FrameSpace >= TelemPeriod
    /\ SgTimeout \in Nat \ {0} /\ SrStale \in Nat \ {0}
    /\ MaxCommands \in Nat /\ SeqBound \in Nat \ {0}

VARIABLES
    tickDue,     \* the interval has fired since tick.tick() last returned
    arm,         \* the arm of the select that is polled next
    frameCtr,    \* frame_ctr
    cmdQ,        \* orion_cmd_tx / orion_cmd_rx
    telemQ,      \* orion_telem_tx / orion_telem_rx: [source, seq]
    respQ,       \* cigi_resp_rx: "sof" and "sr"
    cigiQ,       \* datagrams waiting in cigi_send_tx
    lastCmd,     \* last_cmd, 0 when None
    applied,     \* the command the simulator last applied, 0 when none
    sofAge,      \* time since last_sof, SgTimeout and more as SgTimeout
    srAge,       \* time since last_sensor_response, SrStale and more as SrStale
    telemSeq,    \* packets put in telemQ so far
    silence,     \* ticks since the loop last offered a packet
    sent         \* commands sent by the controller so far

timer   == <<tickDue, arm, frameCtr>>
ages    == <<sofAge, srAge>>
telem   == <<telemQ, telemSeq, silence>>
command == <<cmdQ, sent>>
vars    == <<timer, ages, telem, command, respQ, cigiQ, lastCmd, applied>>

Arms == {"tick", "cmd", "resp"}
Packets == [source : {"sim", "sg"}, seq : 1..SeqBound]

\* tick.tick() returns at once the first time.
Init ==
    /\ tickDue = TRUE /\ arm = "tick" /\ frameCtr = 0
    /\ cmdQ = <<>> /\ telemQ = <<>> /\ respQ = <<>> /\ cigiQ = 0
    /\ lastCmd = 0 /\ applied = 0
    /\ sofAge = SgTimeout /\ srAge = SrStale
    /\ telemSeq = 0 /\ silence = 0 /\ sent = 0

-------------------------------------------------------------------------------
\* Mutant: the timeout compared with <=.
SgConnectedLong == RuntimeMode = "bridge" /\ sofAge <= SgTimeout

SgConnected == RuntimeMode = "bridge" /\ sofAge < SgTimeout
SrFresh == srAge < SrStale

\* Mutant: no wrap.
NextFrameEndless == frameCtr + 1

NextFrame == (frameCtr + 1) % FrameSpace
TelemetryDue == NextFrame % TelemPeriod = 0

\* Mutant: send(..).await, which waits for room.
OfferWaiting(source) ==
    /\ Len(telemQ) < TelemCap
    /\ silence' = 0 /\ telemSeq' = IF telemSeq < SeqBound THEN telemSeq + 1 ELSE SeqBound
    /\ telemQ' = Append(telemQ, [source |-> source, seq |-> telemSeq'])

\* try_send(..).ok(): a full channel drops the new packet.
Offer(source) ==
    LET seq == IF telemSeq < SeqBound THEN telemSeq + 1 ELSE SeqBound
    IN  /\ silence' = 0
        /\ IF Len(telemQ) < TelemCap
           THEN /\ telemQ' = Append(telemQ, [source |-> source, seq |-> seq])
                /\ telemSeq' = seq
           ELSE UNCHANGED <<telemQ, telemSeq>>

\* No packet at this tick.
Hold == silence' = silence + 1 /\ UNCHANGED <<telemQ, telemSeq>>

\* last_cmd is applied again before every tick of the simulator.
Apply == applied' = IF lastCmd # 0 THEN lastCmd ELSE applied

Tick ==
    /\ arm = "tick" /\ tickDue
    /\ tickDue' = FALSE /\ arm' = "tick"
    /\ frameCtr' = NextFrame
    /\ Apply
    /\ UNCHANGED <<ages, command, respQ, lastCmd>>

\* Scene generator path: a datagram, dropped when the channel is full, and synthetic
\* telemetry only while no SensorResponse is fresh.
TickSg ==
    /\ SgConnected
    /\ Tick
    /\ cigiQ' = IF cigiQ < CigiCap THEN cigiQ + 1 ELSE cigiQ
    /\ IF TelemetryDue /\ ~SrFresh THEN Offer("sim") ELSE Hold

\* Mutant: the fallback does not apply the last command.
TickFallbackIdle ==
    /\ ~SgConnected
    /\ arm = "tick" /\ tickDue
    /\ tickDue' = FALSE /\ frameCtr' = NextFrame
    /\ IF TelemetryDue THEN Offer("sim") ELSE Hold
    /\ UNCHANGED <<arm, ages, command, respQ, cigiQ, lastCmd, applied>>

\* Simulator fallback, and every tick of simulator mode.
TickFallback ==
    /\ ~SgConnected
    /\ Tick
    /\ IF TelemetryDue THEN Offer("sim") ELSE Hold
    /\ UNCHANGED cigiQ

NoTick ==
    /\ arm = "tick" /\ ~tickDue
    /\ arm' = "cmd"
    /\ UNCHANGED <<tickDue, frameCtr, ages, telem, command, respQ, cigiQ, lastCmd, applied>>

\* Mutant: the newest command first.
TakeCommandLatest ==
    /\ arm = "cmd" /\ cmdQ # <<>>
    /\ lastCmd' = cmdQ[Len(cmdQ)] /\ cmdQ' = SubSeq(cmdQ, 1, Len(cmdQ) - 1)
    /\ arm' = "tick"
    /\ UNCHANGED <<tickDue, frameCtr, ages, telem, sent, respQ, cigiQ, applied>>

TakeCommand ==
    /\ arm = "cmd" /\ cmdQ # <<>>
    /\ lastCmd' = Head(cmdQ) /\ cmdQ' = Tail(cmdQ)
    /\ arm' = "tick"
    /\ UNCHANGED <<tickDue, frameCtr, ages, telem, sent, respQ, cigiQ, applied>>

NoCommand ==
    /\ arm = "cmd" /\ cmdQ = <<>>
    /\ arm' = "resp"
    /\ UNCHANGED <<tickDue, frameCtr, ages, telem, command, respQ, cigiQ, lastCmd, applied>>

\* Mutant: one timestamp for both kinds of response.
TakeStartOfFrameBoth ==
    /\ arm = "resp" /\ respQ # <<>> /\ Head(respQ) = "sof"
    /\ respQ' = Tail(respQ) /\ sofAge' = 0 /\ srAge' = 0
    /\ arm' = "tick"
    /\ UNCHANGED <<tickDue, frameCtr, telem, command, cigiQ, lastCmd, applied>>

TakeStartOfFrame ==
    /\ arm = "resp" /\ respQ # <<>> /\ Head(respQ) = "sof"
    /\ respQ' = Tail(respQ) /\ sofAge' = 0
    /\ arm' = "tick"
    /\ UNCHANGED <<tickDue, frameCtr, srAge, telem, command, cigiQ, lastCmd, applied>>

TakeSensorResponse ==
    /\ arm = "resp" /\ respQ # <<>> /\ Head(respQ) = "sr"
    /\ respQ' = Tail(respQ) /\ srAge' = 0
    /\ Offer("sg")
    /\ arm' = "tick"
    /\ UNCHANGED <<tickDue, frameCtr, sofAge, command, cigiQ, lastCmd, applied>>

\* Nothing is ready: the task parks and, once woken, polls from the first arm again.
\* In simulator mode the third arm is pending for ever.
NoResponse ==
    /\ arm = "resp" /\ respQ = <<>>
    /\ arm' = "tick"
    /\ UNCHANGED <<tickDue, frameCtr, ages, telem, command, respQ, cigiQ, lastCmd, applied>>

LoopNext ==
    \/ TickSg \/ TickFallback \/ NoTick
    \/ TakeCommand \/ NoCommand
    \/ TakeStartOfFrame \/ TakeSensorResponse \/ NoResponse

-------------------------------------------------------------------------------
\* The interval fires once per period; a tick that is still due then is skipped
\* (MissedTickBehavior::Skip).
TimerFires ==
    /\ tickDue' = TRUE
    /\ sofAge' = IF sofAge < SgTimeout THEN sofAge + 1 ELSE sofAge
    /\ srAge' = IF srAge < SrStale THEN srAge + 1 ELSE srAge
    /\ UNCHANGED <<arm, frameCtr, telem, command, respQ, cigiQ, lastCmd, applied>>

\* The CIGI host task: it delivers responses and takes datagrams.
SgResponds ==
    /\ RuntimeMode = "bridge" /\ Len(respQ) < RespCap
    /\ \E resp \in {"sof", "sr"} : respQ' = Append(respQ, resp)
    /\ UNCHANGED <<timer, ages, telem, command, cigiQ, lastCmd, applied>>

HostSends ==
    /\ cigiQ > 0 /\ cigiQ' = cigiQ - 1
    /\ UNCHANGED <<timer, ages, telem, command, respQ, lastCmd, applied>>

\* The far ends of the other two channels, when the loop is studied alone; module
\* TrilliumBridge has the Trillium server in their place.
CommandArrives ==
    /\ sent < MaxCommands /\ Len(cmdQ) < CmdCap
    /\ sent' = sent + 1 /\ cmdQ' = Append(cmdQ, sent + 1)
    /\ UNCHANGED <<timer, ages, telem, respQ, cigiQ, lastCmd, applied>>

TelemetryTaken ==
    /\ telemQ # <<>> /\ telemQ' = Tail(telemQ)
    /\ UNCHANGED <<timer, ages, telemSeq, silence, command, respQ, cigiQ, lastCmd, applied>>

Next ==
    \/ LoopNext \/ TimerFires
    \/ SgResponds \/ HostSends \/ CommandArrives \/ TelemetryTaken

Spec == Init /\ [][Next]_vars

\* The loop's task is runnable whenever an arm is ready and the runtime has threads to
\* run it; the interval is a system timer.  The body of a tick takes far less than a
\* period, so again and again the loop finds no tick due and polls the arms below: without
\* that, the biased select would starve them.  Nothing is assumed of the other ends.
Fairness == WF_vars(LoopNext) /\ SF_vars(NoTick) /\ WF_vars(TimerFires)
FairSpec == Spec /\ Fairness

-------------------------------------------------------------------------------
TypeOK ==
    /\ tickDue \in BOOLEAN /\ arm \in Arms /\ frameCtr \in 0..FrameSpace - 1
    /\ cmdQ \in Seq(1..MaxCommands) /\ Len(cmdQ) <= CmdCap
    /\ telemQ \in Seq(Packets) /\ Len(telemQ) <= TelemCap
    /\ respQ \in Seq({"sof", "sr"}) /\ Len(respQ) <= RespCap
    /\ cigiQ \in 0..CigiCap
    /\ lastCmd \in 0..MaxCommands /\ applied \in 0..MaxCommands
    /\ sofAge \in 0..SgTimeout /\ srAge \in 0..SrStale
    /\ telemSeq \in 0..SeqBound /\ silence \in Nat
    /\ sent \in 0..MaxCommands

(***************************************************************************)
(* The controller is never left without telemetry: whatever the scene      *)
(* generator does, connected or not, driving SensorResponses or falling    *)
(* silent, and across the wrap of the frame counter, the loop offers a     *)
(* packet within the freshness window plus one telemetry period            *)
(* (main.rs:218-225, 235-240, 268-272).                                    *)
(***************************************************************************)
SilenceBounded == silence < SrStale + TelemPeriod

(***************************************************************************)
(* No command is lost or overtaken between the channel and last_cmd: what  *)
(* waits in the channel is exactly what was sent after last_cmd, in order, *)
(* and the simulator never runs ahead of it (main.rs:168-172, 228-231,     *)
(* 250-252).                                                               *)
(***************************************************************************)
NoCommandLost ==
    /\ cmdQ = [i \in 1..Len(cmdQ) |-> lastCmd + i]
    /\ sent = lastCmd + Len(cmdQ)
    /\ applied <= lastCmd

(***************************************************************************)
(* Every command reaches the simulator, or a later one does, whether the   *)
(* scene generator is connected or not and even if nobody takes telemetry  *)
(* or datagrams (main.rs:146-277).                                         *)
(***************************************************************************)
LastCommandApplied == \A c \in 1..MaxCommands : (sent >= c) ~> (applied >= c)

(***************************************************************************)
(* The loop is never held up by a neighbour that does not drain its        *)
(* channel: it ticks for ever (main.rs:210, 224, 239, 272: try_send).      *)
(***************************************************************************)
TicksForever == []<><<Tick>>_vars

(***************************************************************************)
(* When StartOfFrames stop, the loop falls back to the simulator for good, *)
(* although SensorResponses may go on (main.rs:26-27, 156-159).            *)
(***************************************************************************)
FallbackTakesOver ==
    <>[](\A i \in 1..Len(respQ) : respQ[i] # "sof") => <>[]~SgConnected
===============================================================================
