---------------------------- MODULE EventLoopProofs ----------------------------
(***************************************************************************)
(* Proofs about the event loop, for every capacity, period and timeout.    *)
(***************************************************************************)
EXTENDS EventLoop, Integers, TLAPS

\* What the frame counter's residue does when it does not reach a multiple.
LEMMA ResidueStep ==
    ASSUME NEW p \in Nat \ {0}, NEW f \in Nat, (f + 1) % p # 0
    PROVE  (f + 1) % p = (f % p) + 1
<1> DEFINE q == f \div p
           r == f % p
           t == (f + 1) \div p
           s == (f + 1) % p
<1>1. q \in Int /\ r \in 0..p - 1 /\ f = p * q + r
  OBVIOUS
<1>2. t \in Int /\ s \in 0..p - 1 /\ f + 1 = p * t + s
  OBVIOUS
<1>3. s \in 1..p - 1
  BY <1>2
<1> HIDE DEF q, r, t, s
<1>4. p * (t - q) = r + 1 - s
  BY <1>1, <1>2
<1>5. CASE t - q >= 1
  <2>1. p * (t - q) >= p
    BY <1>5, <1>1, <1>2
  <2> QED
    BY <2>1, <1>4, <1>1, <1>3
<1>6. CASE t - q <= -1
  <2>1. p * (t - q) <= -p
    BY <1>6, <1>1, <1>2
  <2> QED
    BY <2>1, <1>4, <1>1, <1>3
<1>7. CASE t = q
  BY <1>7, <1>1, <1>2 DEF r, s
<1> QED
  BY <1>5, <1>6, <1>7, <1>1, <1>2

LEMMA ZeroResidue == ASSUME NEW p \in Nat \ {0} PROVE 0 % p = 0
OBVIOUS

LEMMA NextFrameInRange ==
    ASSUME NEW f \in 0..FrameSpace - 1
    PROVE  /\ (f + 1) % FrameSpace \in 0..FrameSpace - 1
           /\ f + 1 < FrameSpace => (f + 1) % FrameSpace = f + 1
           /\ f + 1 = FrameSpace => (f + 1) % FrameSpace = 0
BY CounterAssumption

\* A tick that is not due moves the counter one further from the last multiple.
LEMMA NotDue ==
    ASSUME NEW f \in 0..FrameSpace - 1,
           ((f + 1) % FrameSpace) % TelemPeriod # 0
    PROVE  ((f + 1) % FrameSpace) % TelemPeriod = (f % TelemPeriod) + 1
<1>1. f + 1 < FrameSpace
  <2>1. CASE f + 1 = FrameSpace
    BY <2>1, NextFrameInRange, ZeroResidue, CounterAssumption
  <2> QED
    BY <2>1, CounterAssumption
<1>2. (f + 1) % FrameSpace = f + 1
  BY <1>1, NextFrameInRange
<1>3. (f + 1) % TelemPeriod # 0
  BY <1>2
<1>4. (f + 1) % TelemPeriod = (f % TelemPeriod) + 1
  <2>1. f \in Nat /\ TelemPeriod \in Nat \ {0}
    BY CounterAssumption
  <2> QED
    BY <2>1, <1>3, ResidueStep
<1> QED
  BY <1>2, <1>4

-------------------------------------------------------------------------------
LEMMA InitType == Init => TypeOK
BY ChannelAssumption, CounterAssumption DEF Init, TypeOK, Arms

\* The telemetry channel after a packet has been offered.
LEMMA OfferType ==
    ASSUME TypeOK, NEW source \in {"sim", "sg"}, Offer(source)
    PROVE  /\ telemQ' \in Seq(Packets) /\ Len(telemQ') <= TelemCap
           /\ telemSeq' \in 0..SeqBound /\ silence' = 0
<1> DEFINE seq == IF telemSeq < SeqBound THEN telemSeq + 1 ELSE SeqBound
<1>1. seq \in 1..SeqBound
  BY CounterAssumption DEF TypeOK
<1>2. [source |-> source, seq |-> seq] \in Packets
  BY <1>1 DEF Packets
<1>3. telemQ \in Seq(Packets) /\ Len(telemQ) \in Nat /\ Len(telemQ) <= TelemCap
  BY DEF TypeOK
<1>4. silence' = 0
  BY DEF Offer
<1>5. CASE Len(telemQ) < TelemCap
  <2>1. telemQ' = Append(telemQ, [source |-> source, seq |-> seq]) /\ telemSeq' = seq
    BY <1>5 DEF Offer
  <2>2. telemQ' \in Seq(Packets) /\ Len(telemQ') = Len(telemQ) + 1
    BY <2>1, <1>2, <1>3
  <2> QED
    BY <2>1, <2>2, <1>1, <1>3, <1>4, <1>5, ChannelAssumption, CounterAssumption
<1>6. CASE ~(Len(telemQ) < TelemCap)
  BY <1>6, <1>4 DEF Offer, TypeOK
<1> QED
  BY <1>5, <1>6

LEMMA HoldType ==
    ASSUME TypeOK, Hold
    PROVE  /\ telemQ' \in Seq(Packets) /\ Len(telemQ') <= TelemCap
           /\ telemSeq' \in 0..SeqBound /\ silence' \in Nat
BY DEF TypeOK, Hold

\* What both kinds of tick have in common.
LEMMA TickType ==
    ASSUME TypeOK, Tick
    PROVE  /\ tickDue' \in BOOLEAN /\ arm' \in Arms /\ frameCtr' \in 0..FrameSpace - 1
           /\ applied' \in 0..MaxCommands
<1>1. frameCtr' \in 0..FrameSpace - 1
  BY NextFrameInRange DEF TypeOK, Tick, NextFrame
<1> QED
  BY <1>1 DEF TypeOK, Tick, Apply, Arms

LEMMA HeadTailType ==
    ASSUME NEW S, NEW q \in Seq(S), q # <<>>
    PROVE  Head(q) \in S /\ Tail(q) \in Seq(S) /\ Len(Tail(q)) = Len(q) - 1
OBVIOUS

LEMMA StepType == ASSUME TypeOK, [Next]_vars PROVE TypeOK'
<1> USE DEF TypeOK
<1>1. CASE TickSg
  <2>1. (Offer("sim") \/ Hold) /\ Tick
    BY <1>1 DEF TickSg
  <2>2. /\ telemQ' \in Seq(Packets) /\ Len(telemQ') <= TelemCap
        /\ telemSeq' \in 0..SeqBound /\ silence' \in Nat
    BY <2>1, OfferType, HoldType
  <2>3. cigiQ' \in 0..CigiCap
    BY <1>1, ChannelAssumption DEF TickSg
  <2> QED
    BY <2>1, <2>2, <2>3, TickType DEF Tick, ages, command
<1>2. CASE TickFallback
  <2>1. (Offer("sim") \/ Hold) /\ Tick
    BY <1>2 DEF TickFallback
  <2>2. /\ telemQ' \in Seq(Packets) /\ Len(telemQ') <= TelemCap
        /\ telemSeq' \in 0..SeqBound /\ silence' \in Nat
    BY <2>1, OfferType, HoldType
  <2> QED
    BY <1>2, <2>1, <2>2, TickType DEF TickFallback, Tick, ages, command
<1>3. CASE NoTick
  BY <1>3 DEF NoTick, ages, telem, command, Arms
<1>4. CASE TakeCommand
  <2>1. Head(cmdQ) \in 1..MaxCommands /\ Tail(cmdQ) \in Seq(1..MaxCommands)
        /\ Len(Tail(cmdQ)) = Len(cmdQ) - 1
    BY <1>4, HeadTailType DEF TakeCommand
  <2> QED
    BY <1>4, <2>1, ChannelAssumption DEF TakeCommand, ages, telem, Arms
<1>5. CASE NoCommand
  BY <1>5 DEF NoCommand, ages, telem, command, Arms
<1>6. CASE TakeStartOfFrame
  BY <1>6, ChannelAssumption, CounterAssumption DEF TakeStartOfFrame, telem, command, Arms
<1>7. CASE TakeSensorResponse
  <2>1. /\ telemQ' \in Seq(Packets) /\ Len(telemQ') <= TelemCap
        /\ telemSeq' \in 0..SeqBound /\ silence' = 0
    BY <1>7, OfferType DEF TakeSensorResponse
  <2> QED
    BY <1>7, <2>1, ChannelAssumption, CounterAssumption
       DEF TakeSensorResponse, command, Arms
<1>8. CASE NoResponse
  BY <1>8 DEF NoResponse, ages, telem, command, Arms
<1>9. CASE TimerFires
  BY <1>9, CounterAssumption DEF TimerFires, telem, command
<1>10. CASE SgResponds
  BY <1>10, ChannelAssumption DEF SgResponds, timer, ages, telem, command
<1>11. CASE HostSends
  BY <1>11, ChannelAssumption DEF HostSends, timer, ages, telem, command
<1>12. CASE CommandArrives
  <2>1. sent + 1 \in 1..MaxCommands
    BY <1>12, CounterAssumption DEF CommandArrives
  <2>2. cmdQ' \in Seq(1..MaxCommands) /\ Len(cmdQ') = Len(cmdQ) + 1
    BY <1>12, <2>1 DEF CommandArrives
  <2> QED
    BY <1>12, <2>1, <2>2, ChannelAssumption DEF CommandArrives, timer, ages, telem
<1>13. CASE TelemetryTaken
  BY <1>13, ChannelAssumption DEF TelemetryTaken, timer, ages, command
<1>14. CASE UNCHANGED vars
  BY <1>14 DEF vars, timer, ages, telem, command
<1> QED
  BY <1>1, <1>2, <1>3, <1>4, <1>5, <1>6, <1>7, <1>8, <1>9, <1>10, <1>11, <1>12,
     <1>13, <1>14 DEF Next, LoopNext

(***************************************************************************)
(* Every variable keeps its type and every channel its capacity, whatever  *)
(* the capacities, periods and timeouts are (main.rs:115-277).             *)
(***************************************************************************)
THEOREM TypeCorrect == Spec => []TypeOK
BY InitType, StepType, PTL DEF Spec
-------------------------------------------------------------------------------
\* A sequence of numbers is determined by its length and its elements.
LEMMA CountingUp ==
    ASSUME NEW q \in Seq(Nat), NEW n \in Nat, \A i \in 1..Len(q) : q[i] = n + i
    PROVE  q = [i \in 1..Len(q) |-> n + i]
OBVIOUS

LEMMA CommandStep == ASSUME TypeOK, NoCommandLost, [Next]_vars PROVE NoCommandLost'
<1> USE DEF NoCommandLost
<1>1. lastCmd \in Nat /\ applied \in Nat /\ sent \in Nat /\ cmdQ \in Seq(Nat)
  BY CounterAssumption DEF TypeOK
<1>2. \A i \in 1..Len(cmdQ) : cmdQ[i] = lastCmd + i
  BY <1>1
<1>3. CASE Tick
  BY <1>3, <1>1 DEF Tick, Apply, command
<1>4. CASE TakeCommand
  <2>1. /\ lastCmd' = Head(cmdQ) /\ cmdQ' = Tail(cmdQ) /\ cmdQ # <<>>
        /\ sent' = sent /\ applied' = applied
    BY <1>4 DEF TakeCommand
  <2>2. lastCmd' = lastCmd + 1
    BY <2>1, <1>1, <1>2
  <2>3. /\ cmdQ' \in Seq(Nat) /\ Len(cmdQ') = Len(cmdQ) - 1
        /\ \A i \in 1..Len(cmdQ') : cmdQ'[i] = cmdQ[i + 1]
    BY <2>1, <1>1
  <2>4. \A i \in 1..Len(cmdQ') : cmdQ'[i] = lastCmd' + i
    BY <2>2, <2>3, <1>1, <1>2
  <2>5. cmdQ' = [i \in 1..Len(cmdQ') |-> lastCmd' + i]
    BY <2>3, <2>4, <2>2, <1>1, CountingUp
  <2> QED
    BY <2>1, <2>2, <2>3, <2>5, <1>1
<1>5. CASE CommandArrives
  <2>1. /\ cmdQ' = Append(cmdQ, sent + 1) /\ sent' = sent + 1
        /\ lastCmd' = lastCmd /\ applied' = applied
    BY <1>5 DEF CommandArrives
  <2>2. /\ cmdQ' \in Seq(Nat) /\ Len(cmdQ') = Len(cmdQ) + 1
        /\ \A i \in 1..Len(cmdQ) : cmdQ'[i] = cmdQ[i]
        /\ cmdQ'[Len(cmdQ) + 1] = sent + 1
    BY <2>1, <1>1
  <2>3. \A i \in 1..Len(cmdQ') : cmdQ'[i] = lastCmd' + i
    BY <2>1, <2>2, <1>1, <1>2
  <2>4. cmdQ' = [i \in 1..Len(cmdQ') |-> lastCmd' + i]
    BY <2>1, <2>2, <2>3, <1>1, CountingUp
  <2> QED
    BY <2>1, <2>2, <2>4, <1>1
<1>6. CASE UNCHANGED <<cmdQ, sent, lastCmd, applied>>
  BY <1>6
<1>7. TickSg \/ TickFallback => Tick
  BY DEF TickSg, TickFallback
<1>8. \/ NoTick \/ NoCommand \/ TakeStartOfFrame \/ TakeSensorResponse \/ NoResponse
      \/ TimerFires \/ SgResponds \/ HostSends \/ TelemetryTaken \/ UNCHANGED vars
      => UNCHANGED <<cmdQ, sent, lastCmd, applied>>
  BY DEF NoTick, NoCommand, TakeStartOfFrame, TakeSensorResponse, NoResponse, TimerFires,
         SgResponds, HostSends, TelemetryTaken, vars, command
<1> QED
  BY <1>3, <1>4, <1>5, <1>6, <1>7, <1>8 DEF Next, LoopNext

(***************************************************************************)
(* No command is lost, doubled or overtaken on its way to last_cmd, and    *)
(* the simulator is never ahead of it, for every capacity of the channels  *)
(* and any number of commands (main.rs:168-172, 228-231, 250-252).         *)
(***************************************************************************)
THEOREM CommandsAreKept == Spec => []NoCommandLost
<1>1. Init => NoCommandLost
  BY DEF Init, NoCommandLost
<1> QED
  BY <1>1, CommandStep, TypeCorrect, PTL DEF Spec

-------------------------------------------------------------------------------
(***************************************************************************)
(* What makes the silence bounded: while a SensorResponse is fresh its age *)
(* bounds the silence, since every tick needs a period; once it is stale   *)
(* the silence grows only as the frame counter leaves its last multiple.   *)
(***************************************************************************)
QuietSince ==
    /\ srAge < SrStale => silence <= srAge + (IF tickDue THEN 0 ELSE 1)
    /\ srAge = SrStale => silence <= SrStale + (frameCtr % TelemPeriod)

LEMMA ResidueBounds ==
    ASSUME NEW n \in Nat
    PROVE  n % TelemPeriod \in 0..TelemPeriod - 1
BY CounterAssumption

LEMMA QuietStep == ASSUME TypeOK, QuietSince, [Next]_vars PROVE QuietSince'
<1>1. /\ srAge \in 0..SrStale /\ silence \in Nat /\ frameCtr \in 0..FrameSpace - 1
      /\ SrStale \in Nat \ {0} /\ tickDue \in BOOLEAN
  BY CounterAssumption DEF TypeOK
<1>2. frameCtr % TelemPeriod \in 0..TelemPeriod - 1
  BY <1>1, ResidueBounds, CounterAssumption
<1>3. ASSUME Tick, Offer("sim") \/ Hold, TelemetryDue /\ ~SrFresh => Offer("sim")
      PROVE  QuietSince'
  <2>1. /\ tickDue /\ ~tickDue' /\ srAge' = srAge /\ frameCtr' = NextFrame
        /\ frameCtr' \in 0..FrameSpace - 1
    BY <1>3, TickType DEF Tick, ages
  <2>2. frameCtr' % TelemPeriod \in 0..TelemPeriod - 1
    BY <2>1, ResidueBounds, CounterAssumption
  <2>3. CASE Offer("sim")
    <3>1. silence' = 0
      BY <2>3 DEF Offer
    <3>2. frameCtr' % TelemPeriod \in Nat
      BY <2>2
    <3>3. 0 <= SrStale + (frameCtr' % TelemPeriod) /\ 0 <= srAge' + 1
      BY <3>2, <2>1, <1>1
    <3> QED
      BY <3>1, <3>3, <2>1 DEF QuietSince
  <2>4. CASE Hold /\ srAge < SrStale
    BY <2>4, <2>1, <1>1 DEF QuietSince, Hold
  <2>5. CASE Hold /\ srAge = SrStale /\ ~Offer("sim")
    <3>1. NextFrame % TelemPeriod # 0
      BY <2>5, <1>1, <1>3 DEF TelemetryDue, SrFresh
    <3>2. frameCtr' % TelemPeriod = (frameCtr % TelemPeriod) + 1
      BY <3>1, <2>1, <1>1, NotDue DEF NextFrame
    <3> QED
      BY <3>2, <2>5, <2>1, <1>1, <1>2 DEF QuietSince, Hold
  <2> QED
    BY <2>3, <2>4, <2>5, <1>1, <1>3
<1>4. CASE TickSg
  BY <1>4, <1>3 DEF TickSg
<1>5. CASE TickFallback
  BY <1>5, <1>3 DEF TickFallback
<1>6. CASE TakeSensorResponse
  <2>1. silence' = 0 /\ srAge' = 0 /\ tickDue' = tickDue /\ 0 # SrStale
    BY <1>6, <1>1 DEF TakeSensorResponse, Offer
  <2> QED
    BY <2>1, <1>1 DEF QuietSince
<1>7. CASE TimerFires
  BY <1>7, <1>1, <1>2 DEF TimerFires, QuietSince, telem
<1>8. CASE UNCHANGED <<tickDue, frameCtr, srAge, silence>>
  BY <1>8 DEF QuietSince
<1>9. \/ NoTick \/ TakeCommand \/ NoCommand \/ TakeStartOfFrame \/ NoResponse
      \/ SgResponds \/ HostSends \/ CommandArrives \/ TelemetryTaken \/ UNCHANGED vars
      => UNCHANGED <<tickDue, frameCtr, srAge, silence>>
  BY DEF NoTick, TakeCommand, NoCommand, TakeStartOfFrame, NoResponse, SgResponds,
         HostSends, CommandArrives, TelemetryTaken, vars, timer, ages, telem
<1> QED
  BY <1>4, <1>5, <1>6, <1>7, <1>8, <1>9 DEF Next, LoopNext

(***************************************************************************)
(* The controller's telemetry never pauses for longer than the freshness   *)
(* window and one telemetry period, for every choice of the periods,       *)
(* including the wrap of the 32-bit frame counter (main.rs:213-240).       *)
(***************************************************************************)
THEOREM SilenceIsBounded == Spec => []SilenceBounded
<1>1. Init => QuietSince
  BY CounterAssumption, ZeroResidue DEF Init, QuietSince
<1>2. TypeOK /\ QuietSince => SilenceBounded
  <2> SUFFICES ASSUME TypeOK, QuietSince PROVE SilenceBounded
    OBVIOUS
  <2>1. frameCtr % TelemPeriod \in 0..TelemPeriod - 1
    <3>1. frameCtr \in Nat
      BY CounterAssumption DEF TypeOK
    <3> QED
      BY <3>1, ResidueBounds
  <2> QED
    BY <2>1, CounterAssumption DEF TypeOK, QuietSince, SilenceBounded
<1> QED
  BY <1>1, <1>2, QuietStep, TypeCorrect, PTL DEF Spec
===============================================================================
