--------------------------- MODULE CommandPathProofs ---------------------------
(***************************************************************************)
(* What a command does on its way through the loop, for every              *)
(* configuration, every set of commands, every fault and whatever a real   *)
(* gimbal's telemetry says.                                                *)
(***************************************************************************)
EXTENDS CommandPath, GimbalSimulatorProofs

\* The scaled value of a target lies in 0..1, wherever the target lies
\* (convert/to_cigi.rs:93-106).
LEMMA GainInRange ==
    ASSUME NEW c \in OrionCommands, NEW a \in Axes
    PROVE  GainOf(c, a) \in Gains
<1>1. c.target[a] \in Int /\ GainSteps \in Nat /\ FullScale(c.mode) \in Nat \ {0}
    BY ConversionAssumption, ServoAssumption, StopAssumption DEF OrionCmd, FullScale
<1>2. (c.target[a] * GainSteps) \div FullScale(c.mode) \in Int
    BY <1>1
<1>3. ASSUME NEW x \in Int PROVE Clamp(x, -GainSteps, GainSteps) \in -GainSteps..GainSteps
    BY <1>1 DEF Clamp
<1> QED
    BY <1>2, <1>3 DEF GainOf, Gains

\* Every Orion command becomes a SensorControl the simulator knows, with any camera and
\* the zoom it has (convert/to_cigi.rs:75-129).
LEMMA SensorControlTyped ==
    ASSUME NEW c \in OrionCommands, NEW cam \in Int, NEW z \in 0..ZoomSteps
    PROVE  ToSensorControl(c, cam, z) \in SensorControl
<1>1. [a \in Axes |-> GainOf(c, a)] \in [Axes -> Gains]
    BY GainInRange
<1>2. SensorState(c.mode) \in 0..4
    BY DEF SensorState
<1>3. ZoomSent(c, z) \in 0..ZoomSteps /\ CornerPoint \in Geopoints
    BY ConversionAssumption, CameraAssumption DEF ZoomSent
<1>4. Clamp(cam, 0, 2) \in Cameras
    BY DEF Clamp, Cameras
<1> QED
    BY <1>1, <1>2, <1>3, <1>4 DEF ToSensorControl, SensorControl

\* Before a tick the simulator has the mode of the last command and, in Track, its offset.
Applied ==
    (phase = "applied" /\ lastCmd # NoCommand /\ mode = "Track") =>
        /\ trackActive
        /\ trackTarget = [a \in Axes |-> GainOf(lastCmd, a)]

\* The inductive invariant of the path: a tick needs targets between the stops to keep
\* its types, and a track's report depends on what was applied just before it.
PathInv == PathTypeOK /\ TargetsWithinStops /\ Applied

LEMMA PathStart == PathInit => PathInv
<1> SUFFICES ASSUME PathInit PROVE PathInv
    OBVIOUS
<1>1. TypeOK /\ TargetsWithinStops
    BY MotionInit DEF PathInit, MotionInv
<1>2. Zero \in [Axes -> Int] /\ camera \in Int
    BY DEF Zero, PathInit, Init
<1> QED
    BY <1>1, <1>2 DEF PathInit, ReportsInit, PathInv, PathTypeOK, TypeOK, Applied

\* Applying the command keeps the types and prepares the tick (main.rs:168-172).
LEMMA ReapplyStep == PathInv /\ Reapply => PathInv'
<1> SUFFICES ASSUME PathInv, Reapply PROVE PathInv'
    OBVIOUS
<1>1. BodyTypeOK /\ camera \in Int /\ TargetsWithinStops
      /\ lastCmd \in OrionCommands \cup {NoCommand}
    BY DEF PathInv, PathTypeOK
<1>2. CASE lastCmd = NoCommand
    <2>1. UNCHANGED vars /\ lastCmd' = NoCommand
        BY <1>2 DEF Reapply
    <2>2. BodyTypeOK' /\ camera' \in Int /\ TargetsWithinStops'
        BY <1>1, <2>1 DEF vars, motion, aim, optics, BodyTypeOK, TargetsWithinStops, Stopped, Lo, Hi
    <2> QED
        BY <2>1, <2>2 DEF Reapply, reportVars, PathInv, PathTypeOK, Applied
<1>3. CASE lastCmd # NoCommand
    <2> DEFINE sc == ToSensorControl(lastCmd, camera, zoom)
    <2>1. sc \in SensorControl /\ ApplySensorControl(sc) /\ lastCmd' = lastCmd
        BY <1>1, <1>3, SensorControlTyped DEF Reapply, BodyTypeOK
    <2>2. sc.gain = [a \in Axes |-> GainOf(lastCmd, a)]
        BY DEF ToSensorControl
    <2> HIDE DEF sc
    <2>3. BodyTypeOK' /\ camera' \in Cameras /\ TargetsWithinStops'
        BY <1>1, <2>1, ControlStep
    <2>4. camera' \in Int
        BY <2>3 DEF Cameras
    <2>5. Applied'
        BY <2>1, <2>2 DEF ApplySensorControl, SetAim, Applied, GainOf, FullScale
    <2> QED
        BY <1>1, <2>1, <2>3, <2>4, <2>5 DEF Reapply, reportVars, PathInv, PathTypeOK
<1> QED
    BY <1>2, <1>3

LEMMA SimulateStep == PathInv /\ Simulate => PathInv'
<1> SUFFICES ASSUME PathInv, Simulate PROVE PathInv'
    OBVIOUS
<1>1. BodyTypeOK /\ TargetsWithinStops /\ Tick
    BY DEF PathInv, PathTypeOK, Simulate, ReportTick
<1>2. BodyTypeOK' /\ TargetsWithinStops' /\ camera' = camera
    BY <1>1, TickTypes DEF Tick, optics
<1>3. lookFrom' \in {<<>>} \cup ([Axes -> Int] \X Platforms)
    BY <1>2 DEF Simulate, ReportTick, BodyTypeOK
<1>4. Applied'
    BY DEF Simulate, Applied
<1> QED
    BY <1>2, <1>3, <1>4 DEF Simulate, ReportTick, PathInv, PathTypeOK

\* Faults and a real gimbal's telemetry come between two iterations and set no target.
LEMMA OutsideStep == PathInv /\ (Fault \/ HardwareReports) => PathInv'
<1>1. ASSUME PathInv, NEW f \in SUBSET AllFaults, SetFaults(f), frozen' \in [Axes -> Int],
             phase = "waiting", UNCHANGED <<lookFrom, lastCmd, phase>>
      PROVE  PathInv'
    <2>1. BodyTypeOK' /\ camera' \in Int /\ TargetsWithinStops'
        BY <1>1 DEF SetFaults, PathInv, PathTypeOK, BodyTypeOK, motion, aim, optics,
                    TargetsWithinStops, Stopped, Lo, Hi
    <2> QED
        BY <1>1, <2>1 DEF PathInv, PathTypeOK, Applied
<1>2. ASSUME PathInv, Fault PROVE PathInv'
    <2>1. faults \in SUBSET AllFaults /\ frozen \in [Axes -> Int] /\ Zero \in [Axes -> Int]
        BY <1>2 DEF PathInv, PathTypeOK, BodyTypeOK, Zero
    <2>2. PICK f \in SUBSET AllFaults : SetFaults(f)
        BY <1>2, <2>1, InputAssumption DEF Fault, FaultStep, InjectOne, Inject, ClearOne, Clear,
                                           ClearEvery
    <2>3. frozen' \in [Axes -> Int]
        BY <1>2, <2>1, HardwareAssumption DEF Fault, FaultStep, InjectOne, Inject, ClearOne,
                                              Clear, ClearEvery
    <2>4. phase = "waiting" /\ UNCHANGED <<lookFrom, lastCmd, phase>>
        BY <1>2 DEF Fault, FaultStep, InjectOne, Inject, ClearOne, Clear, ClearEvery
    <2> QED
        BY <1>1, <1>2, <2>2, <2>3, <2>4
<1>3. ASSUME PathInv, HardwareReports PROVE PathInv'
    <2>1. PICK h \in HardwarePackets : ApplyHardwareTelemetry(h)
        BY <1>3 DEF HardwareReports
    <2>2. /\ h.pos \in [Axes -> Int] /\ h.fov \in Cameras \X (0..ZoomSteps)
          /\ h.mode \in Modes /\ h.camera \in Int /\ h.platform \in Platforms
        BY HardwareAssumption DEF HardwarePacket
    <2>3. look' \in Looks /\ rayHit' \in BOOLEAN
        BY <1>3, <2>1 DEF ApplyHardwareTelemetry, CastRay, UpdateLook, PathInv, PathTypeOK,
                          BodyTypeOK, Looks
    <2>4. BodyTypeOK' /\ camera' \in Int /\ TargetsWithinStops'
        BY <1>3, <2>1, <2>2, <2>3
           DEF ApplyHardwareTelemetry, PathInv, PathTypeOK, BodyTypeOK, aim,
               TargetsWithinStops, Stopped, Lo, Hi
    <2>5. lookFrom' \in {<<>>} \cup ([Axes -> Int] \X Platforms)
        BY <2>1, <2>2 DEF ApplyHardwareTelemetry, CastRay
    <2> QED
        BY <1>3, <2>1, <2>4, <2>5
           DEF HardwareReports, ApplyHardwareTelemetry, PathInv, PathTypeOK, Applied
<1> QED
    BY <1>2, <1>3

LEMMA PathStep == PathInv /\ [PathNext]_pathVars => PathInv'
<1> SUFFICES ASSUME PathInv, [PathNext]_pathVars PROVE PathInv'
    OBVIOUS
<1>1. CASE TakeCommand
    <2>1. BodyTypeOK' /\ camera' \in Int /\ TargetsWithinStops'
        BY <1>1 DEF TakeCommand, PathInv, PathTypeOK, BodyTypeOK, vars, motion, aim, optics,
                    TargetsWithinStops, Stopped, Lo, Hi
    <2> QED
        BY <1>1, <2>1 DEF TakeCommand, PathInv, PathTypeOK, reportVars, Applied
<1>2. CASE UNCHANGED pathVars
    <2>1. BodyTypeOK' /\ camera' \in Int /\ TargetsWithinStops'
        BY <1>2 DEF pathVars, PathInv, PathTypeOK, BodyTypeOK, vars, motion, aim, optics,
                    TargetsWithinStops, Stopped, Lo, Hi
    <2> QED
        BY <1>2, <2>1 DEF pathVars, vars, aim, reportVars, PathInv, PathTypeOK, Applied, GainOf, FullScale
<1> QED
    BY <1>1, <1>2, ReapplyStep, SimulateStep, OutsideStep DEF PathNext

\* The state of the path is well typed, also when a real gimbal reports a camera that
\* the table does not have (simulator/mod.rs:666-686).
THEOREM PathTypeCorrect == PathSpec => []PathTypeOK
<1>1. PathSpec => []PathInv
    BY PathStart, PathStep, PTL DEF PathSpec
<1>2. PathInv => PathTypeOK
    BY DEF PathInv
<1> QED
    BY <1>1, <1>2, PTL

-------------------------------------------------------------------------------
\* A report never shows a ground point with the pose of another moment
\* (simulator/mod.rs:560-585, 666-713).
THEOREM LookIsFresh == PathSpec => []LookFresh
<1>1. PathInit => LookFresh
    BY DEF PathInit, Init, LookFresh
<1>2. LookFresh /\ [PathNext]_pathVars => LookFresh'
    <2> SUFFICES ASSUME LookFresh, [PathNext]_pathVars PROVE LookFresh'
        OBVIOUS
    <2>1. CASE UNCHANGED <<pos, platform, rayHit, lookFrom>>
        BY <2>1 DEF LookFresh
    <2>2. CASE TakeCommand \/ UNCHANGED pathVars
        BY <2>1, <2>2 DEF TakeCommand, pathVars, vars, motion, reportVars
    <2>3. CASE Reapply
        BY <2>1, <2>3 DEF Reapply, ApplySensorControl, vars, motion, reportVars
    <2>4. CASE Simulate
        BY <2>4 DEF Simulate, ReportTick, LookFresh
    <2>5. CASE Fault
        BY <2>1, <2>5 DEF Fault, FaultStep, InjectOne, Inject, ClearOne, Clear, ClearEvery,
                          SetFaults, motion
    <2>6. CASE HardwareReports
        BY <2>6 DEF HardwareReports, ApplyHardwareTelemetry, CastRay, LookFresh
    <2> QED
        BY <2>2, <2>3, <2>4, <2>5, <2>6 DEF PathNext
<1> QED
    BY <1>1, <1>2, PTL DEF PathSpec

-------------------------------------------------------------------------------
\* The loop hands the simulator's own camera and zoom back to it with every command, in
\* every mode, and changes neither (convert/to_cigi.rs:108-126, main.rs:168-172).
THEOREM OpticsAreKept == PathSpec => OpticsKept
<1>1. PathTypeOK /\ [PathNext]_pathVars =>
         [ (Reapply /\ camera \in Cameras) => UNCHANGED <<optics, blackout>> ]_pathVars
    <2> SUFFICES ASSUME PathTypeOK, Reapply, camera \in Cameras
                 PROVE  UNCHANGED <<optics, blackout>>
        OBVIOUS
    <2>1. CASE lastCmd = NoCommand
        BY <2>1 DEF Reapply, vars
    <2>2. CASE lastCmd # NoCommand
        <3> DEFINE sc == ToSensorControl(lastCmd, camera, zoom)
        <3>1. SelectOptics(sc)
            BY <2>2 DEF Reapply, ApplySensorControl
        <3>2. sc.sensorId = camera
            BY DEF ToSensorControl, Clamp, Cameras
        <3>3. ModeOf(sc) \in {"Position", "Rate"} => sc.zoom = zoom
            BY DEF ModeOf, ToSensorControl, SensorState, ZoomSent
        <3> HIDE DEF sc
        <3> QED
            BY <3>1, <3>2, <3>3 DEF SelectOptics, optics
    <2> QED
        BY <2>1, <2>2
<1> QED
    BY <1>1, PathTypeCorrect, PTL DEF PathSpec, OpticsKept

\* On the loop a gimbal in Track moves by the offset of the last command only
\* (main.rs:168, simulator/mod.rs:468-500).
THEOREM TracksTheCommand == PathSpec => TracksAsCommanded
<1>1. PathInv /\ [PathNext]_pathVars =>
         [ (Simulate /\ mode = "Track" /\ lastCmd # NoCommand /\ "motor_fault" \notin faults) =>
             \A a \in Axes :
                rate'[a] = GainOf(lastCmd, a) * FieldOfView[fov[1]][fov[2]][a] ]_pathVars
    <2> SUFFICES ASSUME PathInv, Simulate, mode = "Track", lastCmd # NoCommand,
                        "motor_fault" \notin faults, NEW a \in Axes
                 PROVE  rate'[a] = GainOf(lastCmd, a) * FieldOfView[fov[1]][fov[2]][a]
        OBVIOUS
    <2>1. trackActive /\ trackTarget[a] = GainOf(lastCmd, a)
        BY DEF PathInv, Applied, Simulate
    <2>2. FollowTrack
        BY <2>1 DEF Simulate, ReportTick, Tick, Motion, SlewToTarget, SlewAtRate,
                    SlewToGeopoint, CoastTrack, Idle
    <2> QED
        BY <2>1, <2>2 DEF FollowTrack, Move
<1>2. PathSpec => []PathInv
    BY PathStart, PathStep, PTL DEF PathSpec
<1> QED
    BY <1>1, <1>2, PTL DEF PathSpec, TracksAsCommanded

\* A controller is not told that it tracks when its offset lies beyond the threshold,
\* although every tick begins with an active track (main.rs:226-240).
THEOREM LossIsTold == PathSpec => LossTold
<1>1. PathInv /\ [PathNext]_pathVars =>
         [ (Simulate /\ lastCmd # NoCommand /\ "motor_fault" \notin faults
            /\ \E a \in Axes : Abs(GainOf(lastCmd, a)) > TrackLossThreshold) =>
               ToldMode' # "Track" ]_pathVars
    <2> SUFFICES ASSUME PathInv, Simulate, lastCmd # NoCommand, "motor_fault" \notin faults,
                        NEW a \in Axes, Abs(GainOf(lastCmd, a)) > TrackLossThreshold
                 PROVE  ToldMode' # "Track"
        OBVIOUS
    <2>1. mode' = mode
        BY DEF Simulate, ReportTick, Tick
    <2>2. CASE mode # "Track"
        BY <2>1, <2>2 DEF ToldMode, SensorStatus
    <2>3. CASE mode = "Track"
        <3>1. trackActive /\ trackTarget[a] = GainOf(lastCmd, a)
            BY <2>3 DEF PathInv, Applied, Simulate
        <3>2. FollowTrack
            BY <2>3, <3>1 DEF Simulate, ReportTick, Tick, Motion, SlewToTarget, SlewAtRate,
                              SlewToGeopoint, CoastTrack, Idle
        <3>3. GainOf(lastCmd, a) \in Int
            BY GainInRange, ServoAssumption DEF PathInv, PathTypeOK, Gains
        <3>4. ~(Abs(trackTarget[a]) <= TrackLossThreshold)
            BY <3>1, <3>3, CameraAssumption DEF Abs
        <3>5. trackActive' = FALSE
            BY <3>2, <3>4 DEF FollowTrack
        <3> QED
            BY <2>1, <2>3, <3>5 DEF ToldMode, SensorStatus
    <2> QED
        BY <2>2, <2>3
<1>2. PathSpec => []PathInv
    BY PathStart, PathStep, PTL DEF PathSpec
<1> QED
    BY <1>1, <1>2, PTL DEF PathSpec, LossTold

\* The pose that telemetry shows under an encoder fault is that of the injection,
\* whatever other faults come and go, and the true one when it is cleared
\* (faults.rs:62-110).
THEOREM EncoderIsHeld == PathSpec => EncoderHeld
<1>1. ASSUME PathNext, "encoder_fault" \in faults, "encoder_fault" \in faults',
             ~Inject("encoder_fault")
      PROVE  ToTelemetry'.pose = ToTelemetry.pose
    <2>1. frozen' = frozen
        <3>1. CASE TakeCommand \/ Reapply
            BY <3>1 DEF TakeCommand, Reapply, reportVars
        <3>2. CASE Simulate \/ HardwareReports
            BY <3>2 DEF Simulate, ReportTick, HardwareReports, ApplyHardwareTelemetry
        <3>3. CASE Fault
            BY <1>1, <3>3 DEF Fault, FaultStep, InjectOne, Inject, ClearOne, Clear, ClearEvery,
                              SetFaults
        <3> QED
            BY <1>1, <3>1, <3>2, <3>3 DEF PathNext
    <2>2. ToTelemetry.pose = Wrapped(frozen) /\ ToTelemetry'.pose = Wrapped(frozen)'
        BY <1>1 DEF ToTelemetry
    <2> QED
        BY <2>1, <2>2 DEF Wrapped
<1>2. ASSUME PathNext, "encoder_fault" \in faults, "encoder_fault" \notin faults'
      PROVE  ToTelemetry'.pose = Wrapped(pos)
    <2>1. CASE TakeCommand \/ Reapply
        BY <1>2, <2>1 DEF TakeCommand, Reapply, vars, ApplySensorControl
    <2>2. CASE Simulate \/ HardwareReports
        BY <1>2, <2>2 DEF Simulate, ReportTick, Tick, HardwareReports, ApplyHardwareTelemetry
    <2>3. CASE Fault
        <3>1. pos' = pos
            BY <2>3 DEF Fault, FaultStep, InjectOne, Inject, ClearOne, Clear, ClearEvery, SetFaults,
                        motion
        <3>2. ToTelemetry'.pose = Wrapped(pos)'
            BY <1>2 DEF ToTelemetry
        <3> QED
            BY <3>1, <3>2 DEF Wrapped
    <2> QED
        BY <1>2, <2>1, <2>2, <2>3 DEF PathNext
<1>3. [PathNext]_pathVars =>
         [ /\ ("encoder_fault" \in faults /\ "encoder_fault" \in faults' /\ ~Inject("encoder_fault"))
                  => ToTelemetry'.pose = ToTelemetry.pose
           /\ ("encoder_fault" \in faults /\ "encoder_fault" \notin faults')
                  => ToTelemetry'.pose = Wrapped(pos) ]_pathVars
    BY <1>1, <1>2
<1> QED
    BY <1>3, PTL DEF PathSpec, EncoderHeld
===============================================================================
