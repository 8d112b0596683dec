---------------------------- MODULE GimbalSimulator ----------------------------
(***************************************************************************)
(* The simulated gimbal of src/src/simulator/mod.rs: command handler,      *)
(* physics tick, fault flags, camera blackout and the gate on the reported *)
(* look-point.  Angles and rates are on the lattice of GimbalAxis; one     *)
(* Tick is one call of tick(dt).                                           *)
(*                                                                         *)
(* Abstracted: the geodesy (what the ray hits and the pan/tilt that a      *)
(* ground point needs are inputs of the model), jitter and noise, which    *)
(* never feed back into the motion.  The derivative term of the tracker is *)
(* left out because prev_track_x/y equal track_target whenever tick runs:  *)
(* both are written together at 252-256 and 497-499 and nowhere else.      *)
(***************************************************************************)
EXTENDS GimbalAxis

CONSTANTS
    MaxSlewRate,        \* config.max_slew_rate, steps per tick
    MaxAccel,           \* config.max_accel, steps per tick squared
    PanLimit,           \* config.pan_limit
    TiltMin, TiltMax,   \* config.tilt_min, config.tilt_max
    HalfTurn,           \* pi
    ContinuousPan,      \* config.is_continuous_pan()
    GainSteps,          \* gain/level are GainSteps lattice steps either side of 0.5
    SettleTolerance,    \* 0.01 rad
    TrackLossThreshold, \* config.track_loss_threshold, in gain steps
    ZoomSteps,          \* zoom_level 0..1 as 0..ZoomSteps
    FieldOfView,        \* [camera -> [zoom -> [axis -> track_p_gain * FOV per gain step]]]
    TrackRateBound,     \* the fastest rate the tracker can ask for
    GyroCoupling,       \* config.gyro_coupling_factor
    CameraSwitchFrames, \* CAMERA_SWITCH_FRAMES
    Geopoints,          \* the ground points a command can name
    Platforms,          \* the platform positions and attitudes
    InverseGeopoint,    \* [platform -> [geopoint -> [axis -> angle]]], geo::inverse_geopoint
    Commands,           \* the SensorControl packets that may arrive
    TurnBound,          \* bound: no input is taken with a continuous pan further out
    FaultKinds          \* the faults that may be injected

Axes == {"pan", "tilt"}
Cameras == 0..2
Gains == -GainSteps..GainSteps
Lo == [a \in Axes |-> IF a = "pan" THEN -PanLimit ELSE TiltMin]
Hi == [a \in Axes |-> IF a = "pan" THEN PanLimit ELSE TiltMax]

\* An axis with hard stops: every axis but a continuous pan.
Stopped(a) == ~(a = "pan" /\ ContinuousPan)

\* A received SensorControl.  ac_coupling and noise are read as a zoom level in
\* Position and Rate and as a ground point in Geopoint: one field for each reading.
SensorControl == [state : 0..4, rateBit : BOOLEAN, gain : [Axes -> Gains],
                  zoom : 0..ZoomSteps, geopoint : Geopoints, sensorId : Cameras]

AllFaults == {"gps_loss", "motor_fault", "imu_dropout", "thermal_warning",
              "degraded_gps", "encoder_fault", "laser_fault"}

ASSUME ServoAssumption ==
    /\ MaxSlewRate \in Nat /\ MaxSlewRate % 2 = 0
    /\ MaxAccel \in Nat \ {0}
    /\ GainSteps \in Nat \ {0}
    /\ MaxSlewRate % GainSteps = 0 /\ HalfTurn % GainSteps = 0

ASSUME StopAssumption ==
    /\ PanLimit \in Nat /\ HalfTurn \in Nat \ {0}
    /\ TiltMin \in Int /\ TiltMax \in Int /\ TiltMin <= 0 /\ 0 <= TiltMax
    /\ ContinuousPan \in BOOLEAN

ASSUME CameraAssumption ==
    /\ ZoomSteps \in Nat /\ CameraSwitchFrames \in Nat
    /\ SettleTolerance \in Nat /\ TrackLossThreshold \in Nat
    /\ TrackRateBound \in Nat /\ GyroCoupling \in Int
    /\ FieldOfView \in [Cameras -> [0..ZoomSteps -> [Axes -> Nat]]]
    /\ \A c \in Cameras, z \in 0..ZoomSteps, a \in Axes, g \in Gains :
          Abs(g * FieldOfView[c][z][a]) <= TrackRateBound

ASSUME InputAssumption ==
    /\ Geopoints # {} /\ Platforms # {}
    /\ InverseGeopoint \in [Platforms -> [Geopoints -> [Axes -> Int]]]
    /\ Commands \subseteq SensorControl
    /\ FaultKinds \subseteq AllFaults
    /\ TurnBound \in Nat

VARIABLES
    pos,         \* pan and tilt
    rate,        \* pan_rate and tilt_rate
    target,      \* target_pan and target_tilt
    rateCmd,     \* pan_rate_cmd and tilt_rate_cmd
    atLimit,     \* at_pan_limit and at_tilt_limit
    mode,
    geopoint,    \* geopoint_lat/lon/alt
    trackTarget, trackActive,
    camera, blackout,    \* camera_index, camera_switch_remaining
    zoom, fov,           \* zoom_level; the camera and zoom that hfov/vfov were computed for
    look, rayHit,        \* look_lat/lon/alt; slant_range_m > 0
    settled, faults, platform

motion == <<pos, rate>>
aim    == <<target, atLimit, rateCmd, geopoint, trackTarget>>
optics == <<camera, zoom, fov>>
vars   == <<motion, aim, optics, mode, trackActive, blackout, look, rayHit,
            settled, faults, platform>>

Modes == {"Disabled", "Position", "Rate", "Track", "Geopoint"}
Zero == [a \in Axes |-> 0]

\* The look-point: never computed, on the ground, or at 1000 km or more (look_alt >= 1e6).
Looks == {"unset", "ground", "space"}

Init ==
    /\ pos = Zero /\ rate = Zero /\ target = Zero /\ rateCmd = Zero
    /\ atLimit = [a \in Axes |-> FALSE]
    /\ mode = "Disabled"
    /\ geopoint \in Geopoints
    /\ trackTarget = Zero /\ trackActive = FALSE
    /\ camera = 0 /\ blackout = 0 /\ zoom = 0 /\ fov = <<0, 0>>
    /\ look = "unset" /\ rayHit = FALSE
    /\ settled = FALSE /\ faults = {}
    /\ platform \in Platforms

-------------------------------------------------------------------------------
\* set_target: a continuous pan takes the shortest way round, a stopped axis is
\* clamped and flagged.
TargetFor(raw) ==
    [a \in Axes |-> IF Stopped(a) THEN Clamp(raw[a], Lo[a], Hi[a])
                    ELSE pos[a] + WrapAngle(raw[a] - pos[a], HalfTurn)]
LimitFlags(raw) == [a \in Axes |-> Stopped(a) /\ (raw[a] < Lo[a] \/ raw[a] > Hi[a])]

SetTarget(raw) == target' = TargetFor(raw) /\ atLimit' = LimitFlags(raw)

ModeOf(sc) ==
    CASE sc.state = 0 -> "Disabled"
      [] sc.state = 2 -> "Track"
      [] sc.state = 4 -> "Geopoint"
      [] OTHER        -> IF sc.rateBit THEN "Rate" ELSE "Position"

\* The targets of a command, by mode.  Disabled shares the arm of Position (264-269).
SetAim(sc) ==
    LET m == ModeOf(sc)
    IN  /\ rateCmd' = IF m = "Rate"
                      THEN [a \in Axes |-> sc.gain[a] * (MaxSlewRate \div GainSteps)]
                      ELSE rateCmd
        /\ trackTarget' = IF m = "Track" THEN sc.gain ELSE trackTarget
        /\ trackActive' = (m = "Track" \/ trackActive)
        /\ geopoint' = IF m = "Geopoint" THEN sc.geopoint ELSE geopoint
        /\ IF m \in {"Position", "Disabled"}
           THEN SetTarget([a \in Axes |-> sc.gain[a] * (HalfTurn \div GainSteps)])
           ELSE UNCHANGED <<target, atLimit>>

\* Mutant: a camera switch shows the wide end, whatever the zoom.
SelectOpticsWide(sc) ==
    /\ zoom' = IF ModeOf(sc) \in {"Position", "Rate"} THEN sc.zoom ELSE zoom
    /\ camera' = sc.sensorId
    /\ blackout' = IF camera' # camera THEN CameraSwitchFrames ELSE blackout
    /\ fov' = IF camera' # camera THEN <<camera', 0>>
              ELSE IF zoom' # zoom THEN <<camera', zoom'>> ELSE fov

\* Mutant: every command restarts the blackout.
SelectOpticsRestart(sc) ==
    /\ zoom' = IF ModeOf(sc) \in {"Position", "Rate"} THEN sc.zoom ELSE zoom
    /\ camera' = sc.sensorId
    /\ blackout' = CameraSwitchFrames
    /\ fov' = <<camera', zoom'>>

\* Zoom first (with the camera still selected), then the camera: a switch restarts
\* the blackout and recomputes the field of view with the zoom just applied.
SelectOptics(sc) ==
    /\ zoom' = IF ModeOf(sc) \in {"Position", "Rate"} THEN sc.zoom ELSE zoom
    /\ camera' = sc.sensorId
    /\ blackout' = IF camera' # camera THEN CameraSwitchFrames ELSE blackout
    /\ fov' = IF camera' # camera \/ zoom' # zoom THEN <<camera', zoom'>> ELSE fov

ApplySensorControl(sc) ==
    /\ mode' = ModeOf(sc)
    /\ SetAim(sc)
    /\ SelectOptics(sc)
    /\ UNCHANGED <<motion, look, rayHit, settled, faults, platform>>

ApplyEntityControl(p) ==
    /\ platform' = p
    /\ UNCHANGED <<motion, aim, optics, mode, trackActive, blackout, look, rayHit,
                   settled, faults>>

-------------------------------------------------------------------------------
\* Mutant: a thermal warning changes nothing.
EffectiveSlewRateHot == MaxSlewRate

EffectiveSlewRate ==
    IF "thermal_warning" \in faults THEN MaxSlewRate \div 2 ELSE MaxSlewRate

\* The gyro coupling is added after every clamp of the motion.
Move(p, r) ==
    LET coupling == GyroCoupling * r["pan"] * r["tilt"]
    IN  /\ rate' = r
        /\ pos' = IF GyroCoupling = 0 THEN p
                  ELSE [a \in Axes |-> IF a = "pan" THEN p[a] + coupling
                                       ELSE p[a] - coupling]

AtStops(p) == [a \in Axes |-> IF Stopped(a) THEN Clamp(p[a], Lo[a], Hi[a]) ELSE p[a]]

\* tick_axis_trap on both axes, toward goal, each at most at its own rate.
Servo(goal, maxRate) ==
    LET axis == [a \in Axes |->
                    TickAxisTrap(pos[a], rate[a], goal[a], maxRate[a], MaxAccel)]
    IN  Move([a \in Axes |-> axis[a].pos], [a \in Axes |-> axis[a].rate])

HoldStill == Move(pos, Zero)

SlewToTarget ==
    /\ mode = "Position"
    /\ Servo(target, [a \in Axes |-> EffectiveSlewRate])
    /\ UNCHANGED <<target, atLimit, trackActive>>

SlewAtRate ==
    /\ mode = "Rate"
    /\ LET cmd(a) == Clamp(rateCmd[a], -EffectiveSlewRate, EffectiveSlewRate)
           r == [a \in Axes |-> RampRate(rate[a], cmd(a), MaxAccel)]
       IN  Move(AtStops([a \in Axes |-> pos[a] + r[a]]), r)
    /\ UNCHANGED <<target, atLimit, trackActive>>

\* Both axes off target (by 1 mrad): the nearer one is slowed in proportion, so that
\* they arrive together.  The quotient is rounded up to the lattice.
CoordinatedRates(goal) ==
    LET err == [a \in Axes |-> Abs(goal[a] - pos[a])]
        far == IF err["pan"] > err["tilt"] THEN err["pan"] ELSE err["tilt"]
    IN  [a \in Axes |-> IF \E b \in Axes : err[b] = 0
                        THEN EffectiveSlewRate
                        ELSE (err[a] * EffectiveSlewRate + far - 1) \div far]

SlewToGeopoint ==
    /\ mode = "Geopoint"
    /\ SetTarget(InverseGeopoint[platform][geopoint])
    /\ Servo(target', CoordinatedRates(target'))
    /\ UNCHANGED trackActive

\* The tracker's loss test also reads a confidence that depends on the slant range,
\* an input of the model; an offset beyond the threshold always loses the track.
FollowTrack ==
    /\ mode = "Track" /\ trackActive
    /\ LET r == [a \in Axes |-> trackTarget[a] * FieldOfView[fov[1]][fov[2]][a]]
       IN  Move(AtStops([a \in Axes |-> pos[a] + r[a]]), r)
    /\ \E confident \in BOOLEAN :
          trackActive' = (confident
                          /\ \A a \in Axes : Abs(trackTarget[a]) <= TrackLossThreshold)
    /\ UNCHANGED <<target, atLimit>>

\* A lost track leaves the rates as they were and the gimbal where it is; only the
\* gyro coupling of those stale rates still moves it.
CoastTrack ==
    /\ mode = "Track" /\ ~trackActive
    /\ Move(pos, rate)
    /\ UNCHANGED <<target, atLimit, trackActive>>

Idle ==
    /\ mode = "Disabled"
    /\ HoldStill
    /\ UNCHANGED <<target, atLimit, trackActive>>

MotorStopped ==
    /\ HoldStill
    /\ UNCHANGED <<target, atLimit, trackActive>>

Motion ==
    IF "motor_fault" \in faults
    THEN MotorStopped
    ELSE SlewToTarget \/ SlewAtRate \/ SlewToGeopoint \/ FollowTrack \/ CoastTrack \/ Idle

\* Mutant: Geopoint is left out.
DetectSettledPosition ==
    settled' = /\ mode = "Position"
               /\ \A a \in Axes : Abs(pos'[a] - target'[a]) < SettleTolerance

DetectSettled ==
    settled' = /\ mode \in {"Position", "Geopoint"}
               /\ \A a \in Axes : Abs(pos'[a] - target'[a]) < SettleTolerance

\* A miss zeroes the slant range and keeps the last look-point (583-585).
UpdateLook ==
    \E hit \in BOOLEAN :
       /\ rayHit' = hit
       /\ IF hit THEN look' \in {"ground", "space"} ELSE look' = look

\* Mutant: the countdown does not stop at zero.
BlackoutLeftEndless == blackout - 1

BlackoutLeft == IF blackout > 0 THEN blackout - 1 ELSE 0

Tick ==
    /\ Motion
    /\ blackout' = BlackoutLeft
    /\ DetectSettled
    /\ UpdateLook
    /\ UNCHANGED <<rateCmd, geopoint, trackTarget, optics, mode, faults, platform>>

-------------------------------------------------------------------------------
\* The fault API of src/src/faults.rs.
SetFaults(f) ==
    /\ faults' = f
    /\ UNCHANGED <<motion, aim, optics, mode, trackActive, blackout, look, rayHit,
                   settled, platform>>

InjectFault == \E f \in FaultKinds \ faults : SetFaults(faults \cup {f})
ClearFault  == \E f \in faults : SetFaults(faults \ {f})
ClearAll    == faults # {} /\ SetFaults({})

\* Bound of the model: a continuous pan counts whole turns without end.
WithinTurns == Stopped("pan") \/ Abs(pos["pan"]) <= TurnBound

ReceiveControl == WithinTurns /\ \E sc \in Commands : ApplySensorControl(sc)
MovePlatform == WithinTurns /\ \E p \in Platforms : ApplyEntityControl(p)

Next == ReceiveControl \/ MovePlatform \/ Tick \/ InjectFault \/ ClearFault \/ ClearAll

Spec == Init /\ [][Next]_vars

\* The tick is driven by a 50 Hz timer that nothing in the simulator can hold up.
FairSpec == Spec /\ WF_vars(Tick)

-------------------------------------------------------------------------------
\* What to_sensor_extended_response reports (851-902).
ReportedLook ==
    IF blackout > 0 \/ look = "space" \/ "gps_loss" \in faults THEN "suppressed" ELSE look

-------------------------------------------------------------------------------
\* All but the camera, which the telemetry of a real gimbal can set to any number.
BodyTypeOK ==
    /\ pos \in [Axes -> Int] /\ rate \in [Axes -> Int]
    /\ target \in [Axes -> Int] /\ rateCmd \in [Axes -> Int]
    /\ atLimit \in [Axes -> BOOLEAN]
    /\ mode \in Modes
    /\ geopoint \in Geopoints
    /\ trackTarget \in [Axes -> Gains] /\ trackActive \in BOOLEAN
    /\ blackout \in 0..CameraSwitchFrames
    /\ zoom \in 0..ZoomSteps /\ fov \in Cameras \X (0..ZoomSteps)
    /\ look \in Looks /\ rayHit \in BOOLEAN
    /\ settled \in BOOLEAN /\ faults \in SUBSET AllFaults
    /\ platform \in Platforms

TypeOK == BodyTypeOK /\ camera \in Cameras

\* The fastest the gimbal ever moves: servo and rate mode keep to max_slew_rate, the
\* tracker to its own gain.
RateBound == IF MaxSlewRate > TrackRateBound THEN MaxSlewRate ELSE TrackRateBound

(***************************************************************************)
(* The hard stops are not a barrier for the servo: rate mode leaves the    *)
(* rate of an axis standing on its stop as it was, and the servo of a      *)
(* position command issued then starts by moving that axis outwards        *)
(* (simulator/mod.rs:413-416, 619-630).  This bounds the damage: an axis   *)
(* beyond a stop, or about to go there, never has more energy than one     *)
(* stop from full speed takes, so it never gets further out than that      *)
(* stopping distance.                                                      *)
(***************************************************************************)
HardStopExcursion ==
    GyroCoupling = 0 =>
       \A a \in Axes : Stopped(a) =>
          /\ Abs(rate[a]) <= RateBound
          /\ StopEnergy(pos[a], rate[a], Lo[a], Hi[a], MaxAccel) <= RateBound * RateBound

(***************************************************************************)
(* What simulator/mod.rs:4 and the README promise: a stopped axis stays    *)
(* between its hard stops.                                                 *)
(***************************************************************************)
WithinHardStops == \A a \in Axes : Stopped(a) => Lo[a] <= pos[a] /\ pos[a] <= Hi[a]

(***************************************************************************)
(* Under a thermal warning no tick of the servo or of rate mode leaves an  *)
(* axis faster than half the slew rate, unless it was already faster and   *)
(* has slowed by the full deceleration (simulator/mod.rs:374-378).         *)
(***************************************************************************)
ThermalThrottle ==
    [][ (Tick /\ "thermal_warning" \in faults /\ mode # "Track") =>
          \A a \in Axes : \/ Abs(rate'[a]) <= MaxSlewRate \div 2
                          \/ Abs(rate'[a]) <= Abs(rate[a]) - MaxAccel ]_vars

(***************************************************************************)
(* A tick of the position servo never carries an axis across its target    *)
(* ("Overshoots are clamped to target exactly", simulator/mod.rs:633-639), *)
(* whatever speed and direction an earlier mode left behind.               *)
(***************************************************************************)
NeverAcross ==
    [][ (Tick /\ mode = "Position" /\ GyroCoupling = 0) =>
          \A a \in Axes : (target[a] - pos[a]) * (target[a] - pos'[a]) >= 0 ]_vars

(***************************************************************************)
(* Once the inputs stop, a gimbal in Position or Geopoint mode with a      *)
(* working motor settles and stays settled: from any speed, direction and  *)
(* excursion that the commands and faults before left it in                *)
(* (simulator/mod.rs:382-400, 419-466, 528-534).                           *)
(***************************************************************************)
EventuallySettles ==
    <>[][Tick]_vars =>
       <>[](mode \in {"Position", "Geopoint"} /\ "motor_fault" \notin faults => settled)

(***************************************************************************)
(* The cached field of view is that of the selected camera at the current  *)
(* zoom, however camera switches and zoom commands are combined            *)
(* (simulator/mod.rs:272-287, 336-354).                                    *)
(***************************************************************************)
FovCurrent == fov = <<camera, zoom>>

(***************************************************************************)
(* A camera switch blacks the look-point out for a while only: when the    *)
(* camera is not switched again the blackout ends, although the event loop *)
(* applies the last command again before every tick (main.rs:168-172).     *)
(***************************************************************************)
BlackoutEnds == <>[][camera' = camera]_vars => <>[](blackout = 0)
===============================================================================
