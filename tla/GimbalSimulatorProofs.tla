------------------------- MODULE GimbalSimulatorProofs -------------------------
(***************************************************************************)
(* Safety of the simulated gimbal, for every configuration, every set of   *)
(* commands and every platform motion.                                     *)
(***************************************************************************)
EXTENDS GimbalSimulator, GimbalAxisProofs

\* The stops and the rate bound are what their names say.
LEMMA Limits ==
    /\ \A a \in Axes : Lo[a] \in Int /\ Hi[a] \in Int /\ Lo[a] <= Hi[a]
    /\ \A a \in Axes : Lo[a] <= 0 /\ 0 <= Hi[a]
    /\ RateBound \in Nat /\ MaxSlewRate <= RateBound /\ TrackRateBound <= RateBound
BY ServoAssumption, StopAssumption, CameraAssumption DEF Lo, Hi, Axes, RateBound

\* The thermal throttle halves the slew rate (simulator/mod.rs:374-378).
LEMMA SlewRates ==
    /\ EffectiveSlewRate \in Nat /\ EffectiveSlewRate <= MaxSlewRate
    /\ "thermal_warning" \in faults => EffectiveSlewRate <= MaxSlewRate \div 2
BY ServoAssumption DEF EffectiveSlewRate

\* The slower axis of a coordinated slew keeps to the slew rate (simulator/mod.rs:437-448).
LEMMA ProportionalRate ==
    ASSUME NEW e \in Nat, NEW far \in Nat \ {0}, NEW S \in Nat, e <= far
    PROVE  (e * S + far - 1) \div far \in 0..S
<1> DEFINE n == e * S + far - 1
           q == n \div far
<1>1. e * S <= far * S /\ e * S >= 0
    OBVIOUS
<1>2. n \in Nat /\ n < far * S + far
    BY <1>1
<1>3. q \in Int /\ far * q <= n /\ n < far * q + far
    BY <1>2
<1>4. q >= 0
    BY <1>2, <1>3
<1>5. q <= S
    <2>1. SUFFICES ASSUME q >= S + 1 PROVE FALSE
        BY <1>3
    <2>2. far * q >= far * (S + 1)
        BY <2>1, <1>3
    <2>3. far * (S + 1) = far * S + far
        OBVIOUS
    <2> QED
        BY <2>2, <2>3, <1>2, <1>3
<1> QED
    BY <1>3, <1>4, <1>5

LEMMA Coordinated ==
    ASSUME NEW goal \in [Axes -> Int], pos \in [Axes -> Int]
    PROVE  CoordinatedRates(goal) \in [Axes -> 0..EffectiveSlewRate]
<1> DEFINE err == [a \in Axes |-> Abs(goal[a] - pos[a])]
           far == IF err["pan"] > err["tilt"] THEN err["pan"] ELSE err["tilt"]
<1>1. err \in [Axes -> Nat]
    BY DEF Abs
<1>2. \A a \in Axes : err[a] <= far
    BY <1>1 DEF Axes
<1>3. EffectiveSlewRate \in Nat
    BY SlewRates
<1>4. ASSUME NEW a \in Axes, \A b \in Axes : err[b] # 0
      PROVE  (err[a] * EffectiveSlewRate + far - 1) \div far \in 0..EffectiveSlewRate
    <2>1. far \in Nat \ {0} /\ err[a] \in Nat /\ err[a] <= far
        BY <1>1, <1>2, <1>4 DEF Axes
    <2> HIDE DEF err, far
    <2> QED
        BY <2>1, <1>3, ProportionalRate
<1>5. CoordinatedRates(goal) =
         [a \in Axes |-> IF \E b \in Axes : err[b] = 0 THEN EffectiveSlewRate
                         ELSE (err[a] * EffectiveSlewRate + far - 1) \div far]
    BY DEF CoordinatedRates
<1> HIDE DEF err, far
<1> QED
    BY <1>3, <1>4, <1>5

\* A target is an angle, and for a stopped axis an angle between its stops
\* (set_target, simulator/mod.rs:321-334).
LEMMA TargetBounds ==
    ASSUME NEW raw \in [Axes -> Int], pos \in [Axes -> Int]
    PROVE  /\ TargetFor(raw) \in [Axes -> Int]
           /\ \A a \in Axes : Stopped(a) => Lo[a] <= TargetFor(raw)[a] /\ TargetFor(raw)[a] <= Hi[a]
           /\ LimitFlags(raw) \in [Axes -> BOOLEAN]
<1>1. ASSUME NEW a \in Axes
      PROVE  /\ Clamp(raw[a], Lo[a], Hi[a]) \in Int
             /\ Lo[a] <= Clamp(raw[a], Lo[a], Hi[a]) /\ Clamp(raw[a], Lo[a], Hi[a]) <= Hi[a]
    BY Limits, ClampBounds
<1>2. ASSUME NEW x \in Int PROVE WrapAngle(x, HalfTurn) \in Int
    BY StopAssumption DEF WrapAngle
<1>3. ASSUME NEW a \in Axes PROVE pos[a] + WrapAngle(raw[a] - pos[a], HalfTurn) \in Int
    BY <1>2
<1> QED
    BY <1>1, <1>3 DEF TargetFor, LimitFlags, Stopped

\* The targets of a stopped axis are between its stops.
TargetsWithinStops ==
    \A a \in Axes : Stopped(a) => Lo[a] <= target[a] /\ target[a] <= Hi[a]

\* A command changes targets, mode and optics and leaves the motion alone
\* (simulator/mod.rs:228-287).
LEMMA ControlStep ==
    ASSUME BodyTypeOK, TargetsWithinStops, NEW sc \in SensorControl, ApplySensorControl(sc)
    PROVE  BodyTypeOK' /\ camera' \in Cameras /\ TargetsWithinStops' /\ UNCHANGED motion
<1>2. /\ sc.gain \in [Axes -> Gains] /\ sc.zoom \in 0..ZoomSteps
      /\ sc.geopoint \in Geopoints /\ sc.sensorId \in Cameras
    BY DEF SensorControl
<1>3. mode' \in Modes
    BY DEF ApplySensorControl, ModeOf, Modes
<1>4. ASSUME NEW a \in Axes
      PROVE  /\ sc.gain[a] \in Int
             /\ sc.gain[a] * (MaxSlewRate \div GainSteps) \in Int
             /\ sc.gain[a] * (HalfTurn \div GainSteps) \in Int
    <2>1. sc.gain[a] \in Int
        BY <1>2, ServoAssumption DEF Gains
    <2>2. MaxSlewRate \div GainSteps \in Int /\ HalfTurn \div GainSteps \in Int
        BY ServoAssumption, StopAssumption
    <2> QED
        BY <2>1, <2>2
<1>5. [a \in Axes |-> sc.gain[a] * (HalfTurn \div GainSteps)] \in [Axes -> Int]
    BY <1>4
<1>6. /\ target' \in [Axes -> Int] /\ atLimit' \in [Axes -> BOOLEAN]
      /\ TargetsWithinStops'
    <2>1. CASE UNCHANGED <<target, atLimit>>
        BY <2>1 DEF BodyTypeOK, TargetsWithinStops, Stopped, Lo, Hi
    <2>2. CASE SetTarget([a \in Axes |-> sc.gain[a] * (HalfTurn \div GainSteps)])
        <3> DEFINE raw == [a \in Axes |-> sc.gain[a] * (HalfTurn \div GainSteps)]
        <3>1. pos \in [Axes -> Int]
            BY DEF BodyTypeOK
        <3>2. target' = TargetFor(raw) /\ atLimit' = LimitFlags(raw)
            BY <2>2 DEF SetTarget
        <3> HIDE DEF raw
        <3> QED
            BY <1>5, <3>1, <3>2, TargetBounds DEF TargetsWithinStops, Stopped, Lo, Hi, raw
    <2> QED
        BY <2>1, <2>2 DEF ApplySensorControl, SetAim
<1>7. /\ rateCmd' \in [Axes -> Int] /\ trackTarget' \in [Axes -> Gains]
      /\ trackActive' \in BOOLEAN /\ geopoint' \in Geopoints
    BY <1>2, <1>4 DEF ApplySensorControl, SetAim, BodyTypeOK
<1>8. /\ zoom' \in 0..ZoomSteps /\ camera' \in Cameras
      /\ blackout' \in 0..CameraSwitchFrames /\ fov' \in Cameras \X (0..ZoomSteps)
    BY <1>2, CameraAssumption DEF ApplySensorControl, SelectOptics, BodyTypeOK
<1> QED
    BY <1>3, <1>6, <1>7, <1>8 DEF ApplySensorControl, BodyTypeOK, motion

\* Without gyro coupling a motion is the angles and rates its mode computes
\* (simulator/mod.rs:518-525).
LEMMA MoveResult ==
    ASSUME NEW p \in [Axes -> Int], NEW r \in [Axes -> Int], Move(p, r)
    PROVE  /\ pos' \in [Axes -> Int] /\ rate' \in [Axes -> Int]
           /\ GyroCoupling = 0 => pos' = p /\ rate' = r
<1>1. GyroCoupling * r["pan"] * r["tilt"] \in Int
    BY CameraAssumption DEF Axes
<1> QED
    BY <1>1 DEF Move

\* A tick of the servo on both axes, whatever limits it is given within the slew rate.
LEMMA ServoResult ==
    ASSUME NEW goal \in [Axes -> Int], NEW maxRate \in [Axes -> 0..EffectiveSlewRate],
           pos \in [Axes -> Int], rate \in [Axes -> Int], Servo(goal, maxRate)
    PROVE  /\ pos' \in [Axes -> Int] /\ rate' \in [Axes -> Int]
           /\ GyroCoupling = 0 => \A a \in Axes :
                LET next == TickAxisTrap(pos[a], rate[a], goal[a], maxRate[a], MaxAccel)
                IN  pos'[a] = next.pos /\ rate'[a] = next.rate
<1> DEFINE axis == [a \in Axes |->
                       TickAxisTrap(pos[a], rate[a], goal[a], maxRate[a], MaxAccel)]
<1>1. ASSUME NEW a \in Axes PROVE axis[a].pos \in Int /\ axis[a].rate \in Int
    <2>1. maxRate[a] \in Nat
        BY SlewRates
    <2> QED
        BY <2>1, ServoBounds, ServoAssumption
<1>2. Move([a \in Axes |-> axis[a].pos], [a \in Axes |-> axis[a].rate])
    BY DEF Servo
<1>3. /\ pos' \in [Axes -> Int] /\ rate' \in [Axes -> Int]
      /\ GyroCoupling = 0 => \A a \in Axes : pos'[a] = axis[a].pos /\ rate'[a] = axis[a].rate
    <2> HIDE DEF axis
    <2> QED
        BY <1>1, <1>2, MoveResult
<1> QED
    BY <1>3

\* What one motion does to one axis: the servo runs toward a target, a rate of at most
\* the gimbal's fastest carries a stopped axis up to its stops, the axis stops where it
\* is, or it keeps a rate it had (simulator/mod.rs:380-511).
AxisStep(a) ==
    \/ \E m \in 0..EffectiveSlewRate :
          LET next == TickAxisTrap(pos[a], rate[a], target'[a], m, MaxAccel)
          IN  pos'[a] = next.pos /\ rate'[a] = next.rate
    \/ /\ Abs(rate'[a]) <= RateBound \/ Abs(rate'[a]) <= Abs(rate[a]) - MaxAccel
       /\ Stopped(a) => Lo[a] <= pos'[a] /\ pos'[a] <= Hi[a]
    \/ pos'[a] = pos[a] /\ rate'[a] = 0
    \/ pos'[a] = pos[a] /\ rate'[a] = rate[a]

LEMMA StopsClamp ==
    ASSUME NEW p \in [Axes -> Int]
    PROVE  /\ AtStops(p) \in [Axes -> Int]
           /\ \A a \in Axes : Stopped(a) => Lo[a] <= AtStops(p)[a] /\ AtStops(p)[a] <= Hi[a]
BY Limits, ClampBounds DEF AtStops

LEMMA SlewToTargetStep ==
    ASSUME BodyTypeOK, TargetsWithinStops, SlewToTarget
    PROVE  /\ pos' \in [Axes -> Int] /\ rate' \in [Axes -> Int]
           /\ target' \in [Axes -> Int] /\ atLimit' \in [Axes -> BOOLEAN]
           /\ trackActive' \in BOOLEAN /\ TargetsWithinStops'
           /\ GyroCoupling = 0 => \A a \in Axes : AxisStep(a)
<1> DEFINE limit == [a \in Axes |-> EffectiveSlewRate]
<1>1. Servo(target, limit) /\ UNCHANGED <<target, atLimit, trackActive>>
    BY DEF SlewToTarget
<1>2. limit \in [Axes -> 0..EffectiveSlewRate]
    BY SlewRates
<1> HIDE DEF limit
<1>3. /\ pos' \in [Axes -> Int] /\ rate' \in [Axes -> Int]
      /\ GyroCoupling = 0 => \A a \in Axes :
           LET next == TickAxisTrap(pos[a], rate[a], target[a], limit[a], MaxAccel)
           IN  pos'[a] = next.pos /\ rate'[a] = next.rate
    BY <1>1, <1>2, ServoResult DEF BodyTypeOK
<1>4. GyroCoupling = 0 => \A a \in Axes : AxisStep(a)
    BY <1>1, <1>2, <1>3 DEF AxisStep
<1> QED
    BY <1>1, <1>3, <1>4 DEF BodyTypeOK, TargetsWithinStops, Stopped, Lo, Hi

LEMMA SlewToGeopointStep ==
    ASSUME BodyTypeOK, TargetsWithinStops, SlewToGeopoint
    PROVE  /\ pos' \in [Axes -> Int] /\ rate' \in [Axes -> Int]
           /\ target' \in [Axes -> Int] /\ atLimit' \in [Axes -> BOOLEAN]
           /\ trackActive' \in BOOLEAN /\ TargetsWithinStops'
           /\ GyroCoupling = 0 => \A a \in Axes : AxisStep(a)
<1> DEFINE raw == InverseGeopoint[platform][geopoint]
           limit == CoordinatedRates(target')
<1>1. /\ target' = TargetFor(raw) /\ atLimit' = LimitFlags(raw)
      /\ Servo(target', limit) /\ UNCHANGED trackActive
    BY DEF SlewToGeopoint, SetTarget
<1>2. raw \in [Axes -> Int]
    BY InputAssumption DEF BodyTypeOK
<1>3. pos \in [Axes -> Int] /\ rate \in [Axes -> Int]
    BY DEF BodyTypeOK
<1> HIDE DEF raw
<1>4. /\ target' \in [Axes -> Int] /\ atLimit' \in [Axes -> BOOLEAN] /\ TargetsWithinStops'
    BY <1>1, <1>2, <1>3, TargetBounds DEF TargetsWithinStops, Stopped, Lo, Hi
<1>5. limit \in [Axes -> 0..EffectiveSlewRate]
    BY <1>3, <1>4, Coordinated
<1> HIDE DEF limit
<1>6. /\ pos' \in [Axes -> Int] /\ rate' \in [Axes -> Int]
      /\ GyroCoupling = 0 => \A a \in Axes :
           LET next == TickAxisTrap(pos[a], rate[a], target'[a], limit[a], MaxAccel)
           IN  pos'[a] = next.pos /\ rate'[a] = next.rate
    BY <1>1, <1>3, <1>4, <1>5, ServoResult
<1>7. GyroCoupling = 0 => \A a \in Axes : AxisStep(a)
    BY <1>5, <1>6 DEF AxisStep
<1> QED
    BY <1>1, <1>4, <1>6, <1>7 DEF BodyTypeOK

LEMMA SlewAtRateStep ==
    ASSUME BodyTypeOK, SlewAtRate
    PROVE  /\ pos' \in [Axes -> Int] /\ rate' \in [Axes -> Int]
           /\ GyroCoupling = 0 => \A a \in Axes : AxisStep(a)
<1> DEFINE cmd(a) == Clamp(rateCmd[a], -EffectiveSlewRate, EffectiveSlewRate)
           r == [a \in Axes |-> RampRate(rate[a], cmd(a), MaxAccel)]
           p == AtStops([a \in Axes |-> pos[a] + r[a]])
<1>1. ASSUME NEW a \in Axes
      PROVE  /\ r[a] \in Int
             /\ Abs(r[a]) <= RateBound \/ Abs(r[a]) <= Abs(rate[a]) - MaxAccel
    <2>1. rate[a] \in Int /\ rateCmd[a] \in Int /\ MaxAccel \in Nat
        BY ServoAssumption DEF BodyTypeOK
    <2>2. EffectiveSlewRate \in Nat /\ EffectiveSlewRate <= RateBound /\ RateBound \in Nat
        BY SlewRates, Limits, ServoAssumption
    <2>3. cmd(a) \in Int /\ Abs(cmd(a)) <= RateBound
        <3>1. /\ cmd(a) \in Int
              /\ -EffectiveSlewRate <= cmd(a) /\ cmd(a) <= EffectiveSlewRate
            BY <2>1, <2>2 DEF Clamp
        <3> HIDE DEF cmd
        <3> QED
            BY <3>1, <2>2 DEF Abs
    <2> HIDE DEF cmd
    <2> QED
        BY <2>1, <2>2, <2>3, RampBounds
<1>2. Move(p, r)
    BY DEF SlewAtRate
<1>3. [a \in Axes |-> pos[a] + r[a]] \in [Axes -> Int] /\ r \in [Axes -> Int]
    BY <1>1 DEF BodyTypeOK
<1> HIDE DEF r
<1>4. /\ p \in [Axes -> Int]
      /\ \A a \in Axes : Stopped(a) => Lo[a] <= p[a] /\ p[a] <= Hi[a]
    BY <1>3, StopsClamp
<1> HIDE DEF p
<1> QED
    BY <1>1, <1>2, <1>3, <1>4, MoveResult DEF AxisStep

LEMMA FollowTrackStep ==
    ASSUME BodyTypeOK, FollowTrack
    PROVE  /\ pos' \in [Axes -> Int] /\ rate' \in [Axes -> Int]
           /\ GyroCoupling = 0 => \A a \in Axes : AxisStep(a)
<1> DEFINE r == [a \in Axes |-> trackTarget[a] * FieldOfView[fov[1]][fov[2]][a]]
           p == AtStops([a \in Axes |-> pos[a] + r[a]])
<1>1. ASSUME NEW a \in Axes PROVE r[a] \in Int /\ Abs(r[a]) <= RateBound
    <2>1. trackTarget[a] \in Gains /\ fov[1] \in Cameras /\ fov[2] \in 0..ZoomSteps
        BY DEF BodyTypeOK
    <2>2. /\ FieldOfView[fov[1]][fov[2]][a] \in Nat
          /\ Abs(trackTarget[a] * FieldOfView[fov[1]][fov[2]][a]) <= TrackRateBound
        BY <2>1, CameraAssumption
    <2>3. r[a] \in Int
        BY <2>1, <2>2, ServoAssumption DEF Gains
    <2>4. r[a] = trackTarget[a] * FieldOfView[fov[1]][fov[2]][a]
        OBVIOUS
    <2> HIDE DEF r
    <2> QED
        BY <2>2, <2>3, <2>4, Limits, CameraAssumption DEF Abs
<1>2. Move(p, r)
    BY DEF FollowTrack
<1>3. [a \in Axes |-> pos[a] + r[a]] \in [Axes -> Int] /\ r \in [Axes -> Int]
    BY <1>1 DEF BodyTypeOK
<1> HIDE DEF r
<1>4. /\ p \in [Axes -> Int]
      /\ \A a \in Axes : Stopped(a) => Lo[a] <= p[a] /\ p[a] <= Hi[a]
    BY <1>3, StopsClamp
<1> HIDE DEF p
<1> QED
    BY <1>1, <1>2, <1>3, <1>4, MoveResult DEF AxisStep

LEMMA RestStep ==
    ASSUME BodyTypeOK, HoldStill \/ Move(pos, rate)
    PROVE  /\ pos' \in [Axes -> Int] /\ rate' \in [Axes -> Int]
           /\ GyroCoupling = 0 => \A a \in Axes : AxisStep(a)
<1>1. Zero \in [Axes -> Int] /\ \A a \in Axes : Zero[a] = 0
    BY DEF Zero
<1>2. CASE HoldStill
    BY <1>1, <1>2, MoveResult DEF HoldStill, BodyTypeOK, AxisStep
<1>3. CASE Move(pos, rate)
    BY <1>3, MoveResult DEF BodyTypeOK, AxisStep
<1> QED
    BY <1>2, <1>3

\* Every motion of a tick, with the motor working or not (simulator/mod.rs:380-511).
LEMMA MotionStep ==
    ASSUME BodyTypeOK, TargetsWithinStops, Motion
    PROVE  /\ pos' \in [Axes -> Int] /\ rate' \in [Axes -> Int]
           /\ target' \in [Axes -> Int] /\ atLimit' \in [Axes -> BOOLEAN]
           /\ trackActive' \in BOOLEAN /\ TargetsWithinStops'
           /\ GyroCoupling = 0 => \A a \in Axes : AxisStep(a)
<1>1. CASE SlewToTarget
    BY <1>1, SlewToTargetStep
<1>2. CASE SlewToGeopoint
    BY <1>2, SlewToGeopointStep
<1>3. ASSUME UNCHANGED <<target, atLimit>>, trackActive' \in BOOLEAN
      PROVE  /\ target' \in [Axes -> Int] /\ atLimit' \in [Axes -> BOOLEAN]
             /\ trackActive' \in BOOLEAN /\ TargetsWithinStops'
    BY <1>3 DEF BodyTypeOK, TargetsWithinStops, Stopped, Lo, Hi
<1>4. CASE SlewAtRate
    <2>1. UNCHANGED <<target, atLimit>> /\ trackActive' \in BOOLEAN
        BY <1>4 DEF SlewAtRate, BodyTypeOK
    <2> QED
        BY <1>3, <1>4, <2>1, SlewAtRateStep
<1>5. CASE FollowTrack
    <2>1. UNCHANGED <<target, atLimit>> /\ trackActive' \in BOOLEAN
        BY <1>5 DEF FollowTrack
    <2> QED
        BY <1>3, <1>5, <2>1, FollowTrackStep
<1>6. CASE CoastTrack \/ Idle \/ MotorStopped
    <2>1. UNCHANGED <<target, atLimit>> /\ trackActive' \in BOOLEAN
        BY <1>6 DEF CoastTrack, Idle, MotorStopped, BodyTypeOK
    <2>2. HoldStill \/ Move(pos, rate)
        BY <1>6 DEF CoastTrack, Idle, MotorStopped
    <2> QED
        BY <1>3, <2>1, <2>2, RestStep
<1> QED
    BY <1>1, <1>2, <1>4, <1>5, <1>6 DEF Motion

\* No motion gives a stopped axis more than the energy of one stop.
LEMMA EnergyStep ==
    ASSUME BodyTypeOK, TargetsWithinStops', HardStopExcursion, GyroCoupling = 0,
           target' \in [Axes -> Int], pos' \in [Axes -> Int], rate' \in [Axes -> Int],
           NEW a \in Axes, Stopped(a), AxisStep(a)
    PROVE  /\ Abs(rate'[a]) <= RateBound
           /\ StopEnergy(pos'[a], rate'[a], Lo[a], Hi[a], MaxAccel) <= RateBound * RateBound
<1>1. /\ pos[a] \in Int /\ rate[a] \in Int /\ target'[a] \in Int
      /\ pos'[a] \in Int /\ rate'[a] \in Int
      /\ Lo[a] \in Int /\ Hi[a] \in Int /\ RateBound \in Nat /\ MaxAccel \in Nat \ {0}
    BY Limits, ServoAssumption DEF BodyTypeOK
<1>2. Lo[a] <= target'[a] /\ target'[a] <= Hi[a]
    BY DEF TargetsWithinStops, Stopped, Lo, Hi
<1>3. /\ Abs(rate[a]) <= RateBound
      /\ StopEnergy(pos[a], rate[a], Lo[a], Hi[a], MaxAccel) <= RateBound * RateBound
    BY DEF HardStopExcursion
<1>4. ASSUME NEW m \in 0..EffectiveSlewRate,
             LET next == TickAxisTrap(pos[a], rate[a], target'[a], m, MaxAccel)
             IN  pos'[a] = next.pos /\ rate'[a] = next.rate
      PROVE  /\ Abs(rate'[a]) <= RateBound
             /\ StopEnergy(pos'[a], rate'[a], Lo[a], Hi[a], MaxAccel) <= RateBound * RateBound
    <2>1. m \in Nat /\ m <= RateBound
        BY SlewRates, Limits, ServoAssumption
    <2>2. StopEnergy(pos'[a], rate'[a], Lo[a], Hi[a], MaxAccel) <= RateBound * RateBound
        BY <1>1, <1>2, <1>3, <1>4, <2>1, ServoEnergy
    <2>3. Abs(rate'[a]) <= m \/ Abs(rate'[a]) <= Abs(rate[a]) - MaxAccel
        BY <1>1, <1>4, <2>1, ServoBounds
    <2> QED
        BY <1>1, <1>3, <2>1, <2>2, <2>3 DEF Abs
<1>5. CASE /\ Abs(rate'[a]) <= RateBound \/ Abs(rate'[a]) <= Abs(rate[a]) - MaxAccel
           /\ Stopped(a) => Lo[a] <= pos'[a] /\ pos'[a] <= Hi[a]
    <2>1. Abs(rate'[a]) <= RateBound
        BY <1>1, <1>3, <1>5 DEF Abs
    <2> QED
        BY <1>1, <1>5, <2>1, EnergyInside
<1>6. CASE pos'[a] = pos[a] /\ rate'[a] = 0
    <2>1. StopEnergy(pos[a], 0, Lo[a], Hi[a], MaxAccel) <= RateBound * RateBound
        BY <1>1, <1>3, EnergyAtRest
    <2>2. Abs(rate'[a]) <= RateBound
        BY <1>1, <1>6 DEF Abs
    <2> QED
        BY <1>6, <2>1, <2>2
<1>7. CASE pos'[a] = pos[a] /\ rate'[a] = rate[a]
    BY <1>3, <1>7
<1> QED
    BY <1>4, <1>5, <1>6, <1>7 DEF AxisStep

-------------------------------------------------------------------------------
\* The inductive invariant of the motion.  The energy bound alone is not inductive: it
\* is the target between the stops that makes the servo brake an outward axis.
MotionInv == TypeOK /\ TargetsWithinStops /\ HardStopExcursion

LEMMA MotionInit == Init => MotionInv
<1> SUFFICES ASSUME Init PROVE MotionInv
    OBVIOUS
<1>1. TypeOK
    <2>1. Zero \in [Axes -> Int] /\ Zero \in [Axes -> Gains]
        BY ServoAssumption DEF Zero, Gains
    <2>2. 0 \in Cameras /\ 0 \in 0..ZoomSteps /\ 0 \in 0..CameraSwitchFrames
        BY CameraAssumption DEF Cameras
    <2>3. <<0, 0>> \in Cameras \X (0..ZoomSteps)
        BY <2>2
    <2>4. {} \in SUBSET AllFaults
        OBVIOUS
    <2> QED
        BY <2>1, <2>2, <2>3, <2>4 DEF Init, TypeOK, BodyTypeOK, Modes, Looks
<1>2. TargetsWithinStops
    BY Limits DEF Init, Zero, TargetsWithinStops
<1>3. HardStopExcursion
    <2>1. ASSUME NEW a \in Axes
          PROVE  /\ Abs(0) <= RateBound
                 /\ StopEnergy(0, 0, Lo[a], Hi[a], MaxAccel) <= RateBound * RateBound
        <3>1. Abs(0) <= RateBound /\ 0 \in Int /\ RateBound \in Nat /\ MaxAccel \in Nat
            BY Limits, ServoAssumption DEF Abs
        <3> QED
            BY <3>1, Limits, EnergyInside
    <2>2. \A a \in Axes : pos[a] = 0 /\ rate[a] = 0
        BY DEF Init, Zero
    <2> QED
        BY <2>1, <2>2 DEF HardStopExcursion
<1> QED
    BY <1>1, <1>2, <1>3 DEF MotionInv

\* A step that leaves angles, rates and targets alone leaves the energy alone.
LEMMA MotionUnchanged ==
    ASSUME MotionInv, UNCHANGED motion
    PROVE  /\ HardStopExcursion'
           /\ UNCHANGED target => TargetsWithinStops'
<1>1. pos' = pos /\ rate' = rate
    BY DEF motion
<1> QED
    BY <1>1 DEF MotionInv, HardStopExcursion, TargetsWithinStops, Stopped, Lo, Hi, RateBound

\* A tick keeps the types, whatever the camera's number is.
LEMMA TickTypes ==
    ASSUME BodyTypeOK, TargetsWithinStops, Tick
    PROVE  BodyTypeOK' /\ TargetsWithinStops'
<1>1. Motion
    BY DEF Tick
<1>2. /\ pos' \in [Axes -> Int] /\ rate' \in [Axes -> Int]
      /\ target' \in [Axes -> Int] /\ atLimit' \in [Axes -> BOOLEAN]
      /\ trackActive' \in BOOLEAN /\ TargetsWithinStops'
    BY <1>1, MotionStep
<1>3. blackout' \in 0..CameraSwitchFrames
    BY CameraAssumption DEF Tick, BlackoutLeft, BodyTypeOK
<1>4. look' \in Looks /\ rayHit' \in BOOLEAN
    BY DEF Tick, UpdateLook, BodyTypeOK, Looks
<1>5. settled' \in BOOLEAN
    BY DEF Tick, DetectSettled
<1>6. /\ UNCHANGED <<rateCmd, geopoint, trackTarget, mode, faults, platform>>
      /\ UNCHANGED <<camera, zoom, fov>>
    BY DEF Tick, optics
<1> QED
    BY <1>2, <1>3, <1>4, <1>5, <1>6 DEF BodyTypeOK

LEMMA TickStep == MotionInv /\ Tick => MotionInv'
<1> SUFFICES ASSUME MotionInv, Tick PROVE MotionInv'
    OBVIOUS
<1>1. BodyTypeOK /\ TargetsWithinStops /\ HardStopExcursion /\ Motion
    BY DEF MotionInv, TypeOK, Tick
<1>2. /\ pos' \in [Axes -> Int] /\ rate' \in [Axes -> Int] /\ target' \in [Axes -> Int]
      /\ GyroCoupling = 0 => \A a \in Axes : AxisStep(a)
    BY <1>1, MotionStep
<1>3. TypeOK' /\ TargetsWithinStops'
    BY <1>1, TickTypes DEF MotionInv, TypeOK, Tick, optics
<1>4. HardStopExcursion'
    <2>1. ASSUME NEW a \in Axes, GyroCoupling = 0, Stopped(a)
          PROVE  /\ Abs(rate'[a]) <= RateBound
                 /\ StopEnergy(pos'[a], rate'[a], Lo[a], Hi[a], MaxAccel)
                       <= RateBound * RateBound
        BY <1>1, <1>2, <1>3, <2>1, EnergyStep
    <2> QED
        BY <2>1 DEF HardStopExcursion, Stopped, Lo, Hi, RateBound
<1> QED
    BY <1>3, <1>4 DEF MotionInv

LEMMA MotionNext == MotionInv /\ [Next]_vars => MotionInv'
<1> SUFFICES ASSUME MotionInv, [Next]_vars PROVE MotionInv'
    OBVIOUS
<1>1. CASE ReceiveControl
    <2>1. PICK sc \in Commands : ApplySensorControl(sc)
        BY <1>1 DEF ReceiveControl
    <2>2. TypeOK' /\ TargetsWithinStops' /\ UNCHANGED motion
        BY <2>1, ControlStep, InputAssumption DEF MotionInv, TypeOK, BodyTypeOK
    <2> QED
        BY <2>2, MotionUnchanged DEF MotionInv
<1>2. CASE MovePlatform
    <2>1. PICK p \in Platforms : ApplyEntityControl(p)
        BY <1>2 DEF MovePlatform
    <2>2. TypeOK' /\ UNCHANGED <<motion, target>>
        BY <2>1 DEF ApplyEntityControl, MotionInv, TypeOK, BodyTypeOK, motion, aim, optics
    <2> QED
        BY <2>2, MotionUnchanged DEF MotionInv
<1>3. CASE Tick
    BY <1>3, TickStep
<1>4. ASSUME NEW f \in SUBSET AllFaults, SetFaults(f) PROVE MotionInv'
    <2>1. TypeOK' /\ UNCHANGED <<motion, target>>
        BY <1>4 DEF SetFaults, MotionInv, TypeOK, BodyTypeOK, motion, aim, optics
    <2> QED
        BY <2>1, MotionUnchanged DEF MotionInv
<1>5. CASE InjectFault \/ ClearFault \/ ClearAll
    <2>1. faults \in SUBSET AllFaults /\ FaultKinds \subseteq AllFaults
        BY InputAssumption DEF MotionInv, TypeOK, BodyTypeOK
    <2>2. PICK f \in SUBSET AllFaults : SetFaults(f)
        BY <1>5, <2>1 DEF InjectFault, ClearFault, ClearAll
    <2> QED
        BY <2>2, <1>4
<1>6. CASE UNCHANGED vars
    <2>1. TypeOK' /\ UNCHANGED <<motion, target>>
        BY <1>6 DEF vars, MotionInv, TypeOK, BodyTypeOK, motion, aim, optics
    <2> QED
        BY <2>1, MotionUnchanged DEF MotionInv
<1> QED
    BY <1>1, <1>2, <1>3, <1>5, <1>6 DEF Next

\* The gimbal's state is well typed in every reachable state: in particular every angle,
\* rate and coordinated limit stays on the lattice and the blackout counter never
\* underflows (simulator/mod.rs:228-591).
THEOREM TypeCorrect == Spec => []TypeOK
<1>1. Spec => []MotionInv
    BY MotionInit, MotionNext, PTL DEF Spec
<1>2. MotionInv => TypeOK
    BY DEF MotionInv
<1> QED
    BY <1>1, <1>2, PTL

\* However commands, faults and platform motion are interleaved, no axis with hard stops
\* gets further beyond one than the stopping distance from full speed
\* (simulator/mod.rs:380-511, 601-640).
THEOREM HardStops == Spec => []HardStopExcursion
<1>1. Spec => []MotionInv
    BY MotionInit, MotionNext, PTL DEF Spec
<1>2. MotionInv => HardStopExcursion
    BY DEF MotionInv
<1> QED
    BY <1>1, <1>2, PTL

\* The cached field of view is never that of a camera or a zoom left behind
\* (simulator/mod.rs:272-287, 336-354).
THEOREM FieldOfViewIsCurrent == Spec => []FovCurrent
<1>1. Init => FovCurrent
    BY DEF Init, FovCurrent
<1>2. FovCurrent /\ [Next]_vars => FovCurrent'
    <2> SUFFICES ASSUME FovCurrent, [Next]_vars PROVE FovCurrent'
        OBVIOUS
    <2>1. ASSUME NEW sc \in Commands, ApplySensorControl(sc) PROVE FovCurrent'
        <3>1. CASE camera' # camera \/ zoom' # zoom
            BY <2>1, <3>1 DEF ApplySensorControl, SelectOptics, FovCurrent
        <3>2. CASE camera' = camera /\ zoom' = zoom
            BY <2>1, <3>2 DEF ApplySensorControl, SelectOptics, FovCurrent
        <3> QED
            BY <3>1, <3>2
    <2>2. CASE ReceiveControl
        BY <2>1, <2>2 DEF ReceiveControl
    <2>3. CASE UNCHANGED optics
        BY <2>3 DEF optics, FovCurrent
    <2>4. CASE MovePlatform \/ Tick \/ InjectFault \/ ClearFault \/ ClearAll \/ UNCHANGED vars
        BY <2>3, <2>4 DEF MovePlatform, ApplyEntityControl, Tick, InjectFault, ClearFault,
                          ClearAll, SetFaults, vars
    <2> QED
        BY <2>2, <2>4 DEF Next
<1> QED
    BY <1>1, <1>2, PTL DEF Spec

\* In Position mode a tick leaves an axis on the side of its target where it was.
LEMMA TickNeverAcross ==
    ASSUME TypeOK, Tick, mode = "Position", GyroCoupling = 0, NEW a \in Axes
    PROVE  (target[a] - pos[a]) * (target[a] - pos'[a]) >= 0
<1>1. /\ pos[a] \in Int /\ rate[a] \in Int /\ target[a] \in Int
      /\ EffectiveSlewRate \in Nat /\ MaxAccel \in Nat \ {0}
    BY SlewRates, ServoAssumption DEF TypeOK, BodyTypeOK
<1>2. CASE MotorStopped
    <2>1. pos' = pos
        BY <1>2, MoveResult DEF MotorStopped, HoldStill, Zero, TypeOK, BodyTypeOK
    <2>2. target[a] - pos[a] \in Int
        BY <1>1
    <2>3. \A x \in Int : x * x >= 0
        OBVIOUS
    <2> QED
        BY <2>1, <2>2, <2>3
<1>3. CASE SlewToTarget
    <2> DEFINE limit == [b \in Axes |-> EffectiveSlewRate]
               next == TickAxisTrap(pos[a], rate[a], target[a], EffectiveSlewRate, MaxAccel)
    <2>1. pos'[a] = next.pos
        <3>1. Servo(target, limit) /\ limit \in [Axes -> 0..EffectiveSlewRate]
            BY <1>3, SlewRates DEF SlewToTarget
        <3>2. limit[a] = EffectiveSlewRate
            OBVIOUS
        <3> HIDE DEF limit
        <3> QED
            BY <3>1, <3>2, ServoResult DEF TypeOK, BodyTypeOK
    <2>2. /\ next.pos \in Int
          /\ pos[a] <= target[a] => next.pos <= target[a]
          /\ pos[a] >= target[a] => next.pos >= target[a]
        BY <1>1, ServoBounds
    <2> HIDE DEF next
    <2>3. \A x, y \in Int : (x >= 0 /\ y >= 0) \/ (x <= 0 /\ y <= 0) => x * y >= 0
        OBVIOUS
    <2>4. /\ target[a] - pos[a] \in Int /\ target[a] - pos'[a] \in Int
          /\ \/ target[a] - pos[a] >= 0 /\ target[a] - pos'[a] >= 0
             \/ target[a] - pos[a] <= 0 /\ target[a] - pos'[a] <= 0
        BY <1>1, <2>1, <2>2
    <2> QED
        BY <2>3, <2>4
<1> QED
    BY <1>2, <1>3 DEF Tick, Motion, SlewAtRate, SlewToGeopoint, FollowTrack, CoastTrack, Idle

\* No tick of the position servo carries an axis across its target, whatever speed and
\* direction an earlier mode left behind (simulator/mod.rs:632-639).
THEOREM TargetsAreNotCrossed == Spec => NeverAcross
<1>1. TypeOK /\ [Next]_vars =>
         [ (Tick /\ mode = "Position" /\ GyroCoupling = 0) =>
             \A a \in Axes : (target[a] - pos[a]) * (target[a] - pos'[a]) >= 0 ]_vars
    BY TickNeverAcross
<1>2. Spec => [][Next]_vars
    BY PTL DEF Spec
<1> QED
    BY <1>1, <1>2, TypeCorrect, PTL DEF NeverAcross

\* Under a thermal warning a tick outside Track leaves an axis no faster than half the
\* slew rate, or slower by the whole acceleration.
LEMMA TickThrottled ==
    ASSUME TypeOK, Tick, "thermal_warning" \in faults, mode # "Track", NEW a \in Axes
    PROVE  \/ Abs(rate'[a]) <= MaxSlewRate \div 2
           \/ Abs(rate'[a]) <= Abs(rate[a]) - MaxAccel
<1> DEFINE Throttled(r) == \/ Abs(r) <= MaxSlewRate \div 2
                           \/ Abs(r) <= Abs(rate[a]) - MaxAccel
<1>1. /\ pos[a] \in Int /\ rate[a] \in Int /\ rateCmd[a] \in Int
      /\ EffectiveSlewRate \in Nat /\ MaxSlewRate \div 2 \in Nat
      /\ EffectiveSlewRate <= MaxSlewRate \div 2 /\ MaxAccel \in Nat \ {0}
    BY SlewRates, ServoAssumption DEF TypeOK, BodyTypeOK
<1>2. CASE HoldStill
    <2>1. rate' = Zero
        BY <1>2 DEF HoldStill, Move
    <2> QED
        BY <1>1, <2>1 DEF Zero, Abs
<1>3. CASE SlewAtRate
    <2> DEFINE cmd == Clamp(rateCmd[a], -EffectiveSlewRate, EffectiveSlewRate)
    <2>1. rate'[a] = RampRate(rate[a], cmd, MaxAccel)
        BY <1>3 DEF SlewAtRate, Move
    <2>2. cmd \in Int /\ Abs(cmd) <= MaxSlewRate \div 2
        BY <1>1 DEF Clamp, Abs
    <2> HIDE DEF cmd
    <2>3. MaxAccel \in Nat
        BY <1>1
    <2> QED
        BY <1>1, <2>1, <2>2, <2>3, RampBounds
<1>4. ASSUME NEW goal \in [Axes -> Int], NEW limit \in [Axes -> 0..EffectiveSlewRate],
             Servo(goal, limit)
      PROVE  Throttled(rate'[a])
    <2> DEFINE next == TickAxisTrap(pos[a], rate[a], goal[a], limit[a], MaxAccel)
    <2>1. rate'[a] = next.rate
        BY <1>4 DEF Servo, Move
    <2>2. limit[a] \in Nat /\ limit[a] <= MaxSlewRate \div 2 /\ goal[a] \in Int
        BY <1>1, <1>4
    <2>3. next.rate \in Int
          /\ (Abs(next.rate) <= limit[a] \/ Abs(next.rate) <= Abs(rate[a]) - MaxAccel)
        BY <1>1, <2>2, ServoBounds
    <2> HIDE DEF next
    <2> QED
        BY <1>1, <2>1, <2>2, <2>3 DEF Abs
<1>5. CASE SlewToTarget
    <2> DEFINE limit == [b \in Axes |-> EffectiveSlewRate]
    <2>1. Servo(target, limit) /\ target \in [Axes -> Int]
        BY <1>5 DEF SlewToTarget, TypeOK, BodyTypeOK
    <2>2. limit \in [Axes -> 0..EffectiveSlewRate]
        BY <1>1
    <2> HIDE DEF limit
    <2> QED
        BY <1>4, <2>1, <2>2
<1>6. CASE SlewToGeopoint
    <2> DEFINE raw == InverseGeopoint[platform][geopoint]
               limit == CoordinatedRates(target')
    <2>1. target' = TargetFor(raw) /\ Servo(target', limit)
        BY <1>6 DEF SlewToGeopoint, SetTarget
    <2>2. raw \in [Axes -> Int] /\ pos \in [Axes -> Int]
        BY InputAssumption DEF TypeOK, BodyTypeOK
    <2> HIDE DEF raw
    <2>3. target' \in [Axes -> Int]
        BY <2>1, <2>2, TargetBounds
    <2>4. limit \in [Axes -> 0..EffectiveSlewRate]
        BY <2>2, <2>3, Coordinated
    <2> HIDE DEF limit
    <2> QED
        BY <1>4, <2>1, <2>3, <2>4
<1> QED
    BY <1>2, <1>3, <1>5, <1>6 DEF Tick, Motion, MotorStopped, FollowTrack, CoastTrack, Idle

\* The thermal throttle holds against every earlier speed, and braking is never slower
\* than the acceleration limit allows (simulator/mod.rs:374-378).
THEOREM ThrottleHolds == Spec => ThermalThrottle
<1>1. TypeOK /\ [Next]_vars =>
         [ (Tick /\ "thermal_warning" \in faults /\ mode # "Track") =>
             \A a \in Axes : \/ Abs(rate'[a]) <= MaxSlewRate \div 2
                             \/ Abs(rate'[a]) <= Abs(rate[a]) - MaxAccel ]_vars
    BY TickThrottled
<1>2. Spec => [][Next]_vars
    BY PTL DEF Spec
<1> QED
    BY <1>1, <1>2, TypeCorrect, PTL DEF ThermalThrottle
===============================================================================
