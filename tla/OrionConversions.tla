--------------------------- MODULE OrionConversions ---------------------------
(***************************************************************************)
(* The conversions of src/src/convert: an Orion command to the             *)
(* SensorControl the simulator takes (to_cigi.rs), and the simulator's     *)
(* state to the status and mode that a controller is told (to_cigi.rs,     *)
(* to_orion.rs).  Angles, rates and gains are on the lattice of            *)
(* GimbalSimulator, where the gain 0.5 is 0.                               *)
(***************************************************************************)
EXTENDS GimbalSimulator

CONSTANTS
    MaxConvertRate,     \* convert::MAX_SLEW_RATE, steps per tick
    OrionCommands,      \* the commands a controller may send
    CornerPoint         \* the ground point of ac_coupling = noise = 0: 90 S, 180 W

OrionModes == Modes \cup {"Fault", "PositionNoLimits"}
OrionCmd == [mode : OrionModes, target : [Axes -> Int]]

\* The value of a target that the end of the 0..1 scale stands for.
FullScale(m) == IF m = "Rate" THEN MaxConvertRate ELSE HalfTurn

\* The targets that are a whole number of gain steps: the scaling itself is exact.
ASSUME ConversionAssumption ==
    /\ MaxConvertRate \in Nat \ {0}
    /\ CornerPoint \in Geopoints
    /\ OrionCommands \subseteq OrionCmd
    /\ \A c \in OrionCommands, a \in Axes : (c.target[a] * GainSteps) % FullScale(c.mode) = 0

-------------------------------------------------------------------------------
SensorState(m) ==
    CASE m \in {"Position", "Rate"} -> 1
      [] m = "Track"                -> 2
      [] m = "Geopoint"             -> 4
      [] OTHER                      -> 0

\* ac_coupling: the latitude in Geopoint, left at its default; else the zoom held.
ZoomSent(c, z) == IF c.mode = "Geopoint" THEN 0 ELSE z

\* Mutant: an angle beyond half a turn is wrapped, not cut.
GainOfWrapped(c, a) ==
    (WrapAngle(c.target[a], FullScale(c.mode)) * GainSteps) \div FullScale(c.mode)

\* Mutant: the scaled value is not cut to 0..1.
GainOfUncut(c, a) == (c.target[a] * GainSteps) \div FullScale(c.mode)

GainOf(c, a) ==
    Clamp((c.target[a] * GainSteps) \div FullScale(c.mode), -GainSteps, GainSteps)

\* Mutant: the camera is not fed back.
ToSensorControlDefault(c, cam, z) ==
    [state    |-> SensorState(c.mode),
     rateBit  |-> c.mode = "Rate",
     gain     |-> [a \in Axes |-> GainOf(c, a)],
     zoom     |-> ZoomSent(c, z),
     geopoint |-> CornerPoint,
     sensorId |-> 0]

\* orion_cmd_to_sensor_control, given the simulator's own camera and zoom.
ToSensorControl(c, cam, z) ==
    [state    |-> SensorState(c.mode),
     rateBit  |-> c.mode = "Rate",
     gain     |-> [a \in Axes |-> GainOf(c, a)],
     zoom     |-> ZoomSent(c, z),
     geopoint |-> CornerPoint,
     sensorId |-> Clamp(cam, 0, 2)]

-------------------------------------------------------------------------------
\* Mutant: a lost track is not reported.
SensorStatusHeld ==
    CASE mode \in {"Position", "Geopoint"} -> IF settled THEN 0 ELSE 2
      [] mode = "Rate"                     -> 2
      [] mode = "Track"                    -> 1
      [] OTHER                             -> 3

\* orion_mode_to_sensor_status: 0 Locked, 1 Tracking, 2 Slewing, 3 Breaklock.
SensorStatus ==
    CASE mode \in {"Position", "Geopoint"} -> IF settled THEN 0 ELSE 2
      [] mode = "Rate"                     -> 2
      [] mode = "Track"                    -> IF trackActive THEN 1 ELSE 3
      [] OTHER                             -> 3

\* sensor_response_to_telemetry: all the controller learns of the mode.
ToldMode ==
    CASE SensorStatus = 1 -> "Track"
      [] SensorStatus = 3 -> "Disabled"
      [] OTHER            -> "Position"
===============================================================================
