--------------------------- MODULE SimulatorReports ---------------------------
(***************************************************************************)
(* What the simulator tells, and what may change that from outside the     *)
(* motion: to_telemetry, to_sensor_extended_response and                   *)
(* apply_hardware_telemetry of simulator/mod.rs, and what of faults.rs     *)
(* only the reports see: the angles frozen by an encoder fault.            *)
(*                                                                         *)
(* Abstracted: jitter and noise, so the jittered angles are the angles;    *)
(* quaternions, range, track size and gate sizes, which are functions of   *)
(* the state that nothing reads back.                                      *)
(***************************************************************************)
EXTENDS OrionConversions

CONSTANTS
    HardwarePackets,    \* the telemetry a real gimbal may send
    FrozenAngles        \* the angles inject_encoder_fault may be called with

\* The observable fields of a GeolocateTelemetryCorePacket.  A camera of the
\* hardware may lie outside the table.
HardwarePacket == [pos : [Axes -> Int], fov : Cameras \X (0..ZoomSteps), mode : Modes,
                   camera : Int, platform : Platforms]

ASSUME HardwareAssumption ==
    /\ HardwarePackets \subseteq HardwarePacket
    /\ FrozenAngles \subseteq [Axes -> Int]

VARIABLES
    frozen,     \* frozen_pan, frozen_tilt
    lookFrom    \* history: the angles and platform the last ray was cast from, <<>> if it missed

reportVars == <<frozen, lookFrom>>

ReportsInit == frozen = Zero /\ lookFrom = <<>>

-------------------------------------------------------------------------------
\* The ray of compute_look_point is cast from the new angles and platform.
CastRay ==
    /\ UpdateLook
    /\ lookFrom' = IF rayHit' THEN <<pos', platform'>> ELSE <<>>

\* A tick casts the ray from where it has moved the gimbal.
ReportTick ==
    /\ Tick
    /\ lookFrom' = IF rayHit' THEN <<pos', platform'>> ELSE <<>>
    /\ UNCHANGED frozen

\* Mutant: the look-point of the pose before is kept until the next tick.
ApplyHardwareTelemetryLazy(h) ==
    /\ pos' = h.pos
    /\ fov' = h.fov
    /\ mode' = h.mode
    /\ camera' = h.camera
    /\ platform' = h.platform
    /\ UNCHANGED <<look, rayHit, lookFrom>>
    /\ UNCHANGED <<rate, aim, trackActive, blackout, zoom, settled, faults, frozen>>

\* The pose, optics, mode and position of a real gimbal overwrite the simulated ones;
\* commanded targets, rates, a blackout and the settled flag stay as they are.
ApplyHardwareTelemetry(h) ==
    /\ pos' = h.pos
    /\ fov' = h.fov
    /\ mode' = h.mode
    /\ camera' = h.camera
    /\ platform' = h.platform
    /\ CastRay
    /\ UNCHANGED <<rate, aim, trackActive, blackout, zoom, settled, faults, frozen>>

-------------------------------------------------------------------------------
\* inject_*, also while the fault is active: inject_encoder_fault then names new angles.
Inject(f) ==
    /\ SetFaults(faults \cup {f})
    /\ IF f = "encoder_fault" THEN frozen' \in FrozenAngles ELSE UNCHANGED frozen
    /\ UNCHANGED lookFrom

\* Mutant: clearing any fault forgets the frozen angles.
ClearForgetful(f) ==
    /\ SetFaults(faults \ {f})
    /\ frozen' = Zero
    /\ UNCHANGED lookFrom

Clear(f) ==
    /\ SetFaults(faults \ {f})
    /\ frozen' = IF f = "encoder_fault" THEN Zero ELSE frozen
    /\ UNCHANGED lookFrom

\* clear_all
ClearEvery ==
    /\ faults # {} /\ SetFaults({})
    /\ frozen' = Zero
    /\ UNCHANGED lookFrom

InjectOne == \E f \in FaultKinds : Inject(f)
ClearOne  == \E f \in faults : Clear(f)
FaultStep == InjectOne \/ ClearOne \/ ClearEvery

-------------------------------------------------------------------------------
Wrapped(p) == [a \in Axes |-> IF a = "pan" THEN WrapAngle(p[a], HalfTurn) ELSE p[a]]

\* to_telemetry.  A degraded GPS only adds noise to the position.
ToTelemetry ==
    [pose     |-> Wrapped(IF "encoder_fault" \in faults THEN frozen ELSE pos),
     position |-> IF "gps_loss" \in faults THEN "none" ELSE platform,
     mode     |-> mode,
     tracking |-> mode = "Track" /\ trackActive]

\* to_sensor_extended_response: the position of the packet is overridden by the
\* look-point, and the gate follows the track.
ToSensorExtendedResponse ==
    [status |-> SensorStatus,
     entity |-> ReportedLook,
     gate   |-> IF mode = "Track" THEN trackTarget ELSE Zero]
===============================================================================
