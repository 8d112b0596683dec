------------------------------ MODULE CommandPath ------------------------------
(***************************************************************************)
(* The path of a command through one process: the event loop of main.rs    *)
(* keeps the controller's last command and, before every tick, converts it *)
(* again with the camera and zoom that the simulator has by then, applies  *)
(* it, and ticks.  EventLoop says when the loop does this; here is what it *)
(* does to the simulator, and what the controller is told after it.        *)
(*                                                                         *)
(* Between iterations the rest of the simulator's interface may be called: *)
(* the fault API and apply_hardware_telemetry.  The platform's position    *)
(* reaches the loop, in a watch channel, but not the simulator: no step    *)
(* here but HardwareReports changes the platform it sees.                  *)
(***************************************************************************)
EXTENDS SimulatorReports

CONSTANTS
    NoCommand,      \* last_cmd is None
    Origin          \* the platform a new simulator has: 0 N 0 E, level

ASSUME PathAssumption == NoCommand \notin OrionCommands /\ Origin \in Platforms

VARIABLES
    lastCmd,        \* last_cmd
    phase           \* within an iteration: "waiting" in the select, "applied" before the tick

pathVars == <<vars, reportVars, lastCmd, phase>>

PathInit ==
    /\ Init /\ platform = Origin
    /\ ReportsInit
    /\ lastCmd = NoCommand /\ phase = "waiting"

-------------------------------------------------------------------------------
TakeCommand ==
    /\ phase = "waiting"
    /\ \E c \in OrionCommands \ {lastCmd} : lastCmd' = c
    /\ UNCHANGED <<vars, reportVars, phase>>

\* Mutant: a command is applied only when it is new.
ReapplyOnce ==
    /\ phase = "waiting" /\ WithinTurns
    /\ IF lastCmd = NoCommand \/ (mode = lastCmd.mode /\ lastCmd.mode = "Track")
       THEN UNCHANGED vars
       ELSE ApplySensorControl(ToSensorControl(lastCmd, camera, zoom))
    /\ phase' = "applied"
    /\ UNCHANGED <<reportVars, lastCmd>>

\* The tick branch up to sim.tick: the last command once more, with the camera and
\* the zoom of the simulator itself.
Reapply ==
    /\ phase = "waiting" /\ WithinTurns
    /\ IF lastCmd = NoCommand
       THEN UNCHANGED vars
       ELSE ApplySensorControl(ToSensorControl(lastCmd, camera, zoom))
    /\ phase' = "applied"
    /\ UNCHANGED <<reportVars, lastCmd>>

Simulate ==
    /\ phase = "applied"
    /\ ReportTick
    /\ phase' = "waiting"
    /\ UNCHANGED lastCmd

Fault == phase = "waiting" /\ FaultStep /\ UNCHANGED <<lastCmd, phase>>

HardwareReports ==
    /\ phase = "waiting"
    /\ \E h \in HardwarePackets : ApplyHardwareTelemetry(h)
    /\ UNCHANGED <<lastCmd, phase>>

PathNext ==
    \/ TakeCommand \/ Reapply \/ Simulate
    \/ Fault \/ HardwareReports

PathSpec == PathInit /\ [][PathNext]_pathVars

\* The loop's task is driven by its timer, see EventLoop.
FairPathSpec == PathSpec /\ WF_pathVars(Reapply \/ Simulate)

-------------------------------------------------------------------------------
PathTypeOK ==
    /\ BodyTypeOK /\ camera \in Int
    /\ frozen \in [Axes -> Int]
    /\ lookFrom \in {<<>>} \cup ([Axes -> Int] \X Platforms)
    /\ lastCmd \in OrionCommands \cup {NoCommand}
    /\ phase \in {"waiting", "applied"}

(***************************************************************************)
(* The point of a Position command: cut at half a turn by the 0..1 scale   *)
(* (to_cigi.rs:93-106), then at the hard stops (simulator/mod.rs:321-334). *)
(***************************************************************************)
Goal(c, a) == Clamp(Clamp(c.target[a], -HalfTurn, HalfTurn), Lo[a], Hi[a])

(***************************************************************************)
(* Once a controller's Position command is the last one and nothing but    *)
(* the loop's two steps (which alone change phase) happens, the gimbal     *)
(* comes to rest at the commanded angles and says so, although the command *)
(* is converted and applied again before every tick and whatever pose,     *)
(* mode, speed or camera earlier commands and a real gimbal's telemetry    *)
(* left behind.                                                            *)
(***************************************************************************)
CommandReached ==
    <>[][phase' # phase]_pathVars =>
       <>[](lastCmd # NoCommand /\ lastCmd.mode = "Position"
            /\ "motor_fault" \notin faults /\ ~ContinuousPan =>
               settled /\ \A a \in Axes : Abs(pos[a] - Goal(lastCmd, a)) < SettleTolerance)

(***************************************************************************)
(* A track that the simulator has lost is taken up again before the next   *)
(* tick (main.rs:168), so on the loop a tracking gimbal never runs on the  *)
(* rates that an earlier tick left (simulator/mod.rs:468-500): every tick  *)
(* in Track moves by the offset of the last command, seen through the      *)
(* field of view of that tick.                                             *)
(***************************************************************************)
TracksAsCommanded ==
    [][ (Simulate /\ mode = "Track" /\ lastCmd # NoCommand
         /\ "motor_fault" \notin faults) =>
           \A a \in Axes : rate'[a] = GainOf(lastCmd, a) * FieldOfView[fov[1]][fov[2]][a] ]_pathVars

(***************************************************************************)
(* A controller whose track offset lies beyond the loss threshold is never *)
(* told that it tracks, although the track is active again in the moment   *)
(* before each tick: telemetry is built after the tick (main.rs:226-240).  *)
(***************************************************************************)
LossTold ==
    [][ (Simulate /\ lastCmd # NoCommand /\ "motor_fault" \notin faults
         /\ \E a \in Axes : Abs(GainOf(lastCmd, a)) > TrackLossThreshold) =>
            ToldMode' # "Track" ]_pathVars

(***************************************************************************)
(* Orion commands carry no camera and no zoom, but every SensorControl     *)
(* does: fed back from the simulator (to_cigi.rs:108-126), they leave      *)
(* camera, zoom, field of view and a running blackout as they were, also   *)
(* when the pose of a real gimbal put them there, in every mode.           *)
(***************************************************************************)
OpticsKept ==
    [][ (Reapply /\ camera \in Cameras) => UNCHANGED <<optics, blackout>> ]_pathVars

(***************************************************************************)
(* Faults overlap and are cleared one by one or all at once                *)
(* (faults.rs:62-110).  While an encoder fault lasts and is not injected   *)
(* anew, telemetry shows the angles of its injection, whatever moves the   *)
(* gimbal and whatever other faults come and go meanwhile; when it is      *)
(* cleared, alone or with the others, the true angles.                     *)
(***************************************************************************)
EncoderHeld ==
    [][ /\ ("encoder_fault" \in faults /\ "encoder_fault" \in faults' /\ ~Inject("encoder_fault"))
               => ToTelemetry'.pose = ToTelemetry.pose
        /\ ("encoder_fault" \in faults /\ "encoder_fault" \notin faults')
               => ToTelemetry'.pose = Wrapped(pos) ]_pathVars

(***************************************************************************)
(* "Derived state is recomputed from the new pose" (simulator/mod.rs:      *)
(* 662-665): whenever a report may be built, a look-point that is not      *)
(* left from a miss belongs to the present angles and platform.            *)
(***************************************************************************)
LookFresh == rayHit => lookFrom = <<pos, platform>>
===============================================================================
