---------------------------- MODULE MCGimbalCamera ----------------------------
(***************************************************************************)
(* A gimbal with continuous pan, two of its cameras, and a ground point    *)
(* seen from two platform positions that lie half a turn of pan and two    *)
(* steps of tilt apart.  pi is 3 steps.                                    *)
(***************************************************************************)
EXTENDS GimbalSimulator

Command(state, pan, z, cam) ==
    [state |-> state, rateBit |-> FALSE, gain |-> [a \in Axes |-> IF a = "pan" THEN pan ELSE 0],
     zoom |-> z, geopoint |-> "g1", sensorId |-> cam]

\* Positions behind and ahead with both cameras and zooms, and the ground point.
\* Disabled and Geopoint leave the zoom alone, so the zoom they carry must not count.
CameraCommands ==
    {Command(1, 1, z, cam) : z \in 0..1, cam \in 0..1}
      \cup {Command(4, 0, 1, cam) : cam \in 0..1}
      \cup {Command(0, 0, 1, 1)}

Lenses == [c \in Cameras |-> [z \in 0..ZoomSteps |-> [a \in Axes |-> 1]]]

TiltFloor == -2

Seen == [p \in Platforms |-> [g \in Geopoints |->
            [a \in Axes |-> CASE a = "pan"  -> IF p = "p1" THEN 1 ELSE -2
                              [] a = "tilt" -> IF p = "p1" THEN -1 ELSE 1]]]
===============================================================================
