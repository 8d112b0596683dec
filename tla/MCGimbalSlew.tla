----------------------------- MODULE MCGimbalSlew -----------------------------
(***************************************************************************)
(* One lattice step is 30 degrees, so pi is 6 steps and the hard stops of  *)
(* the default configuration are at 5 (pan) and -4 and 1 (tilt).           *)
(***************************************************************************)
EXTENDS GimbalSimulator

Command(state, bit, pan, tilt) ==
    [state |-> state, rateBit |-> bit, gain |-> [a \in Axes |-> IF a = "pan" THEN pan ELSE tilt],
     zoom |-> 0, geopoint |-> "g1", sensorId |-> 0]

\* Of every mode: full-speed rates, positions on both sides, a track within and one
\* beyond the threshold, a ground point, and none. They move the pan, and the tilt stays
\* where it is: both axes have the same operators, and two in motion are too many states.
SlewCommands ==
    {Command(1, TRUE, p, 0) : p \in {-2, 2}}
      \cup {Command(1, FALSE, p, 0) : p \in {-2, 1}}
      \cup {Command(2, FALSE, 1, 0), Command(4, FALSE, 0, 0), Command(0, FALSE, 0, 0)}

\* Wide-end field of view times the tracker's gain: two steps per tick and gain step.
OneCamera == [c \in Cameras |-> [z \in 0..ZoomSteps |-> [a \in Axes |-> 2]]]

TiltFloor == -4

\* Straight behind the right-hand stop.
OnePoint == [p \in Platforms |-> [g \in Geopoints |-> [a \in Axes |-> IF a = "pan" THEN 6 ELSE 0]]]
===============================================================================
