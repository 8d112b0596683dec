----------------------------- MODULE MCCommandPath -----------------------------
(***************************************************************************)
(* pi is 4 steps, the hard stops lie at 2 (pan) and at 0 and 1 (tilt).     *)
(* The configured slew rate is twice the rate of the conversion, so a      *)
(* commanded rate of 1 arrives as 2.                                       *)
(***************************************************************************)
EXTENDS CommandPath

At(p, t) == [a \in Axes |-> IF a = "pan" THEN p ELSE t]
Cmd(m, p, t) == [mode |-> m, target |-> At(p, t)]

\* A position beyond the stops and the scale; a rate; a track within and one beyond the
\* threshold; the ground.
PathCommands ==
    {Cmd("Position", 6, 2), Cmd("Rate", -1, 0),
     Cmd("Track", 2, 0), Cmd("Track", -6, 0), Cmd("Geopoint", 0, 0)}

\* A real gimbal that turns, out beyond a stop, and looks through another
\* camera, zoomed in.
RealGimbals ==
    {[pos |-> At(3, 1), fov |-> <<1, 1>>, mode |-> "Rate", camera |-> 1, platform |-> "p1"]}

\* Two steps per tick and gain step at the wide end, one at the narrow end.
Lenses == [c \in Cameras |-> [z \in 0..ZoomSteps |-> [a \in Axes |-> 2 - z]]]

Stuck == {At(1, 1)}

Seen == [p \in Platforms |-> [g \in Geopoints |-> At(-1, 1)]]
===============================================================================
