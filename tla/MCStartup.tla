------------------------------- MODULE MCStartup -------------------------------
(***************************************************************************)
(* Two processes on one host, with no file, a file that sets nothing but   *)
(* the mode, a misspelled key beside good ones, a mode nobody knows beside *)
(* numbers out of range and a camera, and a second gimbal on ports of its  *)
(* own.                                                                    *)
(***************************************************************************)
EXTENDS Startup

\* Every number 1, the ports 1 and 1, and a name for the source.
Ones == [k \in Settings |-> IF k = "platform_source" THEN "static" ELSE 1]

Lenses == [c \in Slots |-> [e \in Ends |-> IF e \in {"hfov_wide", "vfov_wide"} THEN 3 - c ELSE 0]]

\* A radian is more than a degree: its logarithm lies 6 steps lower.
LogRadian == -6

NoSetting == [k \in {} |-> 1]
File(m, s, c) == [exists |-> TRUE, wellFormed |-> TRUE, mode |-> m, setting |-> s, camera |-> c]

ConfigFiles ==
    {[File("", NoSetting, NoSetting) EXCEPT !.exists = FALSE],
     File("sim", NoSetting, NoSetting),
     File("simulator", "orion_listen_port" :> 2 @@ "slew_rate" :> 4, NoSetting),
     File("simulated", "stabilization_quality" :> 7 @@ "terrain_elevation_m" :> -2,
          <<0, "hfov_wide">> :> 5 @@ <<2, "vfov_narrow">> :> 1),
     File("bridge", "orion_listen_port" :> 2 @@ "platform_source" :> "mavlink", NoSetting)}

Invocations == {<<>>, <<"--simulator">>, <<"--simulator", "--diag", "--bridge">>}
===============================================================================
