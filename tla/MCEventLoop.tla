------------------------------ MODULE MCEventLoop ------------------------------
(***************************************************************************)
(* The event loop alone.  The periods and timeouts keep the order they     *)
(* have in the code where it matters (a telemetry period and a freshness   *)
(* window shorter than the connection timeout together), and the frame     *)
(* counter wraps after 4, which leaves 1 modulo the telemetry period as    *)
(* 2^32 does modulo 5.                                                     *)
(***************************************************************************)
EXTENDS EventLoop
===============================================================================
