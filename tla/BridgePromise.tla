----------------------------- MODULE BridgePromise -----------------------------
(***************************************************************************)
(* What the bridge promises its controllers, one after the other: the      *)
(* gimbal follows their commands in the order they were sent, perhaps      *)
(* passing over some but never going back to an older one, and the         *)
(* telemetry they read is in the order it was offered.  Commands and       *)
(* packets are counted.                                                    *)
(***************************************************************************)
EXTENDS Naturals

CONSTANT Bound       \* bound: packets are counted up to here

VARIABLES
    sent,            \* commands sent
    applied,         \* the command the gimbal follows, 0 for none
    offered,         \* packets offered
    seen             \* the packet last read, 0 for none

promiseVars == <<sent, applied, offered, seen>>

Init == sent = 0 /\ applied = 0 /\ offered = 0 /\ seen = 0

Send == sent' = sent + 1 /\ UNCHANGED <<applied, offered, seen>>

\* One step of the bridge may both follow a command and offer a packet.
Serve ==
    /\ applied' \in applied..sent
    /\ offered' \in {offered, offered + 1} /\ offered' <= Bound
    /\ UNCHANGED <<sent, seen>>

See == seen' \in seen + 1..offered /\ UNCHANGED <<sent, applied, offered>>

Next == Send \/ Serve \/ See

Spec == Init /\ [][Next]_promiseVars
===============================================================================
