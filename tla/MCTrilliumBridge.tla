--------------------------- MODULE MCTrilliumBridge ---------------------------
(***************************************************************************)
(* The bridge with channels and sockets of one or two places, so that      *)
(* every one of them is full at some time: in bridge mode with one         *)
(* connection, and in simulator mode with two and the fairness of the      *)
(* tasks.  In the latter the scene generator's steps cannot happen.        *)
(***************************************************************************)
EXTENDS TrilliumBridge
===============================================================================
