------------------------------ MODULE GimbalAxis ------------------------------
(***************************************************************************)
(* The single-axis servo arithmetic of the gimbal simulator                *)
(* (src/src/simulator/mod.rs, "trapezoidal profile" and "angle             *)
(* utilities"), on a lattice: angles are whole steps, one tick is the unit *)
(* of time, so a rate is in steps per tick and an acceleration in steps    *)
(* per tick squared.  With dt = 1 the code's formulas keep their shape.    *)
(***************************************************************************)
EXTENDS Integers

Abs(x) == IF x < 0 THEN -x ELSE x
Sign(x) == IF x < 0 THEN -1 ELSE 1
Clamp(x, lo, hi) == IF x < lo THEN lo ELSE IF x > hi THEN hi ELSE x

(***************************************************************************)
(* Ramp a rate toward a commanded one, by at most accel in one tick.       *)
(***************************************************************************)
RampRate(current, goal, accel) ==
    LET delta == goal - current
    IN  IF Abs(delta) <= accel THEN goal ELSE current + Sign(delta) * accel

\* Mutant: brakes one step early, and never starts on the last step.
MustBrakeEarly(rate, err, accel) == rate * rate + 2 * accel >= 2 * accel * Abs(err)

(***************************************************************************)
(* rate^2 / (2 accel) >= |err|: at this speed the axis cannot stop in less *)
(* than the distance that is left.                                         *)
(***************************************************************************)
MustBrake(rate, err, accel) == rate * rate >= 2 * accel * Abs(err)

\* Mutant: brakes against the error's direction whatever the axis does.
BrakedRateUnchecked(rate, dir, accel) == rate - dir * accel

(***************************************************************************)
(* Braking never reverses the direction, it stops instead; that test is    *)
(* also taken, with the same result, when the axis moves AWAY from the     *)
(* target.                                                                 *)
(***************************************************************************)
BrakedRate(rate, dir, accel) ==
    LET decel == rate - dir * accel
    IN  IF decel * dir < 0 THEN 0 ELSE decel

TrapRate(rate, err, maxRate, accel) ==
    LET dir == Sign(err)
    IN  IF MustBrake(rate, err, accel)
        THEN BrakedRate(rate, dir, accel)
        ELSE Clamp(rate + dir * accel, -maxRate, maxRate)

\* Mutant: without the final clamp.
TickAxisTrapUnclamped(pos, rate, target, maxRate, accel) ==
    LET r == TrapRate(rate, target - pos, maxRate, accel)
    IN  IF target = pos THEN [pos |-> pos, rate |-> 0] ELSE [pos |-> pos + r, rate |-> r]

(***************************************************************************)
(* One tick of one axis: the new angle and rate.  An axis at its target is *)
(* stopped; one that would pass its target in the direction of the error   *)
(* is put on it and stopped.                                               *)
(***************************************************************************)
TickAxisTrap(pos, rate, target, maxRate, accel) ==
    LET err   == target - pos
        r     == TrapRate(rate, err, maxRate, accel)
        past  == Sign(err) * (pos + r - target) > 0
    IN  IF err = 0 THEN [pos |-> pos, rate |-> 0]
        ELSE IF past THEN [pos |-> target, rate |-> 0]
        ELSE [pos |-> pos + r, rate |-> r]

(***************************************************************************)
(* ((a + pi) rem_euclid 2pi) - pi: the result is in [-pi, pi).             *)
(***************************************************************************)
WrapAngle(angle, halfTurn) ==
    ((angle + halfTurn) % (2 * halfTurn)) - halfTurn

-------------------------------------------------------------------------------
(***************************************************************************)
(* How far an angle lies beyond its stops, and the speed that takes it (or *)
(* could yet take it) further out.  StopEnergy is twice the deceleration   *)
(* times the distance already gone plus the square of that speed: braking  *)
(* trades the second term for the first.                                   *)
(***************************************************************************)
Excess(pos, lo, hi) == IF pos > hi THEN pos - hi ELSE IF pos < lo THEN lo - pos ELSE 0

Outward(pos, rate, lo, hi) ==
    IF pos > hi THEN IF rate > 0 THEN rate ELSE 0
    ELSE IF pos < lo THEN IF rate < 0 THEN -rate ELSE 0
    ELSE Abs(rate)

StopEnergy(pos, rate, lo, hi, accel) ==
    2 * accel * Excess(pos, lo, hi) + Outward(pos, rate, lo, hi) * Outward(pos, rate, lo, hi)
===============================================================================
