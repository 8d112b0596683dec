--------------------------- MODULE GimbalAxisProofs ---------------------------
(***************************************************************************)
(* What the servo arithmetic of GimbalAxis bounds, for every rate, angle   *)
(* and limit.                                                              *)
(***************************************************************************)
EXTENDS GimbalAxis, TLAPS

\* Clamping keeps a value between the limits (f32::clamp, simulator/mod.rs:329, 404, 413).
LEMMA ClampBounds ==
    ASSUME NEW x \in Int, NEW lo \in Int, NEW hi \in Int, lo <= hi
    PROVE  Clamp(x, lo, hi) \in Int /\ lo <= Clamp(x, lo, hi) /\ Clamp(x, lo, hi) <= hi
BY DEF Clamp

\* Ramping between two rates within a bound stays within it, and a rate above the goal's
\* bound comes down by the whole acceleration (ramp_rate, simulator/mod.rs:645-653).
LEMMA RampBounds ==
    ASSUME NEW v \in Int, NEW goal \in Int, NEW A \in Nat, NEW B \in Nat, Abs(goal) <= B
    PROVE  /\ RampRate(v, goal, A) \in Int
           /\ Abs(RampRate(v, goal, A)) <= B \/ Abs(RampRate(v, goal, A)) <= Abs(v) - A
BY DEF RampRate, Abs, Sign

\* The rate the servo picks moves the axis toward the target, or it moves it away slower
\* by the whole acceleration; it keeps to the limit or brakes (simulator/mod.rs:614-629).
LEMMA TrapRateBounds ==
    ASSUME NEW v \in Int, NEW err \in Int, NEW m \in Nat, NEW A \in Nat \ {0}, err # 0
    PROVE  LET r == TrapRate(v, err, m, A)
           IN  /\ r \in Int
               /\ Abs(r) <= m \/ Abs(r) <= Abs(v) - A
               /\ err > 0 => r >= 0 \/ r >= v + A
               /\ err < 0 => r <= 0 \/ r <= v - A
<1> DEFINE dir == Sign(err)
<1>1. dir \in {-1, 1} /\ (err > 0 => dir = 1) /\ (err < 0 => dir = -1)
    BY DEF Sign
<1>2. CASE MustBrake(v, err, A)
    BY <1>1, <1>2 DEF TrapRate, BrakedRate, Abs
<1>3. CASE ~MustBrake(v, err, A)
    BY <1>1, <1>3 DEF TrapRate, Clamp, Abs
<1> QED
    BY <1>2, <1>3

\* A tick of the servo: it never carries the axis across its target, and never leaves
\* it faster than the limit unless it has braked fully (simulator/mod.rs:609-639).
LEMMA ServoBounds ==
    ASSUME NEW p \in Int, NEW v \in Int, NEW t \in Int, NEW m \in Nat, NEW A \in Nat \ {0}
    PROVE  LET next == TickAxisTrap(p, v, t, m, A)
           IN  /\ next.pos \in Int /\ next.rate \in Int
               /\ Abs(next.rate) <= m \/ Abs(next.rate) <= Abs(v) - A
               /\ p <= t => next.pos <= t
               /\ p >= t => next.pos >= t
<1> DEFINE r == TrapRate(v, t - p, m, A)
           next == TickAxisTrap(p, v, t, m, A)
<1>1. CASE t = p
    <2>1. next = [pos |-> p, rate |-> 0]
        BY <1>1 DEF TickAxisTrap
    <2> QED
        BY <2>1, <1>1 DEF Abs
<1>2. CASE t # p
    <2>1. /\ r \in Int
          /\ Abs(r) <= m \/ Abs(r) <= Abs(v) - A
        BY <1>2, TrapRateBounds
    <2> HIDE DEF r
    <2>2. CASE Sign(t - p) * (p + r - t) > 0
        <3>1. next = [pos |-> t, rate |-> 0]
            BY <1>2, <2>2 DEF TickAxisTrap, r
        <3> QED
            BY <3>1 DEF Abs
    <2>3. CASE ~(Sign(t - p) * (p + r - t) > 0)
        <3>1. next = [pos |-> p + r, rate |-> r]
            BY <1>2, <2>3 DEF TickAxisTrap, r
        <3>2. (p <= t => p + r <= t) /\ (p >= t => p + r >= t)
            BY <1>2, <2>1, <2>3 DEF Sign
        <3> QED
            BY <3>1, <3>2, <2>1
    <2> QED
        BY <2>2, <2>3
<1> QED
    BY <1>1, <1>2

\* Squares grow with the absolute value.
LEMMA SquareMonotone ==
    ASSUME NEW x \in Int, NEW B \in Nat, Abs(x) <= B
    PROVE  x * x <= B * B
<1>1. Abs(x) \in Nat /\ x * x = Abs(x) * Abs(x)
    BY DEF Abs
<1>2. ASSUME NEW n \in Nat, n <= B PROVE n * n <= B * B
    <2>1. n * n <= n * B
        BY <1>2
    <2>2. n * B <= B * B
        BY <1>2
    <2> QED
        BY <2>1, <2>2
<1> QED
    BY <1>1, <1>2

\* Inside its stops an axis has the energy of its rate alone.
LEMMA EnergyInside ==
    ASSUME NEW p \in Int, NEW v \in Int, NEW lo \in Int, NEW hi \in Int,
           NEW A \in Nat, NEW B \in Nat, lo <= p, p <= hi, Abs(v) <= B
    PROVE  StopEnergy(p, v, lo, hi, A) <= B * B
<1>1. StopEnergy(p, v, lo, hi, A) = Abs(v) * Abs(v)
    BY DEF StopEnergy, Excess, Outward, Abs
<1>2. Abs(v) * Abs(v) = v * v
    BY DEF Abs
<1> QED
    BY <1>1, <1>2, SquareMonotone

\* An axis that stops where it stands loses energy.
LEMMA EnergyAtRest ==
    ASSUME NEW p \in Int, NEW v \in Int, NEW lo \in Int, NEW hi \in Int,
           NEW A \in Nat, NEW B \in Nat, StopEnergy(p, v, lo, hi, A) <= B * B
    PROVE  StopEnergy(p, 0, lo, hi, A) <= B * B
<1> DEFINE o == Outward(p, v, lo, hi)
           x == 2 * A * Excess(p, lo, hi)
<1>1. o \in Nat /\ x \in Int
    BY DEF Outward, Excess, Abs
<1>2. StopEnergy(p, v, lo, hi, A) = x + o * o
    BY DEF StopEnergy
<1>3. Outward(p, 0, lo, hi) = 0
    BY DEF Outward, Abs
<1>4. StopEnergy(p, 0, lo, hi, A) = x
    BY <1>1, <1>3 DEF StopEnergy
<1>5. o * o >= 0
    BY <1>1
<1> HIDE DEF o, x
<1> QED
    BY <1>1, <1>2, <1>4, <1>5

\* The square of a speed that has come down by a whole acceleration.
LEMMA BrakedSquare ==
    ASSUME NEW w \in Nat, NEW s \in Nat, NEW A \in Nat, s <= w - A
    PROVE  2 * A * s + s * s <= w * w
<1>1. PICK d \in Nat : w = s + A + d
    <2>1. w - s - A \in Nat /\ w = s + A + (w - s - A)
        OBVIOUS
    <2> QED
        BY <2>1
<1>2. w * w = s * s + 2 * A * s + A * A + 2 * d * s + 2 * d * A + d * d
    BY <1>1
<1>3. A * A >= 0 /\ d * s >= 0 /\ d * A >= 0 /\ d * d >= 0
    OBVIOUS
<1>4. 2 * d * s = 2 * (d * s) /\ 2 * d * A = 2 * (d * A)
    OBVIOUS
<1> QED
    BY <1>2, <1>3, <1>4

\* Whatever the servo does to an axis whose target lies between the stops, an axis within
\* the energy of one stop from speed B stays within it (simulator/mod.rs:609-639): it
\* moves inwards, or it has braked by the whole acceleration.
LEMMA ServoEnergy ==
    ASSUME NEW p \in Int, NEW v \in Int, NEW t \in Int, NEW m \in Nat, NEW A \in Nat \ {0},
           NEW lo \in Int, NEW hi \in Int, NEW B \in Nat,
           lo <= t, t <= hi, m <= B, Abs(v) <= B, StopEnergy(p, v, lo, hi, A) <= B * B
    PROVE  LET next == TickAxisTrap(p, v, t, m, A)
           IN  StopEnergy(next.pos, next.rate, lo, hi, A) <= B * B
<1> DEFINE r == TrapRate(v, t - p, m, A)
           next == TickAxisTrap(p, v, t, m, A)
<1> SUFFICES StopEnergy(next.pos, next.rate, lo, hi, A) <= B * B
    OBVIOUS
<1>1. CASE t = p
    <2>1. next.pos = p /\ next.rate = 0
        BY <1>1 DEF TickAxisTrap
    <2> QED
        BY <2>1, EnergyAtRest
<1>2. CASE t # p
    <2>1. /\ r \in Int
          /\ Abs(r) <= m \/ Abs(r) <= Abs(v) - A
          /\ t > p => r >= 0 \/ r >= v + A
          /\ t < p => r <= 0 \/ r <= v - A
        <3>1. t - p \in Int /\ t - p # 0 /\ (t > p => t - p > 0) /\ (t < p => t - p < 0)
            BY <1>2
        <3> QED
            BY <3>1, TrapRateBounds
    <2>2. Abs(r) <= B
        BY <2>1 DEF Abs
    <2>3. \/ next.pos = t /\ next.rate = 0
          \/ /\ next.pos = p + r /\ next.rate = r
             /\ t > p => p + r <= t
             /\ t < p => p + r >= t
        <3> HIDE DEF r
        <3>1. CASE Sign(t - p) * (p + r - t) > 0
            BY <1>2, <3>1 DEF TickAxisTrap, r
        <3>2. CASE ~(Sign(t - p) * (p + r - t) > 0)
            <4>1. next.pos = p + r /\ next.rate = r
                BY <1>2, <3>2 DEF TickAxisTrap, r
            <4>2. (t > p => p + r <= t) /\ (t < p => p + r >= t)
                BY <2>1, <3>2 DEF Sign
            <4> QED
                BY <4>1, <4>2
        <3> QED
            BY <3>1, <3>2
    <2> HIDE DEF r, next
    <2>4. CASE next.pos = t /\ next.rate = 0
        <3>1. 0 \in Int /\ Abs(0) <= B
            BY DEF Abs
        <3>2. StopEnergy(t, 0, lo, hi, A) <= B * B
            BY <3>1, EnergyInside
        <3> QED
            BY <2>4, <3>2
    <2>5. CASE next.pos = p + r /\ next.rate = r /\ lo <= p + r /\ p + r <= hi
        <3>1. p + r \in Int /\ r \in Int
            BY <2>1
        <3>2. StopEnergy(p + r, r, lo, hi, A) <= B * B
            BY <3>1, <2>2, <2>5, EnergyInside
        <3> QED
            BY <2>5, <3>2
    <2>6. CASE /\ next.pos = p + r /\ next.rate = r /\ p + r < lo
               /\ t > p => p + r <= t
               /\ t < p => p + r >= t
        <3>1. t > p
            BY <1>2, <2>1, <2>6
        <3>2. CASE r >= 0
            <4>1. /\ Excess(p + r, lo, hi) = lo - p - r /\ Excess(p, lo, hi) = lo - p
                  /\ Outward(p + r, r, lo, hi) = 0
                BY <2>1, <2>6, <3>2 DEF Excess, Outward
            <4>2. Outward(p, v, lo, hi) \in Nat
                BY DEF Outward, Abs
            <4>3. 2 * A * (lo - p - r) <= 2 * A * (lo - p)
                BY <2>1, <3>2
            <4>4. Outward(p, v, lo, hi) * Outward(p, v, lo, hi) >= 0
                BY <4>2
            <4> QED
                BY <2>1, <2>6, <4>1, <4>2, <4>3, <4>4 DEF StopEnergy
        <3>3. CASE r < 0
            <4> DEFINE s == -r
                       w == -v
            <4>1. s \in Nat /\ w \in Nat /\ s <= w - A
                BY <2>1, <3>1, <3>3
            <4>2. 2 * A * s + s * s <= w * w
                BY <4>1, BrakedSquare
            <4>3. /\ Excess(p + r, lo, hi) = lo - p + s
                  /\ Outward(p + r, r, lo, hi) = s
                BY <2>1, <2>6, <3>3 DEF Excess, Outward
            <4>4. StopEnergy(p + r, r, lo, hi, A) = 2 * A * (lo - p) + (2 * A * s + s * s)
                BY <2>1, <4>1, <4>3 DEF StopEnergy
            <4>5. CASE p < lo
                <5>1. Excess(p, lo, hi) = lo - p /\ Outward(p, v, lo, hi) = w
                    BY <4>1, <4>5, <3>3 DEF Excess, Outward
                <5>2. 2 * A * (lo - p) + w * w <= B * B
                    BY <5>1 DEF StopEnergy
                <5> HIDE DEF s, w
                <5> QED
                    BY <2>6, <4>1, <4>2, <4>4, <5>2
            <4>6. CASE p >= lo
                <5>1. 2 * A * (lo - p) <= 0
                    BY <4>6
                <5>2. w * w <= B * B
                    <6>1. Abs(w) <= B
                        BY DEF Abs
                    <6> QED
                        BY <6>1, <4>1, SquareMonotone
                <5> HIDE DEF s, w
                <5> QED
                    BY <2>6, <4>1, <4>2, <4>4, <5>1, <5>2
            <4> QED
                BY <4>5, <4>6
        <3> QED
            BY <2>1, <3>2, <3>3
    <2>7. CASE /\ next.pos = p + r /\ next.rate = r /\ p + r > hi
               /\ t > p => p + r <= t
               /\ t < p => p + r >= t
        <3>1. t < p
            BY <1>2, <2>1, <2>7
        <3>2. CASE r <= 0
            <4>1. /\ Excess(p + r, lo, hi) = p + r - hi /\ Excess(p, lo, hi) = p - hi
                  /\ Outward(p + r, r, lo, hi) = 0
                BY <2>1, <2>7, <3>2 DEF Excess, Outward
            <4>2. Outward(p, v, lo, hi) \in Nat
                BY DEF Outward, Abs
            <4>3. 2 * A * (p + r - hi) <= 2 * A * (p - hi)
                BY <2>1, <3>2
            <4>4. Outward(p, v, lo, hi) * Outward(p, v, lo, hi) >= 0
                BY <4>2
            <4> QED
                BY <2>1, <2>7, <4>1, <4>2, <4>3, <4>4 DEF StopEnergy
        <3>3. CASE r > 0
            <4>1. r \in Nat /\ v \in Nat /\ r <= v - A
                BY <2>1, <3>1, <3>3
            <4>2. 2 * A * r + r * r <= v * v
                BY <4>1, BrakedSquare
            <4>3. /\ Excess(p + r, lo, hi) = p - hi + r
                  /\ Outward(p + r, r, lo, hi) = r
                BY <2>1, <2>7, <3>3 DEF Excess, Outward
            <4>4. StopEnergy(p + r, r, lo, hi, A) = 2 * A * (p - hi) + (2 * A * r + r * r)
                BY <2>1, <4>1, <4>3 DEF StopEnergy
            <4>5. CASE p > hi
                <5>1. Excess(p, lo, hi) = p - hi /\ Outward(p, v, lo, hi) = v
                    BY <4>1, <4>5, <3>3 DEF Excess, Outward
                <5>2. 2 * A * (p - hi) + v * v <= B * B
                    BY <5>1 DEF StopEnergy
                <5> QED
                    BY <2>7, <4>1, <4>2, <4>4, <5>2
            <4>6. CASE p <= hi
                <5>1. 2 * A * (p - hi) <= 0
                    BY <4>6
                <5>2. v * v <= B * B
                    BY SquareMonotone
                <5> QED
                    BY <2>7, <4>1, <4>2, <4>4, <5>1, <5>2
            <4> QED
                BY <4>5, <4>6
        <3> QED
            BY <2>1, <3>2, <3>3
    <2> QED
        BY <2>1, <2>3, <2>4, <2>5, <2>6, <2>7
<1> QED
    BY <1>1, <1>2
===============================================================================
