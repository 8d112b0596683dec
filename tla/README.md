# Verification of cigi_trillium

TLA+ models of the Trillium Orion gimbal simulator and CIGI bridge, the TLC
runs that check them and the TLAPS proofs of their main theorems.  The models
are translated from the Rust source; line numbers are those of `src/`.

## The system

`main.rs` runs one task with an endless, biased `select!` over three sources: a
50 Hz tick, commands from the Trillium server, and responses from the CIGI
scene generator.  It owns the gimbal simulator.  Around it run two more tasks,
each joined to it by bounded channels only:

    controller ──TCP── Trillium server ──commands (32)──▶ event loop ──datagrams (8)──▶ CIGI host ──UDP── scene
    controller ◀─TCP── (server.rs)     ◀─telemetry (4)── (main.rs)   ◀─responses (8)── (sim_core)  ◀─UDP─ generator
                                                             │
                                                      GimbalSimulator (simulator/mod.rs, faults.rs, config.rs)

The channels towards the loop's neighbours are written with `try_send` (a full
channel drops the new element), those towards the loop with `send().await`.

### Inventory

| Component | State | Operations | What is hard | What makes it correct |
|---|---|---|---|---|
| Gimbal simulator, `simulator/mod.rs` | angles, rates, targets, mode, camera, zoom, cached field of view, blackout countdown, look-point, track, faults | `apply_sensor_control`, `apply_entity_control`, `tick`, `apply_hardware_telemetry`, reports | every mode inherits the speed and position the one before left; cached and stale values; the same command applied again every tick | excursion bounded, targets not crossed, settles, throttled when hot, field of view current, blackout ends |
| Faults, `faults.rs` | flags, uptime, frozen angles | inject, clear, `clear_all`, packets | overlapping faults | act on the next tick, are gone when cleared |
| Event loop, `main.rs` | `frame_ctr`, `last_cmd`, `last_sof`, `last_sensor_response`, five channel ends | tick on two paths, command, StartOfFrame, SensorResponse | biased polling, timeouts against late answers, full channels, counter wrap | never held up, telemetry never silent for long, newest command applied, fallback when the generator is gone |
| Trillium server, `trillium/server.rs` | connection, `rx_buf`, packet being written | accept, read, parse loop, write, disconnect | a controller that does not read, leaves in mid-write, or sends noise; a full command channel | commands in order and complete while the connection lasts, the next controller is accepted |
| Orion framing, `orion/wire.rs` | none | `checksum`, `frame`, `parse` | cuts of the stream anywhere, false headers, frames inside payloads | frames found do not depend on the cuts |
| Conversions, `convert/` | none | Orion command to SensorControl, simulator state to status, status to the mode told | scaling, clamping, camera and zoom fed back before every tick | the command is reached as clamped, optics are kept, a lost track is told |
| Start-up, `main.rs` and `config.rs` | settings, ports, tasks spawned | load, defaults, command-line override, bind, exit, spawn | partial and misspelled files, several processes on one host | precedence, no process without its Trillium port, starting always ends |
| Code generator, `build.rs` | none | schema to encoders and decoders | flush and reset around bit fields, optional fields, rounding and clamping | decode after encode, short payloads refused |
| `sim_core` (another crate, not in this repository) | | CIGI packets, UDP host task, geodesy, platform source | | external |

## Modules

| Module | Models | |
|---|---|---|
| `GimbalAxis` | `tick_axis_trap`, `ramp_rate`, `wrap_angle` | operators on an integer lattice |
| `GimbalSimulator` | the simulator | state machine, extends `GimbalAxis` |
| `EventLoop` | the loop of `main.rs` | state machine; the server is replaced by `CommandArrives` and `TelemetryTaken` |
| `TrilliumServer` | `serve`, `handle_connection`, and the controllers | state and actions, sharing the two channels |
| `TrilliumBridge` | `EventLoop` and `TrilliumServer` together | composition: one step of one task at a time |
| `BridgePromise` | what a controller may rely on | abstract specification implemented by `TrilliumBridge` |
| `OrionWire` | `checksum`, `frame`, `parse` | operators on sequences of bytes |
| `OrionReceiver` | `rx_buf` under every cut of the byte stream | state machine |
| `OrionCodec` | the `encode` and `decode` that `build.rs` generates | state machine, one step per `<Data>` element |
| `OrionConversions` | `convert/to_cigi.rs`, `convert/to_orion.rs` | operators, extends `GimbalSimulator` |
| `SimulatorReports` | `to_telemetry`, `to_sensor_extended_response`, `apply_hardware_telemetry`, the fault API | operators and actions, extends `OrionConversions` |
| `CommandPath` | what the loop does to the simulator between two ticks | state machine: composition of loop, conversions and simulator |
| `Configuration` | `config.rs` | operators |
| `Startup` | `main.rs` up to its loop, for several processes on one host | state machine, extends `Configuration` |
| `GimbalAxisProofs`, `GimbalSimulatorProofs`, `EventLoopProofs`, `CommandPathProofs`, `StartupProofs`, `TrilliumBridgeProofs`, `OrionReceiverProofs`, `OrionCodecProofs` | | lemmas and theorems, each about the module it is named after |
| `MC...` | | instances for TLC |

### Correspondence with the code

*GimbalSimulator.*  Per-axis fields are functions of the axis: `pos` is
`pan`/`tilt`, `rate` is `pan_rate`/`tilt_rate`, and so on.  Angles are whole
lattice steps and a tick is the unit of time, so `dt = 1` and the formulas keep
their shape; the division by twice the acceleration in the braking test is
multiplied out.  `ReceiveControl` is `apply_sensor_control` with its targets,
zoom and camera in the code's order; `MovePlatform` is `apply_entity_control`;
`Tick` is the whole of `tick`, one disjunct per mode, followed by the blackout
countdown, settling and look-point.  What a ray hits, what angles a ground point
needs and whether a track is confident are inputs.  `fov` is not an angle but
the camera and zoom it was computed for: what matters is whether it is stale.
`atLimit` are the two limit flags.  The gyro term is added after the clamps, as
in the code.

*EventLoop.*  A poll of one arm is one step (`arm` is the next to be polled), so
that other threads may act between two polls.  Commands are numbers; `applied`
is the one the simulator last saw.  `sofAge` and `srAge` are the elapsed times
of the two timestamps in ticks, cut off where the code stops distinguishing
them.  `silence` is a history variable: ticks since a packet was last offered.
A tick missed is skipped (`MissedTickBehavior::Skip`): `tickDue` is a flag.

*TrilliumServer.*  `phase` is the await the task stands at.  The frames of a
stream are one item each and noise is an item too; a frame cut by a read is not
yet read.  The parse loop is one step per frame, because each `send().await` may
wait.  A hang-up is a flag that the server's next read or write may notice: a
read may fail with data unread, a write may fail or still succeed.

*OrionReceiver.*  The same receive path on bytes, without the channel and the
buffer's limit.  `received` is a history variable.

*OrionCodec.*  A packet is the list of its `<Data>` elements with the attributes
`parse_field` reads (`fields`) and their values.  `BitWidth`, `Wire`, `Skipped`
and `IsPadding` are what the generator derives from them; one action is the run
of the block it emits for one element.  `acc` and `pos` are `bit_acc` and
`bit_pos` of the encoder, `byte` and `at` are `_bit_byte` and `_bit_pos` of the
decoder.  A nested structure is unrolled between two null elements, which flush
and reset as its own `encode` and `decode` do.  Floats are integers in small
units with the scale in those units, so that rounding, clamping and the cast are
computed exactly; an enum is its number.  `Deliver` hands any prefix of the
payload to the decoder.

*OrionConversions, SimulatorReports and CommandPath.*  The 0..1 scale of gain and
level is counted in `GainSteps` on either side of one half, so that the targets
of the instance convert exactly.  `lastCmd` is `last_cmd`; one iteration of the
loop is two steps, `Reapply` (the conversion with the simulator's camera and
zoom, and `apply_sensor_control`) and `Simulate` (`tick`), because what the
controller is told is judged after the second.  Both paths of the loop do the
same two things.  `EventLoop` says when they happen; here they alternate for
ever.  `Fault` is any call of the injection API, `HardwareReports` is
`apply_hardware_telemetry`; no task of the program calls either yet, so they are
placed where another arm of the loop could.  `frozen` are `frozen_pan` and
`frozen_tilt`; `lookFrom` is a history variable, what the last ray was cast
from.  Modes of the hardware beyond the five of the simulator
are left out: PositionNoLimits is served as Position, the others idle.

*Configuration and Startup.*  The settings are named as the fields of `Config`
and grouped by what `From<ConfigFile>` does to them: copied, converted from
degrees, cut to 0..1, or cut at 0.  A field of view is held as its logarithm, in
which the zoom curve is a straight line and degrees become radians by adding.  A
file is its mode, the settings and camera entries it has, and whether it is TOML
with values of the right types; a key outside `Settings` is an unknown key.  A
process goes through `loading`, `binding` and `serving` to `running` or
`exited`, one step per await or spawn of `main`; `host` is the CIGI host task of
a bridge, whose bind is external, as are starting and stopping a process.

## Runs

| Run | Checks | Instance |
|---|---|---|
| `gimbal_slew` | types, `HardStopExcursion`, `ThermalThrottle`, `NeverAcross`, `EventuallySettles` | hard stops, commands of all five modes for the pan, the tilt at rest, a ground point behind a stop, motor and thermal faults |
| `gimbal_camera` | `FovCurrent`, `BlackoutEnds`, `EventuallySettles` | continuous pan, cameras, zoom, two platforms and ground points |
| `gimbal_hard_stop` | refutes `WithinHardStops` | as `gimbal_slew` |
| `event_loop` | types, `SilenceBounded`, `NoCommandLost`, `LastCommandApplied`, `TicksForever`, `FallbackTakesOver` | bridge mode, channels of one or two places, counter wraps after 4 with period 3 |
| `bridge` | types, `CommandsInTransit`, `KeepsPromise` | bridge mode, channels and sockets of one or two places, one connection, two commands, noise |
| `bridge_live` | `CommandsInTransit`, `KeepsPromise`, `ControllersServed`, `CommandsReachGimbal` | simulator mode, two connections, two commands, no noise |
| `orion_receiver` | `ChunkingIrrelevant`, `FramesDelivered`, `SwapsNoticed` | three pieces out of four payloads, two kinds of noise and a false header; bytes 0..6 modulo 5 |
| `orion_codec` | types, `RoundTrip`, `WholeOrNothing` | six layouts of the schema, values at and beyond the ends of their ranges, every prefix of every packet |
| `orion_codec_option` | refutes `DependentFieldsDecoded` | the same |
| `command_path` | types, `LookFresh`, `CommandReached`, `TracksAsCommanded`, `LossTold`, `OpticsKept`, `EncoderHeld` | five commands, one packet of a real gimbal, encoder fault and loss of GPS injected and cleared at any time, one by one or all at once |
| `startup` | types, `Precedence`, `LegacyInStep`, `NeverDeaf`, `GivesUpForTrilliumOnly`, `StartsOrExits` | two processes, five files, three command lines, restarts |
| `startup_unknown_key` | refutes `UnknownKeysIgnored` | the same |

**Bounds.**  In `gimbal_slew` the commands move the pan only: the tilt has the same
operators and its own stops, two axes in motion are beyond TLC here, and the
theorems about the gimbal hold of both.  The lattice is small, but holds every relation the code
branches on: a top speed that takes several ticks to reach and to brake from,
odd and even remaining errors, targets on, inside and outside the stops, and
(with a continuous pan) a target across the half turn; `TurnBound` stops inputs
once the continuous pan has turned too far, since its angle is not wrapped.
The loop's channels are small enough to be full in many states; its timeouts are
a few ticks long and keep the order that matters, and `FrameSpace` leaves 1
modulo the telemetry period as 2^32 does modulo 5.  `MaxCommands`, `MaxNoise`,
`MaxConnections` and `MaxPieces` bound what the outside does; two connections
let one begin while traces of the other are still in the channels.  `SeqBound`
is where packets stop being numbered; the loop itself goes on.  The checksum
modulo 5 with bytes up to 6 has colliding bytes as the code's has (0 and 251).
The codec's bytes are real bytes; its layouts are one for each kind of mixture
in the schema (numbers only, a bit field across two bytes, padding of 31 bits,
groups that fill a byte and groups that do not, optional and skipped fields),
and its numbers have at most four bytes, scaled ones two, for TLC's integers.

In `command_path` pi is four steps and the stops lie nearer: one Position command
is beyond the stops and beyond the scale, one Track offset is within the
threshold and one beyond; the configured slew rate is twice that of the
conversion; the packet of the real gimbal stands beyond a stop, in another mode,
with another camera and zoomed in, so that a command starts from what no command
could leave behind.  The encoder fault and the loss of GPS are injected there, the two
that change a modelled report, alone and together; the motor and the heat are
`gimbal_slew`'s.  In `startup` the files are none, one that sets only
the mode, one with a misspelled key beside good ones, one with an unknown mode,
numbers out of range and camera entries, and one for a second gimbal on a port
of its own; the command lines have no flag, one, and two that contradict each
other.  Two processes suffice for every pair of claims on a port.

**Fairness.**  The simulator's tick is weakly fair: it is driven by a timer.
The loop's task and the server's task are weakly fair, since nothing but their
own awaits holds them up.  `NoTick` is strongly fair: the body of a tick takes
far less than 20 ms, so the loop again and again finds no tick due and polls the
arms below, which a biased select would otherwise starve.  The branches of the
server's select are strongly fair because `select!` without `biased` picks at
random among those that are ready.  In `CommandPath` the loop's two steps are
weakly fair together, being driven by the timer; commands, faults and hardware
telemetry may stop or go on, and `CommandReached` is stated for when they stop.
In `Startup` a process's own steps and its host's bind are weakly fair, as none
of them waits for another process.  Nothing is assumed of controllers, scene
generator or CIGI host; where a property needs them to read or to leave, it says
so.

## What the runs found

* A hard stop stops a rate command but not the servo: an axis that stands on its
  stop keeps its rate, and the position command after it moves the axis out by
  up to a stopping distance (`gimbal_hard_stop`; README.md:39, mod.rs:4).
* A key the program does not know takes the whole file with it: the sections deny
  unknown fields, and `Config::load` goes on with the built-in defaults
  (`startup_unknown_key`; README.md:92).  The comment at config.rs:517-519 says
  what the code does, and `Precedence` follows it.
* An optional field is encoded and never decoded, and what follows is read from
  its bytes (`orion_codec_option`; README.md:428).  The encoder does not look at
  the field it depends on either: `to_telemetry` sends an `ins_quat` and leaves
  `ins_rotation_option` at 0, with which the schema has no `insQuat`.

### Seen while translating

Not checked by a run of their own; the models do what the code does.

*Simulator.*  An axis that moves away from a target nearer than its stopping
distance is stopped in one tick, though mod.rs:598 promises to respect the
acceleration limit (`BrakedRate`).  After a ray that missed the Earth the
look-point of the last hit is still reported: the gate tests `look_alt`, which a
miss leaves alone, though mod.rs:862-863 says a miss is zeroed.  `wrap_angle`
returns [-pi, pi), not (-pi, pi] (mod.rs:922).  `los_ecef` and `gimbal_quat` are
built from the true position and angles under a GPS or encoder fault, and
`ins_quat` does not follow a lost GPS, though README.md:261 says the INS fields
do.  A `tilt_min` above `tilt_max` is accepted by the configuration and makes
`f32::clamp` panic on the first Position command.

*Loop.*  The platform's position never reaches the simulator: `main.rs` seeds a
watch channel with it and calls `apply_entity_control` nowhere, so the look-points
the simulator computes are those of a gimbal at 0 N 0 E, though README.md:43 says
they follow from the platform's position.  The last command goes on after its
controller has left, and the next controller is first sent up to four packets from
before it connected; no document says otherwise.  With SensorResponses but no StartOfFrame the fallback adds its own
telemetry to theirs, which main.rs:124-126 means to avoid: the age of the last
SensorResponse is tested on the scene generator's path only.  A track that was
lost goes on at the offset of the last command, since it is acquired again
before every tick; only the status says it is lost.

*Conversions.*  The scale of a rate is not shared, as convert/mod.rs:4-7 says:
the simulator decodes with the configured slew rate, so a commanded rate comes
out multiplied by that rate over 60 degrees per second.  A Geopoint command
always means 90 S 180 W, whatever its target: `ac_coupling` and `noise`, which
carry the ground point, are left at zero.  `PositionNoLimits` is converted to
Disabled.  Rate mode is told to the controller as Position.  Pan and tilt are not
on the telemetry path that to_orion.rs:11-13 names, since the loop sends
`sensor_response_to_telemetry` only.

*Start-up.*  README.md:92 also calls section headers cosmetic: a key in the wrong
section is an unknown key.  server.rs:25-26 says a port in use is
reported before any background task is spawned; the platform source is spawned
before (main.rs:62).  The option `--gimbal-ip` of README.md does not exist.
faults.rs:116 says the temperatures warm up over the first minute; they take
twenty.

*Wire.*  `parse` promises the first valid packet (wire.rs:39-41), but a false
header hides a complete packet behind it until as many bytes have arrived as it
claims.  `frame` cuts its length to one byte; no packet of the program is that
long.  README.md:427 says bit fields are packed MSB-first, they are packed
LSB-first (build.rs:822); the comment at build.rs:287 says float16 fields are
skipped on the wire, but only `encodedType="null"` sets `skip_enc` (398), so
they are written as four-byte floats (`Wire`); the bits of a field that lies
across two bytes (`Date`) are lost.

## Proofs

*Assumptions.*  Only the named ASSUMEs of the component modules: limits ordered
around zero, a positive acceleration, capacities and periods positive, gains and
slew rate divisible on the lattice, the frame counter's size 0 or 1 modulo the
telemetry period; command lines and files of the kinds `main.rs` and `config.rs`
read; two different sync bytes and a checksum modulus no larger than a byte's
range; clean noise without the second sync byte; and packets whose elements are of the kinds
`parse_field` knows, with no array or option of bit fields and no constant
number, which holds of the schema.  TLC evaluates them in the runs.

*Induction.*  The library's induction theorems cannot be instantiated by the
provers, but "a set of naturals that is not empty has a least element" can
(`LeastElement`).  What is computed byte by byte is proved from it, by a
counterexample with the least index, and the definitions it is proved about are
recursive functions: one shows that a function with the equation exists, and then
that the `CHOOSE` behind the definition is one (`SumsUnfold`, `AllFramesUnfold`,
`FlattenShape`, `LayoutUnfold`, `HornerExists`).

*The gimbal.*  `TypeCorrect`, `HardStops`, `FieldOfViewIsCurrent`,
`TargetsAreNotCrossed` and `ThrottleHolds` hold for every configuration and
every set of commands.  The hard stop bound is not inductive by itself: a servo
step is only safe towards a target that lies inside the stops, so the invariant
`MotionInv` adds `TargetsWithinStops`.  Its heart is an energy argument: twice
the deceleration times the distance past the stop, plus the square of the
outward speed, never exceeds the square of the top speed; a braking step trades
the second term for the first (`BrakedSquare`), which `GimbalAxisProofs` shows
axis by axis (`ServoEnergy`).  `ThrottleHolds` is about the servo and rate mode
only: Track mode moves at the tracker's rates, which the code does not throttle
(mod.rs:468-485).

*The event loop.*  `TypeCorrect`, `CommandsAreKept` and `SilenceIsBounded` hold
for every capacity, period and timeout.  `NoCommandLost` is inductive.
`SilenceBounded` needs `QuietSince`: while a SensorResponse is fresh its age
bounds the silence, since every tick needs a period, and once it is stale the
silence grows only as the frame counter leaves its last multiple of the
telemetry period, which the wrap can only bring closer (`NotDue`).

*The command path.*  Six theorems hold for every table of lenses, every set of
commands and hardware packets, and every fault.  Their invariant `PathInv` joins
the types, `TargetsWithinStops` (each converted Position is clamped again, and
the hardware leaves targets alone) and `Applied`, which says what the simulator
holds between `Reapply` and `Simulate`: in Track mode an active track at exactly
the offset of the last command.  `TracksTheCommand` and `LossIsTold` are steps
from it.  `OpticsAreKept` needs that the camera is in the table, since an index
outside it is cut to 0..2 on the way.  `LookIsFresh` is inductive by itself.  `EncoderIsHeld`
needs no invariant: of all that may happen while the fault lasts, its own
injection alone writes the frozen angles.  The
theorems reuse the lemmas of `GimbalSimulatorProofs` on a tick (`TickTypes`) and
on a command (`ControlStep`), which are stated for any SensorControl.

*The bridge.*  Three theorems about loop, server and controllers together, for
every capacity and any number of connections, commands and noise.  `BridgeInv`
has four parts: the types; `TelemetryOrder` (packets on their way to the
controller are numbered upwards, from above the last one seen to at most the last
one offered); `CommandOrder` (likewise for commands, from channel through
`rx_buf` to the socket, all of them above `last_cmd`); and `NothingLost` (every
command of the present connection is on that way or at most `last_cmd`).
`CommandsAreInOrder` restates two of them.  `PromiseIsKept` is the refinement
`BridgeSpec => Promise!Spec`, one lemma for each kind of step: a step of the loop
is a `Serve` of the promise because what the gimbal follows moves between
`applied` and `last_cmd`, which `CommandOrder` puts below `sent`, and a read of
the controller is a `See` because of `TelemetryOrder`.

*Framing.*  `ReceiverInv` says that the frames taken so far, followed by those in
`rx_buf` and any continuation of it, are those of the whole stream with that
continuation (`AsOneStream`), that `rx_buf` holds no complete frame when the
server waits (`Drained`), and that as long as the noise is clean what was
received and what is in flight parse to what was sent (`AllSent`).  It rests on `ParseStays`: what `parse`
finds does not change when bytes are appended, since a frame that is not complete
stops the search.  `ChunksDoNotMatter` and `EveryFrameDelivered` follow for every
stream and every cut of it.  `SwapsAreNoticed` is arithmetic modulo any modulus:
exchanging two neighbours changes the second sum by their difference.

*The codec.*  All three theorems hold for every list of elements the generator
accepts, not only for the packets of the schema.  `CodecTypeCorrect` is about
the accumulators: a field of `w` bits put above `pos` others stays below
`2 ^ (pos + w)` (`FilledShape`).

For `PacketsAreWhole` the invariant `OneLayout` says that one function of the
elements alone (`Layout`: where each ends, in complete bytes and bits of the next
one) describes both sides: `encode` has reached the place of the element it is
at, and `decode` has taken the bytes up to there, the bit reader holding the
started byte.  Places never go back (`LayoutOrder`), so that a block of `decode`
which finds too few bytes proves that fewer arrived than were sent
(`FailsShort`).

`PacketsComeBack` adds `Contents` to it: every whole field encoded so far stands
at its place in the bytes (`BytesWritten`), every bit field that fits its byte in
its bits of that byte or of the accumulator (`BitsWritten`), decode's input is
what is left of the output behind its place, its bit reader holds the byte of
its place (`Reading`), and what it has decoded is each number encoded and decoded
again (`GotBytes`) and each field's own bits (`GotBits`).  The steps of `encode`
keep what was written because later bits only add multiples of the power of two
where the earlier ones end, also those that fall out of the byte (`KeptBits`,
`DroppedBits`), and because what comes later lies further on (`BitsEnd`).  Then
two things remain that are about one element.  A number in the range of its wire
type is rebuilt from its bytes by Horner's rule (`HornerValue`), and one that was
scaled and rounded comes back, rounded again, to within half a step and half a
unit (`RoundedTwice`).  And a bit field in a group that `WithinBytes` accepts
starts at the bit the layout gives it, the bits before it modulo 8
(`GroupBits`).  `RoundTrip` leaves out what the code does not give back: values
outside the range of the scale, which are clamped, bit fields across two bytes,
and the optional fields (`orion_codec_option`).

*Start-up.*  `NobodyIsDeaf` and `OnlyTrilliumPortsCollide` hold for any number of
processes and files.  The invariant `StartInv` says who owns which port in which
phase, and that every configuration is a possible one, so that its ports are in
the domain of the two maps.  `LegacyFollowsTable` rests on the same fact: every
configuration comes out of `Load`, which writes both copies.  `LastFlagWins` and
`StartupTypeCorrect` need `ConfigInv`, which adds that a process past `loading`
has exactly the configuration of its file under its command line (`AsLoaded`).
For `LastFlagWins` the flags touch nothing but the mode, and `LoadedRest` says what
`Load` makes of each setting and camera entry: that of a file that counts, or the
default.

*Only model-checked.*  Liveness, for which the prover has neither fairness nor
ENABLED: `EventuallySettles`, `BlackoutEnds`, `LastCommandApplied`,
`TicksForever`, `FallbackTakesOver`, `ControllersServed`, `CommandsReachGimbal`,
`CommandReached` and `StartsOrExits`.  Every invariant and every action property
of the passing runs has a theorem.  What the proofs share with the runs is the
bound of four bytes a number, and two a scaled one, which is part of the model.

## Not modelled

Geodesy, jitter and noise (they do not feed back into the motion); the velocity,
clock and IG mode of the simulator and the quaternions, range source, track size
and gate size of its reports, which nothing reads back; the contents of CIGI
datagrams; logging and banners; the diagnostics and fault packets with their
temperatures and voltages; `orion_cmd_to_view_control`, which nothing calls; the
syntax of TOML; in the code generator, names, text and scale expressions,
variable arrays and numbers of eight bytes; `sim_core`, which is not in the
repository.  In the server, a half-closed connection (only the writing side shut
down) is not modelled: a hang-up ends both directions.  A panic has no
counterpart in the models: the configured limits are ordered by assumption.  In
`CommandPath` the command and the tick follow one another without the server;
that commands arrive there in order is `NoCommandLost` and `KeepsPromise`.

## Plan

1. Done: gimbal, event loop, server and their composition, framing, codec.
2. Done: conversions, hardware telemetry, reports, command path, configuration
   and start-up, with their first proofs.
3. Done: proofs of the composition and its refinement, of the framing, of the
   codec's layout and round trip, and of the configuration's precedence.
4. Proofs: bounds of the blackout; the safety half of the liveness properties,
   that what they wait for is never passed by.
5. Models: the diagnostics and fault packets; variable arrays in the codec; a
   server whose controller closes one direction only.
