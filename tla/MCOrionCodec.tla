----------------------------- MODULE MCOrionCodec -----------------------------
(***************************************************************************)
(* The layouts of OrionPublicProtocol.xml that differ in kind, with values *)
(* at the ends of their ranges, in between, and beyond.                    *)
(***************************************************************************)
EXTENDS OrionCodec

Plain == [kind |-> "none"]
Scaler(num, den) == [kind |-> "scaler", num |-> num, den |-> den]
UpTo(max) == [kind |-> "max", max |-> max]
Between(min, max) == [kind |-> "minmax", min |-> min, max |-> max]

Data(mem, enc, count, scale) ==
    [mem |-> mem, enc |-> enc, count |-> count, scale |-> scale,
     constant |-> <<>>, dependent |-> FALSE]
DependsOn(e) == [e EXCEPT !.dependent = TRUE]
Constant(e, c) == [e EXCEPT !.constant = <<c>>]

Same == <<"same">>
Bits(width) == <<"bitfield", width>>
Flag == Data(<<"unsigned32">>, Bits(1), 1, Plain)
Reserved(width) == Constant(Data(<<"null">>, Bits(width), 1, Plain), 0)
Ones(width) == Constant(Data(<<"null">>, Bits(width), 1, Plain), 2 ^ width - 1)
Integer(type) == Data(<<type>>, Same, 1, Plain)
StructureEdge == Data(<<"null">>, Same, 1, Plain)

BoolSample == {<<0>>, <<1>>}
ByteSample == {<<0>>, <<200>>}

\* Structure OrionCmd, 798-803, in 1e-4 rad and 0.01 s: the test's command,
\* targets that round and that clamp, and an impulse below and above its range.
OrionCmd ==
    LET fields == <<StructureEdge,
                    Data(<<"float32">>, <<"signed16">>, 2, Scaler(1, 10)),
                    Integer("unsigned8"), Integer("unsigned8"),
                    Data(<<"float32">>, <<"unsigned8">>, 1, Scaler(1, 10)),
                    StructureEdge>>
        Targets == {5000, -3003, 15, -400000}
    IN {[fields |-> fields, values |-> <<<<>>, <<p, t>>, m, <<1>>, i, <<>>>>] :
          p \in Targets, t \in Targets, m \in ByteSample,
          i \in {<<250>>, <<-7>>, <<2555>>}}

\* Structure Date, 289-293: month lies across two bytes.  A number follows.
Date ==
    LET fields == <<StructureEdge, Data(Bits(7), Same, 1, Plain),
                    Data(Bits(4), Same, 1, Plain), Data(Bits(5), Same, 1, Plain),
                    StructureEdge, Integer("signed8")>>
    IN {[fields |-> fields, values |-> <<<<>>, y, m, d, <<>>, n>>] :
          y \in {<<0>>, <<127>>}, m \in {<<1>>, <<12>>}, d \in {<<5>>, <<31>>},
          n \in {<<-128>>, <<127>>}}

\* Two of structure PosPreset, 832-837, in 1e-3 rad: a one-bit flag and 31
\* bits of padding.
PosPreset ==
    LET one == <<StructureEdge,
                 Data(<<"float32">>, <<"signed16">>, 1, UpTo(3142)),
                 Data(<<"float32">>, <<"unsigned16">>, 1, Between(-4712, 1571)),
                 Flag, Reserved(31), StructureEdge>>
    IN {[fields |-> one \o one,
         values |-> <<<<>>, p, t, e, <<>>, <<>>, <<>>, t, p, <<1>>, <<>>, <<>>>>] :
          p \in {<<0>>, <<1500>>, <<-3142>>}, t \in {<<-2000>>, <<1571>>},
          e \in BoolSample}

\* A packet of options: bit fields that fill one byte, then two bytes in part,
\* constant bits between them, and numbers that start on the next byte.
Options ==
    LET fields == <<Flag, Data(Bits(3), Same, 1, Plain), Ones(2),
                    Data(Bits(2), Same, 1, Plain),
                    Data(Bits(5), Same, 1, Plain), Integer("unsigned16"),
                    Data(Bits(1), Same, 1, Plain), Reserved(3), Flag,
                    Data(<<"null">>, <<"unsigned16">>, 1, Plain), Flag>>
    IN {[fields |-> fields,
         values |-> <<a, b, <<>>, <<2>>, c, n, a, <<>>, d, <<>>, e>>] :
          a \in BoolSample, b \in {<<0>>, <<5>>, <<8>>}, c \in {<<1>>, <<30>>},
          n \in {<<258>>, <<65535>>}, d \in BoolSample, e \in BoolSample}

\* The end of GeolocateTelemetryCore, 355-361: fields that depend on others,
\* the structure of the last one taken for its first number.
TelemetryEnd ==
    LET fields == <<Integer("unsigned8"),
                    DependsOn(Data(<<"float32">>, <<"signed16">>, 2, UpTo(1000))),
                    Data(<<"float32">>, <<"signed16">>, 1, UpTo(3142)),
                    Integer("signed8"), Integer("unsigned8"),
                    DependsOn(Data(<<"float32">>, <<"unsigned8">>, 1, Scaler(1, 1)))>>
    IN {[fields |-> fields, values |-> <<<<0>>, q, r, c, <<Len(t)>>, t>>] :
          q \in {<<>>, <<707, -707>>}, r \in {<<-1571>>, <<3142>>},
          c \in {<<-1>>, <<2>>}, t \in {<<>>, <<40>>}}

\* Fields with encodedType null, and float16 ones (771-773) as the generator
\* treats them.  Floats on the wire are their bit patterns.
Diagnostics ==
    LET fields == <<Data(<<"unsigned32">>, <<"null">>, 1, Plain), Flag,
                    Data(<<"unsigned32">>, <<"null">>, 1, Plain), Flag,
                    Data(<<"float32">>, <<"float16">>, 1, Plain),
                    Data(Bits(6), Same, 1, Plain),
                    Data(<<"unsigned32">>, <<"null">>, 2, Plain)>>
    IN {[fields |-> fields,
         values |-> <<<<9>>, a, <<8>>, b, f, c, <<7, 7>>>>] :
          a \in BoolSample, b \in BoolSample, f \in {<<0>>, <<1078530000>>},
          c \in {<<0>>, <<63>>}}

MCPackets == OrionCmd \cup Date \cup PosPreset \cup Options
                      \cup TelemetryEnd \cup Diagnostics
===============================================================================
