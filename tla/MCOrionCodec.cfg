SPECIFICATION Spec
CONSTANT Packets <- MCPackets
INVARIANTS
    CodecTypeOK
    RoundTrip
    WholeOrNothing
CHECK_DEADLOCK FALSE
