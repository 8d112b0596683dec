SPECIFICATION Spec
CONSTANT Packets <- MCPackets
INVARIANT DependentFieldsDecoded
CHECK_DEADLOCK FALSE
