\* An input over 1 MiB is read with every chunk copied to offset 0.
SPECIFICATION Spec
CONSTANT Inputs = {"small", "large"}
CHECK_DEADLOCK FALSE
INVARIANT CompressedDataIsInput
