\* Every input file state, every leftover output file, every failing call.
SPECIFICATION Spec
CONSTANT Inputs = {"none", "small", "large"}
\* main returns; the terminal states are its exits.
CHECK_DEADLOCK FALSE
INVARIANTS NoForeignOutput NoDoubleFree
