SPECIFICATION Spec
\* main returns: the program stops.
CHECK_DEADLOCK FALSE
INVARIANT NoDoubleFree
