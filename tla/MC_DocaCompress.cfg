SPECIFICATION Spec
\* main returns: the program stops.
CHECK_DEADLOCK FALSE
INVARIANTS ObjectsReleasedOnExit DestroyOnlyLive HwJobsOnLiveObjects DecompressedOutputIsOriginal
