CONSTANTS
    Pid = {5, 6}
    Exe = {"tree", "runtime"}
    MaxBorn = 3
SPECIFICATION Spec
INVARIANTS TypeOK InspectedIsCovered RootKeepsScope StoppedListIsComplete
PROPERTIES CoverageSettles
ACTION_CONSTRAINT FirstPidIsLeast
