CONSTANTS
    Pid = {5, 6}
    Exe = {"tree", "other"}
    MaxBorn = 3
SPECIFICATION Spec
INVARIANT StrangersStayOut
ACTION_CONSTRAINT NoTakeover
