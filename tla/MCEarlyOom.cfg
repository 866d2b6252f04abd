CONSTANTS
    Proc = {p1, p2}
    NoProc = NoProc
    MaxWeight = 2
    Sustain = 2
    Cooldown = 3
    ReclaimCooldown = 4
    ToolMax = 2
SPECIFICATION Spec
INVARIANTS TypeOK LargestIsChosen
PROPERTIES DecisionsAreSustained ReclaimSpacing ActionsAreRecorded PressureIsRelieved
