CONSTANTS
    Names = {c1, c2}
    Users = {u1, u2}
    Ports = {p443}
    ForeignFilters = {f1}
    MaxCrashes = 1
    MaxFaults = 1
SPECIFICATION Spec
INVARIANTS TypeOK RecordsWithItsFilters CompletedIsConverted LeftoversNeedAFault
PROPERTIES OnlyItsOwnCapture CaptureEnds
