CONSTANTS
    FileSeq <- MCFileSeq
    Upstream <- MCUpstream
    Versions = {"c1", "c2"}
    Contents = {"local", "up2"}
    InitVer = "c1"
    Faults = {"raise", "kill"}
    MaxFaults = 1
    MaxRuns = 3
    MaxChanges = 2
SPECIFICATION Spec
INVARIANT PatchesWhole
