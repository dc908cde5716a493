SPECIFICATION Spec
CONSTANTS
    MaxSignals = 2
    MaxRestarts = 1
    MaxFaults = 1
PROPERTIES
    ResumeNeedsRm
    FileEngages
