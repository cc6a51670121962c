SPECIFICATION Spec
CONSTANTS
    Keys <- MCKeys
    Names <- MCNames
    Segments <- MCSegments
    Versions = {1, 2}
    NoVersion = NoVersion
    Security <- MCSecurity
    FirstFiles <- MCFiles
    FirstBaseline <- MCBaseline
    MaxEdits = 3
    MaxRuns = 1
CHECK_DEADLOCK FALSE
INVARIANTS AllSuitesCarryTheirPins
