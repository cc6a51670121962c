SPECIFICATION Spec
CONSTANTS
    Keys <- MCKeys
    Names <- MCNames
    Segments <- MCSegments
    Versions = {1, 2}
    NoVersion = NoVersion
    Security <- MCSecurity
    FirstFiles <- MCFiles
    FirstBaseline <- MCBaseline
    MaxEdits = 2
    MaxRuns = 2
CHECK_DEADLOCK FALSE
INVARIANTS ExitFollowsThePassRules SecurityIsNeverWaived RecordAgreesWithExit
