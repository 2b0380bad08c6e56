SPECIFICATION ProcessLiveSpec
CONSTANTS
    Request = {r1, r2, r3}
INVARIANTS
    ProcessTypeOK
    CutOnlyAfterGrace
    ClosedAtExit
    HangsOnlyAfterFailure
    ProcessInv
PROPERTIES
    SignalEndsProcess
    FailureEndsProcess
CHECK_DEADLOCK FALSE
