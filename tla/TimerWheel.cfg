\* Two threads create and cancel two timers and shut the wheel down.
CONSTANTS
    MaxTimers = 2
    Callers = {c1, c2}
    NoCaller = NoCaller
    Periods = {1}
    Poll = 1
    MaxTime = 2
SPECIFICATION FairSpec
INVARIANT TypeOK
INVARIANT OnePlace
INVARIANT NoBurst
INVARIANT AtMostOneMore
PROPERTY TimersFire
PROPERTY ShutdownReturns
PROPERTY QuietAfterShutdown
CHECK_DEADLOCK FALSE
