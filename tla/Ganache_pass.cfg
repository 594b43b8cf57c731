\* Ganache boots in 1 or 2 s, exits 1 or 5 s after a signal or ignores it;
\* RunTests makes two calls, each of which may raise.
SPECIFICATION Spec
CONSTANTS
    TestSteps = 2
    BootTimes = {1, 2}
    StartupFails = FALSE
    ExitDelays = {1, 5}
    ClockCap = 30
INVARIANT TypeOK StopLeavesNoGanache
PROPERTY ScriptTerminates
