\* As Ganache_pass, but Ganache may die while booting.
SPECIFICATION Spec
CONSTANTS
    TestSteps = 2
    BootTimes = {1, 2}
    StartupFails = TRUE
    ExitDelays = {1, 5}
    ClockCap = 30
PROPERTY ScriptTerminates
