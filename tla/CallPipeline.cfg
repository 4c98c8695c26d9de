\* Two concurrent calls under hot reloads.
SPECIFICATION Spec
CONSTANTS
    Calls = {c1, c2}
    t1 = t1
    Tools <- MCTools
    ToolOf <- MCToolOf
    Configs <- MCConfigs
    Faulty = {c1}
INVARIANTS ExecutedOnlyIfPermitted DeniedMeansNotExecuted OneRowPerCall ToldIsOnRecord InboundHeld
PROPERTIES ExecutedGetsRecorded
CHECK_DEADLOCK FALSE
