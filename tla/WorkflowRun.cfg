CONSTANTS
    Calls = {"c1", "c2"}
    Names <- MCNames
    Called <- MCCalled
    Workflows = {"w"}
    Remote = {"a"}
    Inner <- MCInner
    Keys = {"b", "w", "via"}
    KeyOf <- MCKeyOf
    NoTool = "none"
    MaxDepth = 3
    Horizon = 2
    Limits <- MCLimits
    Configs <- MCConfigs
SPECIFICATION Spec
INVARIANTS TypeOK RateHolds RefusedCostNothing EveryCallOneRow
PROPERTIES FailureIsFinal TreeEnds
CHECK_DEADLOCK FALSE
