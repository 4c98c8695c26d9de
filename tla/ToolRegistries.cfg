\* One name, every configuration of the four registries, two calls.
SPECIFICATION Spec
CONSTANTS
    Calls = {c1, c2}
    Names = {n1}
    good = good
    bad = bad
    remote = remote
    NoSource = NoSource
    Sources <- MCSources
    Python <- MCPython
    Broken <- MCBroken
    Configs <- MCConfigs
INVARIANTS WorkflowsFollow BrokenNeverRuns
PROPERTIES RemovedNeverRuns
CHECK_DEADLOCK FALSE
