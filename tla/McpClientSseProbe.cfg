\* A server that answers every GET with an event stream it keeps open.
SPECIFICATION SseSpec
CONSTANTS
    Timeout = 4
    EndpointWait = 3
    MinWait = 2
    MaxHops = 2
    ProbeAnswers = {"open"}
    MaxQueue = 3
INVARIANTS ServedIsPosted
CHECK_DEADLOCK FALSE
