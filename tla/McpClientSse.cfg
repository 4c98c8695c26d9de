\* Every server; waits of two ticks to four, at most three events unread.
SPECIFICATION SseSpec
CONSTANTS
    Timeout = 4
    EndpointWait = 3
    MinWait = 2
    MaxHops = 2
    ProbeAnswers = {"redirect", "elsewhere", "whole", "open"}
    MaxQueue = 3
INVARIANTS SseTypeOK DeadlineHolds AnswerIsOwn
PROPERTIES RequestEnds
CHECK_DEADLOCK FALSE
