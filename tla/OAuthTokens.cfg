\* Two calls and two visits, both grant types, both kinds of provider.
SPECIFICATION Spec
CONSTANTS
    Callers = {c1, c2}
    Visits = {v1, v2}
    States = {s1, s2}
    MaxIssued = 3
    NoToken = NoToken
    NoReply = NoReply
    Rejected = Rejected
    NoState = NoState
INVARIANTS ConnectionStaysUsable OneExchangePerState
PROPERTIES RequestsEnd
