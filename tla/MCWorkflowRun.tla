--------------------------- MODULE MCWorkflowRun ---------------------------
(* An instance of WorkflowRun: a server's tool whose native name is also that of a tool *)
(* of the wrapper's own, a workflow, a call by call_tool.                             *)
EXTENDS WorkflowRun

MCNames == {"a", "b", "w", "via"}
\* One client runs the workflow, the other uses the tools beside it, on its own or by call_tool.
MCCalled == [c \in Calls |-> IF c = "c1" THEN {"w"} ELSE {"b", "via"}]
MCInner == [n \in {"via"} |-> "a"]
MCKeyOf == [n \in MCNames |-> IF n = "a" THEN "b" ELSE n]

Minute == [amount |-> 1, window |-> 1]
Hour == [amount |-> 2, window |-> 2]
MCLimits == {Minute, Hour}

S(when, tool, return) == [when |-> when, tool |-> tool, return |-> return]
R(allowed, limits, gate) == [allowed |-> allowed, limits |-> limits, gate |-> gate]
Plain == R(TRUE, {}, FALSE)

\* The workflow calls a directly and by call_tool; a has both limits and b,
\* which may need a human, shares one.
Chained ==
    [agent |-> TRUE, tools |-> MCNames,
     rule |-> [n \in MCNames |-> CASE n = "a" -> R(TRUE, {Minute, Hour}, FALSE)
                                   [] n = "b" -> R(TRUE, {Hour}, TRUE)
                                   [] OTHER  -> Plain],
     defs |-> [n \in {"w"} |-> <<S(TRUE, "a", FALSE), S(FALSE, "none", FALSE), S(FALSE, "via", TRUE)>>]]

\* The workflow calls itself; a may need a human; b and via are gone.
Recursive ==
    [agent |-> TRUE, tools |-> {"a", "w"},
     rule |-> [n \in MCNames |-> CASE n = "a" -> R(TRUE, {Hour}, TRUE)
                                   [] n = "w" -> Plain
                                   [] OTHER  -> R(FALSE, {}, FALSE)],
     defs |-> [n \in {"w"} |-> <<S(TRUE, "w", FALSE), S(FALSE, "a", TRUE)>>]]

\* The agent is gone, and what it was allowed with it.
Removed == [Chained EXCEPT !.agent = FALSE, !.rule = [n \in MCNames |-> R(FALSE, {}, FALSE)]]

MCConfigs == {Chained, Recursive, Removed}
=============================================================================
