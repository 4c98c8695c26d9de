---------------------------- MODULE WorkflowRun ----------------------------
(***************************************************************************)
(* Calls that call: WorkflowRegistry.execute (workflow.py) and the meta    *)
(* tool call_tool run their steps through McpProxy.call_tool (proxy.py)    *)
(* again, one level deeper, each with its own target, rules, rate limits   *)
(* and approval.  A client's call is a stack of frames; its top frame acts *)
(* and the others await it.  Calls of several clients of one agent share   *)
(* the rate limiter, and reloads replace rules and definitions any time.   *)
(*                                                                         *)
(* Between the beginning of a call and its rules lies the outbound DLP     *)
(* approval, so entering a call is a location of its own.  What else may   *)
(* happen inside one call, and the writing of its row, which succeeds      *)
(* here, is CallPipeline.  A reload leaves the agent its servers.          *)
(***************************************************************************)
EXTENDS RateLimiter, Integers, FiniteSets

CONSTANTS Calls,      \* calls made by clients
          Names,      \* tool names: other tools, workflows, meta invocations
          Called,     \* for each of these calls, the names its client may give
          Workflows,  \* those that are workflows
          Remote,     \* tools of MCP servers: their server is read once, when the call starts
          Inner,      \* for each meta invocation the name it passes to call_tool
          KeyOf,      \* native_tool_name, under which the limiter counts
          NoTool,     \* a step that calls nothing
          MaxDepth,   \* _MAX_CALL_DEPTH: 10
          Configs,    \* the configurations a reload can install
          Horizon     \* bound: how long the history remembers a call

\* A step of a definition: does it have a condition, what does it call, does it return?
Step == [when : BOOLEAN, tool : Names \cup {NoTool}, return : BOOLEAN]

\* What rules say of a tool: is it in the rule set; rate limits; may parameters or a human
\* still refuse it?
Rule == [allowed : BOOLEAN, limits : SUBSET Limits, gate : BOOLEAN]

ASSUME RunAssumption ==
    /\ Called \in [Calls -> SUBSET Names]
    /\ Workflows \subseteq Names
    /\ NoTool \notin Names
    /\ Remote \subseteq Names \ Workflows
    /\ DOMAIN Inner \subseteq Names \ (Workflows \cup Remote)
    /\ \A n \in DOMAIN Inner : Inner[n] \in Names
    /\ KeyOf \in [Names -> Keys]
    /\ MaxDepth \in Nat \ {0}
    /\ \A cfg \in Configs : /\ cfg.agent \in BOOLEAN
                            /\ cfg.rule \in [Names -> Rule]
                            /\ cfg.tools \subseteq Names
                            /\ cfg.defs \in [Workflows -> Seq(Step)]
    /\ Horizon \in Nat /\ \A l \in Limits : l.window <= Horizon

VARIABLES config,   \* whether there is the agent, rules, tools that exist, definitions
          pc,       \* what the top of each call is doing
          name,     \* the tool it is entering or asking about
          stack,    \* frames: the tool, its steps as read when it started, the next step
          passed,   \* history: calls the limiter has let through, oldest first
          owed,     \* history: calls of the tree past the depth check less its audit rows
          broken,   \* history: something in the tree failed or was denied
          unlogged  \* history: a call of the tree is over and has no row

vars == <<config, pc, name, stack, passed, owed, broken, unlogged, hits>>

Locations == {"idle", "entering", "asking", "executing", "stepping", "failing", "ended"}

\* The types; and a name is held exactly while its call is entered or asked about.
TypeOK ==
    /\ LimiterTypeOK
    /\ config \in Configs
    /\ pc \in [Calls -> Locations]
    /\ name \in [Calls -> Names \cup {NoTool}]
    /\ stack \in [Calls -> Seq([tool : Names, steps : Seq(Step), at : Nat \ {0}])]
    /\ passed \in Seq([key : Keys, limits : SUBSET Limits, age : Nat])
    /\ owed \in [Calls -> Int]
    /\ broken \in [Calls -> BOOLEAN]
    /\ unlogged \in [Calls -> BOOLEAN]
    /\ \A c \in Calls : name[c] # NoTool <=> pc[c] \in {"entering", "asking"}

Init ==
    /\ LimiterInit
    /\ config \in Configs
    /\ pc = [c \in Calls |-> "idle"]
    /\ name = [c \in Calls |-> NoTool]
    /\ stack = [c \in Calls |-> <<>>]
    /\ passed = <<>>
    /\ owed = [c \in Calls |-> 0]
    /\ broken = [c \in Calls |-> FALSE]
    /\ unlogged = [c \in Calls |-> FALSE]

-----------------------------------------------------------------------------
(* Steps several actions share *)

Top(c) == stack[c][Len(stack[c])]
Below(c) == SubSeq(stack[c], 1, Len(stack[c]) - 1)

Goto(c, l) == pc' = [pc EXCEPT ![c] = l]
\* A call that gets past the depth check owes a row; a row that is written pays it.
Owe(c, d) == owed' = [owed EXCEPT ![c] = @ + d]

\* An exception: the frames below get it.
Raise(c) == /\ Goto(c, IF stack[c] = <<>> THEN "ended" ELSE "failing")
            /\ name' = [name EXCEPT ![c] = NoTool]
            /\ broken' = [broken EXCEPT ![c] = TRUE]

\* An exception that no except or finally clause of its own call is around: no row.
RaiseUnlogged(c) == Raise(c) /\ unlogged' = [unlogged EXCEPT ![c] = TRUE]

\* _deny writes the row and raises.
Deny(c) == Owe(c, -1) /\ Raise(c) /\ UNCHANGED <<stack, unlogged>>

\* (mutant) the step is done again.
AfterAgain(frame) ==
    [frame EXCEPT !.at = IF frame.steps[@].return THEN Len(frame.steps) + 1 ELSE @]

\* After a step: a step with "return" is the last one.
After(frame) ==
    [frame EXCEPT !.at = IF frame.steps[@].return THEN Len(frame.steps) + 1 ELSE @ + 1]

\* The top frame returns its result to the step below that called it.
Return(c) ==
    IF Len(stack[c]) = 1
    THEN Goto(c, "ended") /\ stack' = [stack EXCEPT ![c] = <<>>]
    ELSE /\ Goto(c, "stepping")
         /\ stack' = [stack EXCEPT ![c] = [Below(c) EXCEPT ![Len(Below(c))] = After(@)]]

\* (mutant) the name stays behind for the step that is next.
PushKeepsName(c, n, steps, l) ==
    /\ stack' = [stack EXCEPT ![c] = Append(@, [tool |-> n, steps |-> steps, at |-> 1])]
    /\ Goto(c, l)
    /\ UNCHANGED name

Push(c, n, steps, l) ==
    /\ stack' = [stack EXCEPT ![c] = Append(@, [tool |-> n, steps |-> steps, at |-> 1])]
    /\ Goto(c, l)
    /\ name' = [name EXCEPT ![c] = NoTool]

\* All that call_tool does is one call, whose result is its own.
JustCall(n) == [when |-> FALSE, tool |-> n, return |-> TRUE]

\* The call is let through to its target as it is now: a workflow starts on its present
\* definition, call_tool on the one name it was given, any other tool is awaited.
\* A tool of the wrapper's own that a reload has removed meanwhile fails, and is recorded.
Run(c) ==
    LET n == name[c]
        there == config.tools \cup Remote \cup DOMAIN Inner
    IN  \/ /\ n \in there
           /\ \/ n \in Workflows /\ Push(c, n, config.defs[n], "stepping")
              \/ n \in DOMAIN Inner /\ Push(c, n, <<JustCall(Inner[n])>>, "stepping")
              \/ n \notin Workflows \cup DOMAIN Inner /\ Push(c, n, <<>>, "executing")
           /\ UNCHANGED <<owed, broken, unlogged>>
        \/ n \notin there /\ Deny(c)

-----------------------------------------------------------------------------
(* McpProxy.call_tool *)

\* A call begins: too deep, it raises before anything is looked up; then its agent, which a
\* reload may have removed, is looked up; then its parameters are scanned.
Begin(c, n) ==
    \/ Len(stack[c]) >= MaxDepth /\ Raise(c) /\ UNCHANGED <<owed, unlogged>>
    \/ /\ Len(stack[c]) < MaxDepth
       /\ Owe(c, 1)
       /\ \/ ~config.agent /\ RaiseUnlogged(c)
          \/ /\ config.agent
             /\ Goto(c, "entering")
             /\ name' = [name EXCEPT ![c] = n]
             /\ UNCHANGED <<broken, unlogged>>

Start(c, n) ==
    /\ pc[c] = "idle"
    /\ Begin(c, n)
    /\ UNCHANGED <<config, stack, passed, hits>>

Entering(c) == pc[c] = "entering"
Rules(c) == config.rule[name[c]]
Permitted(c) == name[c] \in config.tools /\ Rules(c).allowed

\* The outbound scan blocks it, or has a human asked who refuses.
RefuseByScan(c) ==
    /\ Entering(c)
    /\ Deny(c)
    /\ UNCHANGED <<config, passed, hits>>

RefuseByRules(c) ==
    /\ Entering(c)
    /\ ~Permitted(c)
    /\ Deny(c)
    /\ UNCHANGED <<config, passed, hits>>

RefuseByRate(c) ==
    /\ Entering(c)
    /\ Permitted(c)
    /\ Disallow(KeyOf[name[c]], Rules(c).limits)
    /\ Deny(c)
    /\ UNCHANGED <<config, passed>>

\* The rest of the checks: the parameters may be refused, a human may have to be asked.
Checked(c) ==
    \/ ~Rules(c).gate /\ Run(c)
    \/ Rules(c).gate /\ Deny(c)
    \/ Rules(c).gate /\ Goto(c, "asking") /\ UNCHANGED <<name, stack, owed, broken, unlogged>>

Remember(c) ==
    passed' = IF Rules(c).limits = {} THEN passed
              ELSE Append(passed, [key |-> KeyOf[name[c]], limits |-> Rules(c).limits, age |-> 0])

\* (mutant) a call on behalf of a workflow or of call_tool is not counted.
EnterNestedUncounted(c) ==
    /\ Entering(c)
    /\ Permitted(c)
    /\ \/ stack[c] = <<>> /\ Allow(KeyOf[name[c]], Rules(c).limits)
       \/ stack[c] # <<>> /\ UNCHANGED hits
    /\ Remember(c)
    /\ Checked(c)
    /\ UNCHANGED config

\* What the limiter lets through counts, whether or not parameters or a human refuse it next.
Enter(c) ==
    /\ Entering(c)
    /\ Permitted(c)
    /\ Allow(KeyOf[name[c]], Rules(c).limits)
    /\ Remember(c)
    /\ Checked(c)
    /\ UNCHANGED config

\* The approval that was asked about this call.
Granted(c) ==
    /\ pc[c] = "asking"
    /\ Run(c)
    /\ UNCHANGED <<config, passed, hits>>

Denied(c) ==
    /\ pc[c] = "asking"
    /\ Deny(c)
    /\ UNCHANGED <<config, passed, hits>>

\* The target of the top frame answers: its row, then its result to the frame below.
Answer(c) ==
    /\ pc[c] = "executing"
    /\ Owe(c, -1)
    /\ Return(c)
    /\ UNCHANGED <<config, name, passed, broken, unlogged, hits>>

\* The target fails, or what it or a workflow returned may not pass inbound DLP.
Fail(c) ==
    /\ \/ pc[c] = "executing"
       \/ pc[c] = "stepping" /\ Top(c).at > Len(Top(c).steps)
    /\ Raise(c)
    /\ UNCHANGED <<config, stack, passed, owed, unlogged, hits>>

\* (mutant) a workflow goes on with its next step.
UnwindToNextStep(c) ==
    /\ pc[c] = "failing"
    /\ Return(c)
    /\ Owe(c, -1)
    /\ UNCHANGED <<config, name, passed, broken, unlogged, hits>>

\* (mutant) the row is written where the failure happened only.
UnwindUnrecorded(c) ==
    /\ pc[c] = "failing"
    /\ stack' = [stack EXCEPT ![c] = Below(c)]
    /\ Goto(c, IF Len(stack[c]) = 1 THEN "ended" ELSE "failing")
    /\ Owe(c, IF Top(c).steps = <<>> THEN -1 ELSE 0)
    /\ UNCHANGED <<config, name, passed, broken, unlogged, hits>>

\* The exception leaves the top frame, whose finally clause writes its row.
Unwind(c) ==
    /\ pc[c] = "failing"
    /\ stack' = [stack EXCEPT ![c] = Below(c)]
    /\ Goto(c, IF Len(stack[c]) = 1 THEN "ended" ELSE "failing")
    /\ Owe(c, -1)
    /\ UNCHANGED <<config, name, passed, broken, unlogged, hits>>

-----------------------------------------------------------------------------
(* WorkflowRegistry.execute and the meta tool *)

AtStep(c) == pc[c] = "stepping" /\ Top(c).at <= Len(Top(c).steps)
TheStep(c) == Top(c).steps[Top(c).at]
Advance(c, frame) == stack' = [stack EXCEPT ![c][Len(stack[c])] = frame]

\* Its condition is false, or cannot be evaluated.
SkipStep(c) ==
    /\ AtStep(c)
    /\ TheStep(c).when
    /\ Advance(c, [Top(c) EXCEPT !.at = @ + 1])
    /\ UNCHANGED <<config, pc, name, passed, owed, broken, unlogged, hits>>

CallStep(c) ==
    /\ AtStep(c)
    /\ TheStep(c).tool # NoTool
    /\ Begin(c, TheStep(c).tool)
    /\ UNCHANGED <<config, stack, passed, hits>>

PlainStep(c) ==
    /\ AtStep(c)
    /\ TheStep(c).tool = NoTool
    /\ Advance(c, After(Top(c)))
    /\ UNCHANGED <<config, pc, name, passed, owed, broken, unlogged, hits>>

\* Past its last step: its row, then its result to the frame below.
FinishSteps(c) ==
    /\ pc[c] = "stepping"
    /\ Top(c).at > Len(Top(c).steps)
    /\ Owe(c, -1)
    /\ Return(c)
    /\ UNCHANGED <<config, name, passed, broken, unlogged, hits>>

-----------------------------------------------------------------------------
(* The surroundings *)

\* The client goes away: whatever is awaited raises.  A call that waits for the approval its
\* rules ask for is recorded, one that waits for that of the outbound scan is not.
Cancel(c) ==
    /\ \/ pc[c] = "entering" /\ RaiseUnlogged(c) /\ UNCHANGED owed
       \/ /\ pc[c] \in {"asking", "executing", "stepping"}
          /\ Raise(c)
          /\ Owe(c, IF pc[c] = "asking" THEN -1 ELSE 0)
          /\ UNCHANGED unlogged
    /\ UNCHANGED <<config, stack, passed, hits>>

\* Bound: no reload once every call has failed or ended.
Reload ==
    /\ \E c \in Calls : pc[c] \notin {"failing", "ended"}
    /\ \E cfg \in Configs : config' = cfg
    /\ UNCHANGED <<pc, name, stack, passed, owed, broken, unlogged, hits>>

Tick ==
    LET gone == Gone([i \in DOMAIN passed |-> passed[i].age], Horizon)
    IN  /\ LimiterTick
        /\ passed' = [i \in 1..(Len(passed) - gone) |-> [passed[i + gone] EXCEPT !.age = @ + 1]]
        /\ UNCHANGED <<config, pc, name, stack, owed, broken, unlogged>>

-----------------------------------------------------------------------------
(* Specification *)

Checks(c) == RefuseByScan(c) \/ RefuseByRules(c) \/ RefuseByRate(c) \/ Enter(c)
Target(c) == Granted(c) \/ Denied(c) \/ Answer(c) \/ Fail(c) \/ Unwind(c)
Steps(c) == SkipStep(c) \/ CallStep(c) \/ PlainStep(c) \/ FinishSteps(c)

Own(c) == Checks(c) \/ Target(c) \/ Steps(c)

Next ==
    \/ \E c \in Calls : Own(c) \/ Cancel(c) \/ \E n \in Called[c] : Start(c, n)
    \/ Reload
    \/ Tick

\* Requests to a human time out.  Targets are taken to answer or fail: requests to servers and
\* gateways do so after a silence, but nothing bounds an answer that keeps coming, or a plugin.
Spec == Init /\ [][Next]_vars /\ \A c \in Calls : WF_vars(Own(c))

-----------------------------------------------------------------------------
(* Properties *)

\* The calls let through that count for a limit of a key and are no older than an age.
Through(k, l, age) ==
    {i \in DOMAIN passed : /\ passed[i].key = k
                           /\ l \in passed[i].limits
                           /\ passed[i].age <= age}

\* However a call comes about - from the client, a step of a workflow, call_tool, or all of
\* them at once - no limit lets more of them through within its window than its amount,
\* reloads in between or not.
RateHolds == \A k \in Keys, l \in Limits : Cardinality(Through(k, l, l.window)) <= l.amount

\* A call that is refused, by the limiter or before it, uses up nothing of any limit: what
\* the limiter counts is the calls it let through.
RefusedCostNothing ==
    \A k \in Keys, l \in Limits : Len(hits[<<k, l>>]) = Cardinality(Through(k, l, l.window))

\* Once anything in a tree was refused, failed or was cancelled, nothing more is run in it:
\* what is under way above and below it is only given up.
FailureIsFinal ==
    [][\A c \in Calls : broken[c] => /\ Len(stack'[c]) <= Len(stack[c])
                                     /\ stack'[c] = SubSeq(stack[c], 1, Len(stack'[c]))]_vars

\* Every call of a tree that got past the depth check leaves one row, except those still
\* under way: whether it ran, was refused, failed itself or was given up because of a step.
\* No more than one has none, the innermost: its client left while a human was asked about its
\* parameters (proxy.py:297), where LLM_GUIDE.md:1206 promises a row, or its agent was removed
\* by a reload (proxy.py:255).
EveryCallOneRow ==
    \A c \in Calls : owed[c] = Len(stack[c]) + (IF pc[c] \in {"entering", "asking"} THEN 1 ELSE 0)
                                             + (IF unlogged[c] THEN 1 ELSE 0)

\* Every tree of calls ends, also that of a workflow that calls itself.
TreeEnds == \A c \in Calls : (pc[c] # "idle") ~> (pc[c] = "ended")
=============================================================================
