--------------------------- MODULE CallPipeline ---------------------------
(***************************************************************************)
(* McpProxy.call_tool (proxy.py) for calls that run concurrently on the    *)
(* event loop, with AuditLogger.log (logger.py) as its storage and         *)
(* _hot_reload (server.py) replacing the configuration between any two     *)
(* steps.  An action is the code between two awaits, so DLP scan, target   *)
(* resolution, rules, rate limit and parameter check are one step, and a   *)
(* reload can only fall where the call waits.                              *)
(*                                                                         *)
(* A call waits for a human in askOut (DLP outbound), askRule (require_    *)
(* approval) and askIn (DLP inbound).  ApprovalManager.request is seen     *)
(* through HumanGate, which Approvals implements: it comes back granted or *)
(* refused (denied, timed out), or the client is cancelled.                *)
(* One call is one element of Calls; nested calls (call_tool, workflows)   *)
(* are calls of their own here, and which one is nested in which is left   *)
(* open: WorkflowRun has their nesting.                                    *)
(***************************************************************************)
EXTENDS Naturals

CONSTANTS Calls,      \* the invocations of call_tool
          Tools,
          ToolOf,     \* the tool each call names
          Configs,    \* the configurations a reload can install
          Faulty      \* bound: the calls whose audit rows may fail to be written

\* What the agent's rules say of a tool: nothing or not listed; in the allow list;
\* constrained by rate or parameters; constrained with require_approval.
Verdicts == {"none", "listed", "constrained", "approval"}

\* Where _resolve_target finds a tool: a native, plugin, gateway, workflow or meta tool;
\* a downstream server; nowhere.
Places == {"virtual", "downstream", "nowhere"}

\* AgentConfig, as far as a call reads it: assigned are the tools of its mcp_servers.
AgentConfig == [logOnly : BOOLEAN, assigned : SUBSET Tools]

\* agent: whether there is an AgentConfig.  rule, place: of its rules, of all servers and tools.
Config == [agent : BOOLEAN, cfg : AgentConfig,
           rule : [Tools -> Verdicts], place : [Tools -> Places]]

ASSUME PipelineAssumption ==
    /\ ToolOf \in [Calls -> Tools]
    /\ Faulty \subseteq Calls
    /\ Configs \subseteq Config
    /\ Configs # {}

VARIABLES config,    \* the live WrapperConfig, as far as a call reads it
          pc,        \* where each call stands
          agentCfg,  \* the AgentConfig it read at the start, kept over askOut
          out,       \* its outbound DLP scan: clean (redacted, warned), approve, block
          inb,       \* its inbound DLP scan
          basis,     \* history: the verdict it was let through on
          target,    \* the target it resolved, kept over the awaits
          granted,   \* history: <<call, question>> a human granted
          executed,  \* calls whose request reached the tool
          outcome,   \* what the try block ended with: decides the final row
          row,       \* the audit rows, per call and place in the code that writes them
          durable,   \* <<call, site>> rows that a commit has covered
          told       \* what the client got back

vars == <<config, pc, agentCfg, out, inb, basis, target, granted, executed, outcome, row,
          durable, told>>

Questions == {"out", "rule", "in"}
Sites == {"deny", "cancel", "final"}    \* _deny, the except clause, the finally clause

\* A row: not written; INSERT queued; COMMIT queued; COMMIT done; or, when the writer
\* was cancelled at the INSERT, queued and then inserted with no COMMIT to follow.
\* Or the row could not be made or inserted, or its COMMIT failed.
Phases == {"no", "insert", "commit", "done", "stray", "inserted", "failed", "uncommitted"}

Locations == {"idle", "askOut", "askRule", "executing", "sent", "askIn", "finishing",
              "anomaly", "denying", "denyAnomaly", "ended"}

TypeOK ==
    /\ config \in Configs
    /\ pc \in [Calls -> Locations]
    /\ agentCfg \in [Calls -> AgentConfig]
    /\ out \in [Calls -> {"clean", "approve", "block"}]
    /\ inb \in [Calls -> {"clean", "approve", "block"}]
    /\ basis \in [Calls -> Verdicts \cup {"exempt"}]
    /\ target \in [Calls -> Places]
    /\ granted \subseteq Calls \X Questions
    /\ executed \subseteq Calls
    /\ outcome \in [Calls -> {"none", "result", "denied", "error", "cancelled"}]
    /\ row \in [Calls -> [Sites -> Phases]]
    /\ durable \subseteq Calls \X Sites
    /\ told \in [Calls -> {"none", "result", "denied", "error", "cancelled"}]

\* The value of agentCfg when the call has no use for it, and so before the call.
Unread == [logOnly |-> FALSE, assigned |-> {}]

Init ==
    /\ config \in Configs
    /\ pc = [c \in Calls |-> "idle"]
    /\ agentCfg = [c \in Calls |-> Unread]
    /\ out = [c \in Calls |-> "clean"]
    /\ inb = [c \in Calls |-> "clean"]
    /\ basis = [c \in Calls |-> "none"]
    /\ target = [c \in Calls |-> "nowhere"]
    /\ granted = {}
    /\ executed = {}
    /\ outcome = [c \in Calls |-> "none"]
    /\ row = [c \in Calls |-> [s \in Sites |-> "no"]]
    /\ durable = {}
    /\ told = [c \in Calls |-> "none"]

-----------------------------------------------------------------------------
(* Steps several handlers share *)

Goto(c, l) == pc' = [pc EXCEPT ![c] = l]

\* The AgentConfig has been read for the last time.
Forget(c) == agentCfg' = [agentCfg EXCEPT ![c] = Unread]

\* Queue the INSERT of one audit row.
Write(c, site) == row' = [row EXCEPT ![c][site] = "insert"]

\* The call is over and the client is told.
Tell(c, what) == /\ Goto(c, "ended")
                 /\ told' = [told EXCEPT ![c] = what]

\* _deny(): write the row, then the anomaly check, then raise ToolDeniedError.
Deny(c) == Goto(c, "denying") /\ Write(c, "deny")

\* The try block ends: finally writes its row behind asyncio.shield.
Finish(c, how) ==
    /\ outcome' = [outcome EXCEPT ![c] = how]
    /\ Goto(c, "finishing")
    /\ Write(c, "final")

\* Where the tool is found by an agent: a server must be one of the agent's.
Found(c, cfg) ==
    LET p == config.place[ToolOf[c]]
    IN  IF p = "downstream" /\ ToolOf[c] \notin cfg.assigned THEN "nowhere" ELSE p

\* log_only exempts only calls to downstream servers (and to no server at all):
\* native, plugin, gateway, workflow and meta tools are always under the rules.
Exempt(c, cfg) == cfg.logOnly /\ Found(c, cfg) # "virtual"

Exempted(c) ==
    /\ basis' = [basis EXCEPT ![c] = "exempt"]
    /\ Goto(c, "executing")
    /\ UNCHANGED row

\* The verdict of the rules.  A constraint also denies on its rate limit and on a parameter.
Judged(c, p, v) ==
    \/ /\ p = "nowhere" \/ v # "listed"
       /\ Deny(c)
       /\ UNCHANGED basis
    \/ /\ p # "nowhere"
       /\ v # "none"
       /\ basis' = [basis EXCEPT ![c] = v]
       /\ Goto(c, IF v = "approval" THEN "askRule" ELSE "executing")
       /\ UNCHANGED row

\* (mutant) log_only exempts every tool.
EnforceLogOnlyAll(c, cfg) ==
    /\ target' = [target EXCEPT ![c] = Found(c, cfg)]
    /\ \/ cfg.logOnly /\ Exempted(c)
       \/ ~cfg.logOnly /\ Judged(c, Found(c, cfg), config.rule[ToolOf[c]])

\* Resolve the target and enforce the rules of the configuration of this very moment, but
\* with the AgentConfig that was read when the call started: its log_only and its servers.
Enforce(c, cfg) ==
    /\ target' = [target EXCEPT ![c] = Found(c, cfg)]
    /\ \/ Exempt(c, cfg) /\ Exempted(c)
       \/ ~Exempt(c, cfg) /\ Judged(c, Found(c, cfg), config.rule[ToolOf[c]])

-----------------------------------------------------------------------------
(* The call *)

\* The agent has no configuration (a reload removed it): ValueError, nothing logged.
StartUnknown(c) ==
    /\ pc[c] = "idle"
    /\ ~config.agent
    /\ Tell(c, "error")
    /\ UNCHANGED <<config, agentCfg, out, inb, basis, target, granted, executed, outcome, row, durable>>

\* The outbound scan comes first, before any rule.
Start(c) ==
    /\ pc[c] = "idle"
    /\ config.agent
    /\ \/ Enforce(c, config.cfg) /\ UNCHANGED <<agentCfg, out>>
       \/ /\ out' = [out EXCEPT ![c] = "approve"]
          /\ agentCfg' = [agentCfg EXCEPT ![c] = config.cfg]
          /\ Goto(c, "askOut")
          /\ UNCHANGED <<basis, target, row>>
       \/ /\ out' = [out EXCEPT ![c] = "block"]
          /\ Deny(c)
          /\ UNCHANGED <<agentCfg, basis, target>>
    /\ UNCHANGED <<config, inb, granted, executed, outcome, durable, told>>

OutGranted(c) ==
    /\ pc[c] = "askOut"
    /\ granted' = granted \cup {<<c, "out">>}
    /\ Enforce(c, agentCfg[c])
    /\ Forget(c)
    /\ UNCHANGED <<config, out, inb, executed, outcome, durable, told>>

RuleGranted(c) ==
    /\ pc[c] = "askRule"
    /\ granted' = granted \cup {<<c, "rule">>}
    /\ Goto(c, "executing")
    /\ UNCHANGED <<config, agentCfg, out, inb, basis, target, executed, outcome, row, durable, told>>

AskRefused(c) ==
    /\ pc[c] \in {"askOut", "askRule"}
    /\ Deny(c)
    /\ Forget(c)
    /\ UNCHANGED <<config, out, inb, basis, target, granted, executed, outcome, durable, told>>

\* No target, a tool unloaded since, a credential that cannot be had.
Fail(c) ==
    /\ pc[c] = "executing"
    /\ Finish(c, "error")
    /\ UNCHANGED <<config, agentCfg, out, inb, basis, target, granted, executed, durable, told>>

Send(c) ==
    /\ pc[c] = "executing"
    /\ target[c] # "nowhere"
    /\ executed' = executed \cup {c}
    /\ Goto(c, "sent")
    /\ UNCHANGED <<config, agentCfg, out, inb, basis, target, granted, outcome, row, durable, told>>

\* An error answer, an exception, or a read of the answer that times out.
ReplyFailed(c) ==
    /\ pc[c] = "sent"
    /\ Finish(c, "error")
    /\ UNCHANGED <<config, agentCfg, out, inb, basis, target, granted, executed, durable, told>>

\* A workflow or call_tool fails with the denial of a call nested in it: the client gets that
\* denial, and the row of this call says that an allowed one ended in an error.
NestedDenied(c) ==
    /\ pc[c] = "sent"
    /\ target[c] = "virtual"
    /\ \E d \in Calls \ {c} : told[d] = "denied"
    /\ Finish(c, "denied")
    /\ UNCHANGED <<config, agentCfg, out, inb, basis, target, granted, executed, durable, told>>

\* The result of a tool of the wrapper's own cannot be made JSON of: json.dumps raises in the
\* finally clause, before there is a row.
RowUnmade(c) ==
    /\ pc[c] = "sent"
    /\ c \in Faulty /\ target[c] = "virtual"
    /\ row' = [row EXCEPT ![c]["final"] = "failed"]
    /\ Tell(c, "error")
    /\ UNCHANGED <<config, agentCfg, out, inb, basis, target, granted, executed, outcome, durable>>

\* (mutant) a response to be approved is returned at once.
ReplyUnapproved(c) ==
    /\ pc[c] = "sent"
    /\ \/ Finish(c, "result") /\ UNCHANGED inb
       \/ inb' = [inb EXCEPT ![c] = "block"] /\ Finish(c, "denied")
       \/ inb' = [inb EXCEPT ![c] = "approve"] /\ Finish(c, "result")
    /\ UNCHANGED <<config, agentCfg, out, basis, target, granted, executed, durable, told>>

\* An answer, scanned inbound.  A blocked one raises ToolDeniedError inside the try.
Reply(c) ==
    /\ pc[c] = "sent"
    /\ \/ Finish(c, "result") /\ UNCHANGED inb
       \/ inb' = [inb EXCEPT ![c] = "block"] /\ Finish(c, "denied")
       \/ /\ inb' = [inb EXCEPT ![c] = "approve"]
          /\ Goto(c, "askIn")
          /\ UNCHANGED <<outcome, row>>
    /\ UNCHANGED <<config, agentCfg, out, basis, target, granted, executed, durable, told>>

InGranted(c) ==
    /\ pc[c] = "askIn"
    /\ granted' = granted \cup {<<c, "in">>}
    /\ Finish(c, "result")
    /\ UNCHANGED <<config, agentCfg, out, inb, basis, target, executed, durable, told>>

InRefused(c) ==
    /\ pc[c] = "askIn"
    /\ Finish(c, "denied")
    /\ UNCHANGED <<config, agentCfg, out, inb, basis, target, granted, executed, durable, told>>

\* (mutant) the row is written by a task nobody awaits.
FinishedUnawaited(c) ==
    /\ pc[c] = "finishing"
    /\ \/ outcome[c] = "result" /\ Goto(c, "anomaly") /\ UNCHANGED told
       \/ outcome[c] # "result" /\ Tell(c, outcome[c])
    /\ UNCHANGED <<config, agentCfg, out, inb, basis, target, granted, executed, outcome, row, durable>>

\* The final row is committed: a result goes on to the anomaly check, an exception
\* is re-raised.
Finished(c) ==
    /\ pc[c] = "finishing"
    /\ row[c]["final"] = "done"
    /\ \/ outcome[c] = "result" /\ Goto(c, "anomaly") /\ UNCHANGED told
       \/ outcome[c] # "result" /\ Tell(c, outcome[c])
    /\ UNCHANGED <<config, agentCfg, out, inb, basis, target, granted, executed, outcome, row, durable>>

DenyLogged(c) ==
    /\ pc[c] = "denying"
    /\ row[c]["deny"] = "done"
    /\ Goto(c, "denyAnomaly")
    /\ UNCHANGED <<config, agentCfg, out, inb, basis, target, granted, executed, outcome, row,
                   durable, told>>

\* The exception of AuditLogger.log takes the place of the result or the denial.
WriteRaised(c) ==
    /\ \/ pc[c] = "finishing" /\ row[c]["final"] \in {"failed", "uncommitted"}
       \/ pc[c] = "denying" /\ row[c]["deny"] \in {"failed", "uncommitted"}
    /\ Tell(c, "error")
    /\ UNCHANGED <<config, agentCfg, out, inb, basis, target, granted, executed, outcome, row, durable>>

\* (mutant) _deny returns instead of raising.
AnomalyCheckedNoRaise(c) ==
    /\ pc[c] \in {"anomaly", "denyAnomaly"}
    /\ \/ pc[c] = "anomaly" /\ Tell(c, "result")
       \/ pc[c] = "denyAnomaly" /\ Goto(c, "executing") /\ UNCHANGED told
    /\ UNCHANGED <<config, agentCfg, out, inb, basis, target, granted, executed, outcome, row, durable>>

\* AnomalyDetector.check and, after a result, update_result; a failing query raises.
AnomalyChecked(c) ==
    /\ pc[c] \in {"anomaly", "denyAnomaly"}
    /\ \/ Tell(c, IF pc[c] = "anomaly" THEN "result" ELSE "denied")
       \/ Tell(c, "error")
    /\ UNCHANGED <<config, agentCfg, out, inb, basis, target, granted, executed, outcome, row, durable>>

-----------------------------------------------------------------------------
(* The client is cancelled at an await *)

\* During the outbound approval nothing catches it: no row, although LLM_GUIDE.md:1206 says
\* that disconnections still produce one.
CancelAskOut(c) ==
    /\ pc[c] = "askOut"
    /\ Tell(c, "cancelled")
    /\ Forget(c)
    /\ UNCHANGED <<config, out, inb, basis, target, granted, executed, outcome, row, durable>>

\* (mutant) the approval's own except clause and finally both log.
CancelAskRuleTwice(c) ==
    /\ pc[c] = "askRule"
    /\ Tell(c, "cancelled")
    /\ outcome' = [outcome EXCEPT ![c] = "cancelled"]
    /\ row' = [row EXCEPT ![c]["cancel"] = "insert", ![c]["final"] = "insert"]
    /\ UNCHANGED <<config, agentCfg, out, inb, basis, target, granted, executed, durable>>

\* During the rule approval the except clause writes a row behind a shield.
CancelAskRule(c) ==
    /\ pc[c] = "askRule"
    /\ Tell(c, "cancelled")
    /\ Write(c, "cancel")
    /\ UNCHANGED <<config, agentCfg, out, inb, basis, target, granted, executed, outcome, durable>>

\* Inside the try block the finally clause writes the row.
CancelInTry(c) ==
    /\ pc[c] \in {"executing", "sent", "askIn"}
    /\ outcome' = [outcome EXCEPT ![c] = "cancelled"]
    /\ Tell(c, "cancelled")
    /\ Write(c, "final")
    /\ UNCHANGED <<config, agentCfg, out, inb, basis, target, granted, executed, durable>>

\* (mutant) without the shield the write dies with the call.
CancelFinishingUnshielded(c) ==
    /\ pc[c] = "finishing"
    /\ Tell(c, "cancelled")
    /\ row' = [row EXCEPT ![c]["final"] = IF @ = "insert" THEN "stray" ELSE @]
    /\ UNCHANGED <<config, agentCfg, out, inb, basis, target, granted, executed, outcome, durable>>

\* In the finally clause the shielded write goes on without the call.
CancelFinishing(c) ==
    /\ pc[c] = "finishing"
    /\ Tell(c, "cancelled")
    /\ UNCHANGED <<config, agentCfg, out, inb, basis, target, granted, executed, outcome, row, durable>>

\* _deny's log is not shielded: a queued INSERT still runs in the database thread, but
\* the COMMIT that follows it in log() is never issued.
CancelDenying(c) ==
    /\ pc[c] = "denying"
    /\ Tell(c, "cancelled")
    /\ row' = [row EXCEPT ![c]["deny"] = IF @ = "insert" THEN "stray" ELSE @]
    /\ UNCHANGED <<config, agentCfg, out, inb, basis, target, granted, executed, outcome, durable>>

CancelAnomaly(c) ==
    /\ pc[c] \in {"anomaly", "denyAnomaly"}
    /\ Tell(c, "cancelled")
    /\ UNCHANGED <<config, agentCfg, out, inb, basis, target, granted, executed, outcome, row, durable>>

-----------------------------------------------------------------------------
(* The database thread, and the operator *)

Insert(c, s) ==
    /\ row[c][s] \in {"insert", "stray"}
    /\ row' = [row EXCEPT ![c][s] = IF @ = "insert" THEN "commit" ELSE "inserted"]
    /\ UNCHANGED <<config, pc, agentCfg, out, inb, basis, target, granted, executed, outcome,
                   durable, told>>

\* The INSERT fails, or the COMMIT, which leaves the row to the next COMMIT.
WriteFails(c, s) ==
    /\ c \in Faulty
    /\ row[c][s] \in {"insert", "stray", "commit"}
    /\ row' = [row EXCEPT ![c][s] = IF @ = "commit" THEN "uncommitted" ELSE "failed"]
    /\ UNCHANGED <<config, pc, agentCfg, out, inb, basis, target, granted, executed, outcome,
                   durable, told>>

\* All calls share one connection, so a COMMIT covers every row inserted so far.
Commit(c, s) ==
    /\ row[c][s] = "commit"
    /\ row' = [row EXCEPT ![c][s] = "done"]
    /\ durable' = durable \cup {x \in Calls \X Sites : row[x[1]][x[2]] \in {"commit", "inserted", "uncommitted"}}
    /\ UNCHANGED <<config, pc, agentCfg, out, inb, basis, target, granted, executed, outcome, told>>

\* Bound: no reload once every call has read what it reads of the configuration.
HotReload ==
    /\ \E c \in Calls : pc[c] \in {"idle", "askOut"}
    /\ \E new \in Configs : config' = new
    /\ UNCHANGED <<pc, agentCfg, out, inb, basis, target, granted, executed, outcome, row, durable, told>>
-----------------------------------------------------------------------------
Ask(c)     == OutGranted(c) \/ RuleGranted(c) \/ AskRefused(c)
              \/ InGranted(c) \/ InRefused(c)
Execute(c) == Send(c) \/ Fail(c) \/ Reply(c) \/ ReplyFailed(c) \/ NestedDenied(c) \/ RowUnmade(c)
Conclude(c) == Finished(c) \/ DenyLogged(c) \/ WriteRaised(c) \/ AnomalyChecked(c)
Cancel(c)  == CancelAskOut(c) \/ CancelAskRule(c) \/ CancelInTry(c) \/ CancelFinishing(c)
              \/ CancelDenying(c) \/ CancelAnomaly(c)
Database(c) == \E s \in Sites : Insert(c, s) \/ Commit(c, s) \/ WriteFails(c, s)

Next == \/ HotReload
        \/ \E c \in Calls : \/ StartUnknown(c) \/ Start(c)
                            \/ Ask(c) \/ Execute(c) \/ Conclude(c)
                            \/ Cancel(c) \/ Database(c)

SafeSpec == Init /\ [][Next]_vars

\* Approvals time out (Approvals!EveryRequestEnds), tools are taken to answer or to fail (a
\* server that keeps sending, or a plugin that does not return, could hold its call), and the
\* loop and the database thread run what is queued.  Nobody has to call, cancel or reload.
Fairness == \A c \in Calls : /\ WF_vars(Ask(c) \/ Execute(c) \/ Conclude(c))
                             /\ WF_vars(Database(c))

Spec == SafeSpec /\ Fairness
-----------------------------------------------------------------------------
(* Properties *)

\* Nothing reaches a tool but what the rules of the moment of the check allowed, after
\* every human question its rules and its DLP scan called for was granted; a log_only
\* agent is exempt for downstream servers only.  (Rules that a reload changes while the call
\* waits for the human afterwards are not looked at again.)
ExecutedOnlyIfPermitted ==
    \A c \in executed :
        /\ basis[c] # "none"
        /\ basis[c] = "exempt" => target[c] = "downstream"
        /\ basis[c] = "approval" => <<c, "rule">> \in granted
        /\ out[c] # "block"
        /\ out[c] = "approve" => <<c, "out">> \in granted

\* An audit row that says "denied" is the truth: nothing was sent for that call.
DeniedMeansNotExecuted ==
    \A c \in Calls : row[c]["deny"] # "no" => c \notin executed

\* No call writes two audit rows, whatever is cancelled when.
OneRowPerCall ==
    \A c \in Calls : \A s, t \in Sites : row[c][s] # "no" /\ row[c][t] # "no" => s = t

\* What the client is told has been committed to the audit log before: a result as an
\* allowed call, a denial as a denied one; or as an allowed call that ended in an error, if
\* the denial is from the inbound scan, or that of a nested call, which is on record then.
ToldIsOnRecord ==
    \A c \in Calls :
        /\ told[c] = "result" => <<c, "final">> \in durable /\ outcome[c] = "result"
        /\ told[c] = "denied" =>
               \/ <<c, "deny">> \in durable
               \/ /\ <<c, "final">> \in durable
                  /\ inb[c] # "clean" \/ \E d \in Calls \ {c} : told[d] = "denied"

\* No response is returned that the inbound scan blocked or that a human had to and did
\* not approve.
InboundHeld ==
    \A c \in Calls : told[c] = "result" =>
        /\ inb[c] # "block"
        /\ inb[c] = "approve" => <<c, "in">> \in granted

\* Whatever reached a tool gets its audit row, also when the client has left, unless the row
\* itself cannot be made or written.
ExecutedGetsRecorded ==
    \A c \in Calls :
        c \in executed ~> <<c, "final">> \in durable \/ row[c]["final"] \in {"failed", "uncommitted"}
=============================================================================
