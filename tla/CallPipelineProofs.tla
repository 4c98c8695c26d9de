------------------------- MODULE CallPipelineProofs -------------------------
(***************************************************************************)
(* Proofs about CallPipeline, for every set of calls, tools and questions  *)
(* and every set of configurations that reloads can install.               *)
(*                                                                         *)
(* Calls do not touch each other's state except through the commits of the *)
(* shared connection, so the inductive invariant is one formula per call,  *)
(* CallInv, and an action is looked at for the call that takes it: lemma   *)
(* OthersKeep is the argument for all other calls.  The one thing a call   *)
(* reads of another is that it was told a denial, which stays true.        *)
(***************************************************************************)
EXTENDS CallPipeline, TLAPS

Written(c, s) == row[c][s] # "no"
NoRow(c) == \A s \in Sites : ~Written(c, s)
OnlyRow(c, s) == Written(c, s) /\ \A t \in Sites : Written(c, t) => t = s

OutAllowed(c) == out[c] # "block" /\ (out[c] = "approve" => <<c, "out">> \in granted)
RuleAllowed(c) == basis[c] # "none" /\ (basis[c] = "approval" => <<c, "rule">> \in granted)
InAllowed(c) == inb[c] # "block" /\ (inb[c] = "approve" => <<c, "in">> \in granted)

\* The denial a call hands on may be that of another call.
NestedDenial(c) == \E d \in Calls \ {c} : told[d] = "denied"

Early == {"idle", "askOut", "askRule", "executing", "sent"}

\* What each location implies about the call that is there.
Scanned(c) ==
    /\ pc[c] = "idle" => out[c] = "clean"
    /\ pc[c] = "askOut" => out[c] = "approve"
    /\ pc[c] = "askRule" => OutAllowed(c) /\ basis[c] = "approval"
    /\ pc[c] = "executing" => /\ OutAllowed(c) /\ RuleAllowed(c)
                              /\ basis[c] = "exempt" => target[c] # "virtual"
    /\ c \in executed => /\ OutAllowed(c) /\ RuleAllowed(c)
                         /\ basis[c] = "exempt" => target[c] = "downstream"
                         /\ pc[c] \in {"sent", "askIn", "finishing", "anomaly", "ended"}
                         /\ ~Written(c, "deny")

Answered(c) ==
    /\ pc[c] \in Early => inb[c] = "clean"
    /\ pc[c] = "askIn" => inb[c] = "approve"
    /\ pc[c] \in {"finishing", "anomaly"} /\ outcome[c] = "result" => InAllowed(c)
    /\ pc[c] = "finishing" => outcome[c] # "none"
    /\ pc[c] = "finishing" /\ outcome[c] = "denied" => inb[c] # "clean" \/ NestedDenial(c)
    /\ told[c] # "none" => pc[c] = "ended"

Recorded(c) ==
    /\ pc[c] \in Early \cup {"askIn"} => NoRow(c)
    /\ pc[c] \in {"denying", "denyAnomaly"} => OnlyRow(c, "deny")
    /\ pc[c] \in {"finishing", "anomaly"} => OnlyRow(c, "final")
    /\ \A s, t \in Sites : Written(c, s) /\ Written(c, t) => s = t
    /\ \A s \in Sites : row[c][s] = "done" => <<c, s>> \in durable
    /\ pc[c] = "denyAnomaly" => <<c, "deny">> \in durable
    /\ pc[c] = "anomaly" => <<c, "final">> \in durable /\ outcome[c] = "result"

Told(c) ==
    /\ told[c] = "result" => <<c, "final">> \in durable /\ outcome[c] = "result" /\ InAllowed(c)
    /\ told[c] = "denied" => \/ <<c, "deny">> \in durable
                             \/ /\ <<c, "final">> \in durable
                                /\ inb[c] # "clean" \/ NestedDenial(c)

CallInv(c) == Scanned(c) /\ Answered(c) /\ Recorded(c) /\ Told(c)

IInv == TypeOK /\ \A c \in Calls : CallInv(c)

\* A step that leaves a call alone, except that more rows may be durable.
Untouched(d) ==
    /\ pc'[d] = pc[d] /\ out'[d] = out[d] /\ inb'[d] = inb[d]
    /\ basis'[d] = basis[d] /\ target'[d] = target[d] /\ outcome'[d] = outcome[d]
    /\ row'[d] = row[d] /\ told'[d] = told[d]
    /\ \A e \in Calls : told[e] = "denied" => told'[e] = "denied"
    /\ d \in executed' <=> d \in executed
    /\ \A q \in Questions : <<d, q>> \in granted' <=> <<d, q>> \in granted
    /\ \A s \in Sites : <<d, s>> \in durable => <<d, s>> \in durable'

LEMMA Keeps == ASSUME NEW d, CallInv(d), Untouched(d) PROVE CallInv(d)'
<1>1. "out" \in Questions /\ "rule" \in Questions /\ "in" \in Questions
  BY DEF Questions
<1>2. "deny" \in Sites /\ "cancel" \in Sites /\ "final" \in Sites
  BY DEF Sites
<1>3. Scanned(d)'
  BY <1>1, <1>2 DEF CallInv, Scanned, Untouched, OutAllowed, RuleAllowed, Written
<1>4. Answered(d)'
  BY <1>1 DEF CallInv, Answered, Untouched, InAllowed, NestedDenial
<1>5. Recorded(d)'
  BY <1>2 DEF CallInv, Recorded, Untouched, NoRow, OnlyRow, Written
<1>6. Told(d)'
  BY <1>1, <1>2 DEF CallInv, Told, Untouched, InAllowed, NestedDenial
<1> QED
  BY <1>3, <1>4, <1>5, <1>6 DEF CallInv

\* It is enough to look at the call that takes the step.
LEMMA OthersKeep ==
    ASSUME IInv, NEW c \in Calls, TypeOK', CallInv(c)',
           \A d \in Calls \ {c} : Untouched(d)
    PROVE  IInv'
  BY Keeps DEF IInv

LEMMA InitIInv == Init => IInv
<1> SUFFICES ASSUME Init PROVE IInv
  OBVIOUS
<1>1. TypeOK
  BY DEF Init, TypeOK, Unread, AgentConfig, Locations, Phases, Verdicts, Places
<1>2. ASSUME NEW c \in Calls PROVE CallInv(c)
  <2>1. /\ pc[c] = "idle" /\ out[c] = "clean" /\ inb[c] = "clean" /\ told[c] = "none"
        /\ c \notin executed
        /\ \A s \in Sites : row[c][s] = "no"
    BY DEF Init
  <2> QED
    BY <2>1 DEF CallInv, Scanned, Answered, Recorded, Told, Early, NoRow, Written
<1> QED
  BY <1>1, <1>2 DEF IInv

-----------------------------------------------------------------------------
(* The checks *)

\* A queued INSERT is a phase of a row.
LEMMA WriteTyped ==
    ASSUME NEW c \in Calls, NEW site \in {"deny", "cancel", "final"}, Write(c, site),
           row \in [Calls -> [Sites -> Phases]]
    PROVE  /\ row' \in [Calls -> [Sites -> Phases]]
           /\ row'[c][site] = "insert"
           /\ \A s \in Sites : s # site => row'[c][s] = row[c][s]
           /\ \A d \in Calls : d # c => row'[d] = row[d]
  BY DEF Write, Phases, Sites

LEMMA EnforceStep ==
    ASSUME IInv, NEW c \in Calls, NEW cfg \in AgentConfig, Enforce(c, cfg),
           pc[c] \in {"idle", "askOut"}, OutAllowed(c)',
           out' = out, inb' = inb, executed' = executed, outcome' = outcome,
           durable' = durable, told' = told, config' = config, granted \subseteq granted',
           granted' \subseteq Calls \X Questions, agentCfg' \in [Calls -> AgentConfig],
           \A d \in Calls \ {c}, q \in Questions : <<d, q>> \in granted' <=> <<d, q>> \in granted
    PROVE  IInv'
<1>1. ToolOf[c] \in Tools /\ config \in Config
  BY PipelineAssumption DEF TypeOK, IInv
<1>2. config.rule[ToolOf[c]] \in Verdicts /\ Found(c, cfg) \in Places
  BY <1>1 DEF Config, Found, Places
<1>3. TypeOK'
  <2>1. pc' \in [Calls -> Locations]
    <3>1. PICK l \in Locations : Goto(c, l)
      BY <1>2 DEF Enforce, Exempted, Judged, Deny, Locations
    <3> QED
      BY <3>1 DEF IInv, TypeOK, Goto
  <2>2. target' \in [Calls -> Places]
    BY <1>2 DEF IInv, TypeOK, Enforce
  <2>3. basis' \in [Calls -> Verdicts \cup {"exempt"}]
    BY <1>2 DEF IInv, TypeOK, Enforce, Exempted, Judged
  <2>4. row' \in [Calls -> [Sites -> Phases]]
    BY WriteTyped DEF IInv, TypeOK, Enforce, Exempted, Judged, Deny
  <2> QED
    BY <2>1, <2>2, <2>3, <2>4 DEF IInv, TypeOK
<1>4. ASSUME NEW d \in Calls \ {c} PROVE Untouched(d)
  BY DEF IInv, TypeOK, Enforce, Exempted, Judged, Deny, Goto, Write, Untouched
<1>5. /\ c \notin executed
      /\ inb[c] = "clean" /\ told[c] = "none" /\ NoRow(c)
  BY DEF IInv, CallInv, Scanned, Answered, Recorded, Early
<1>6. /\ pc'[c] \in {"executing", "askRule", "denying"}
      /\ pc'[c] = "executing" => /\ RuleAllowed(c)'
                                 /\ basis'[c] = "exempt" => target'[c] # "virtual"
                                 /\ row' = row
      /\ pc'[c] = "askRule" => basis'[c] = "approval" /\ row' = row
      /\ pc'[c] = "denying" => row' = [row EXCEPT ![c]["deny"] = "insert"]
  BY <1>2 DEF IInv, TypeOK, Enforce, Exempt, Exempted, Judged, Deny, Goto, Write, RuleAllowed, Verdicts
<1>7. Scanned(c)'
  BY <1>5, <1>6 DEF Scanned
<1>8. Answered(c)'
  BY <1>5, <1>6 DEF Answered
<1>9. Recorded(c)'
  <2>1. CASE pc'[c] = "denying"
    <3>1. /\ row'[c]["deny"] = "insert"
          /\ \A s \in Sites \ {"deny"} : row'[c][s] = "no"
      BY <1>5, <1>6, <2>1 DEF IInv, TypeOK, Sites, NoRow, Written
    <3> QED
      BY <2>1, <3>1 DEF Recorded, OnlyRow, Written, Early, Sites
  <2>2. CASE pc'[c] # "denying"
    BY <1>5, <1>6, <2>2 DEF Recorded, NoRow, Written
  <2> QED
    BY <2>1, <2>2
<1>10. Told(c)'
  BY <1>5 DEF Told
<1> QED
  BY <1>3, <1>4, <1>7, <1>8, <1>9, <1>10, OthersKeep DEF CallInv

\* A denial before anything was sent.
LEMMA DenyStep ==
    ASSUME IInv, NEW c \in Calls, Deny(c), pc[c] \in {"idle", "askOut", "askRule"},
           out' \in [Calls -> {"clean", "approve", "block"}],
           \A d \in Calls \ {c} : out'[d] = out[d],
           agentCfg' \in [Calls -> AgentConfig],
           UNCHANGED <<config, inb, basis, target, granted, executed, outcome, durable, told>>
    PROVE  IInv'
<1>1. /\ row' \in [Calls -> [Sites -> Phases]]
      /\ row'[c]["deny"] = "insert"
      /\ \A s \in Sites : s # "deny" => row'[c][s] = row[c][s]
      /\ \A d \in Calls : d # c => row'[d] = row[d]
  BY WriteTyped DEF Deny, IInv, TypeOK
<1>2. pc' \in [Calls -> Locations] /\ pc'[c] = "denying"
      /\ \A d \in Calls \ {c} : pc'[d] = pc[d]
  BY DEF Deny, Goto, IInv, TypeOK, Locations
<1>3. TypeOK'
  BY <1>1, <1>2 DEF IInv, TypeOK
<1>4. ASSUME NEW d \in Calls \ {c} PROVE Untouched(d)
  BY <1>1, <1>2 DEF Untouched
<1>5. c \notin executed /\ told[c] = "none" /\ NoRow(c)
  BY DEF IInv, CallInv, Scanned, Answered, Recorded, Early
<1>6. Scanned(c)' /\ Answered(c)' /\ Told(c)'
  BY <1>2, <1>5 DEF Scanned, Answered, Told, Early
<1>7. Recorded(c)'
  BY <1>1, <1>2, <1>5 DEF Recorded, OnlyRow, NoRow, Written, Early, Sites
<1> QED
  BY <1>3, <1>4, <1>6, <1>7, OthersKeep DEF CallInv

\* The end of the try block.
LEMMA FinishStep ==
    ASSUME IInv, NEW c \in Calls, NEW how \in {"result", "denied", "error", "cancelled"},
           Finish(c, how), pc[c] \in {"executing", "sent", "askIn"},
           inb' \in [Calls -> {"clean", "approve", "block"}],
           granted' \subseteq Calls \X Questions,
           \A d \in Calls \ {c} : inb'[d] = inb[d],
           \A d \in Calls \ {c}, q \in Questions : <<d, q>> \in granted' <=> <<d, q>> \in granted,
           granted \subseteq granted',
           how = "result" => InAllowed(c)',
           how = "denied" => inb'[c] # "clean" \/ NestedDenial(c),
           UNCHANGED <<config, agentCfg, out, basis, target, executed, durable, told>>
    PROVE  IInv'
<1>1. /\ row' \in [Calls -> [Sites -> Phases]]
      /\ row'[c]["final"] = "insert"
      /\ \A s \in Sites : s # "final" => row'[c][s] = row[c][s]
      /\ \A d \in Calls : d # c => row'[d] = row[d]
  BY WriteTyped DEF Finish, IInv, TypeOK
<1>2. /\ pc' \in [Calls -> Locations] /\ pc'[c] = "finishing"
      /\ \A d \in Calls \ {c} : pc'[d] = pc[d]
      /\ outcome' \in [Calls -> {"none", "result", "denied", "error", "cancelled"}]
      /\ outcome'[c] = how
      /\ \A d \in Calls \ {c} : outcome'[d] = outcome[d]
  BY DEF Finish, Goto, IInv, TypeOK, Locations
<1>3. TypeOK'
  BY <1>1, <1>2 DEF IInv, TypeOK
<1>4. ASSUME NEW d \in Calls \ {c} PROVE Untouched(d)
  BY <1>1, <1>2 DEF Untouched
<1>5. /\ told[c] = "none" /\ NoRow(c)
      /\ c \in executed => /\ OutAllowed(c) /\ RuleAllowed(c)
                           /\ basis[c] = "exempt" => target[c] = "downstream"
  BY DEF IInv, CallInv, Scanned, Answered, Recorded, Early
<1>6. Scanned(c)'
  BY <1>1, <1>2, <1>5 DEF Scanned, OutAllowed, RuleAllowed, Written, NoRow, Sites
<1>7. Answered(c)' /\ Told(c)'
  BY <1>2, <1>5 DEF Answered, Told, Early, NestedDenial
<1>8. Recorded(c)'
  BY <1>1, <1>2, <1>5 DEF Recorded, OnlyRow, NoRow, Written, Early, Sites
<1> QED
  BY <1>3, <1>4, <1>6, <1>7, <1>8, OthersKeep DEF CallInv

\* The call goes on, or ends, without writing a row.
LEMMA MoveStep ==
    ASSUME IInv, NEW c \in Calls, NEW l \in Locations, Goto(c, l),
           inb' \in [Calls -> {"clean", "approve", "block"}],
           out' \in [Calls -> {"clean", "approve", "block"}],
           told' \in [Calls -> {"none", "result", "denied", "error", "cancelled"}],
           agentCfg' \in [Calls -> AgentConfig],
           granted' \subseteq Calls \X Questions,
           executed' \subseteq Calls,
           \A d \in Calls \ {c} : /\ inb'[d] = inb[d] /\ out'[d] = out[d] /\ told'[d] = told[d]
                                  /\ d \in executed' <=> d \in executed
                                  /\ \A q \in Questions : <<d, q>> \in granted' <=> <<d, q>> \in granted,
           told[c] = "denied" => told'[c] = "denied",
           UNCHANGED <<config, basis, target, outcome, row, durable>>,
           Scanned(c)', Answered(c)', Recorded(c)', Told(c)'
    PROVE  IInv'
<1>1. pc' \in [Calls -> Locations] /\ \A d \in Calls \ {c} : pc'[d] = pc[d]
  BY DEF Goto, IInv, TypeOK
<1>2. TypeOK'
  BY <1>1 DEF IInv, TypeOK
<1>3. ASSUME NEW d \in Calls \ {c} PROVE Untouched(d)
  BY <1>1 DEF Untouched
<1> QED
  BY <1>2, <1>3, OthersKeep DEF CallInv

\* The call only moves on: it writes no row and tells nobody anything.
LEMMA GoStep ==
    ASSUME IInv, NEW c \in Calls, NEW l \in Locations, Goto(c, l),
           UNCHANGED <<config, agentCfg, out, inb, basis, target, granted, executed, outcome, row,
                       durable, told>>,
           Scanned(c)', Answered(c)', Recorded(c)', Told(c)'
    PROVE  IInv'
<1>1. /\ inb \in [Calls -> {"clean", "approve", "block"}]
      /\ out \in [Calls -> {"clean", "approve", "block"}]
      /\ told \in [Calls -> {"none", "result", "denied", "error", "cancelled"}]
      /\ agentCfg \in [Calls -> AgentConfig]
      /\ granted \subseteq Calls \X Questions /\ executed \subseteq Calls
  BY DEF IInv, TypeOK
<1> QED
  BY <1>1, MoveStep

\* The call ends without writing a row.
LEMMA TellStep ==
    ASSUME IInv, NEW c \in Calls, NEW how \in {"result", "denied", "error", "cancelled"},
           Tell(c, how), pc[c] \notin {"executing", "sent"} \/ c \notin executed,
           how = "result" => pc[c] = "anomaly",
           how = "denied" => \/ pc[c] = "denyAnomaly"
                             \/ pc[c] = "finishing" /\ outcome[c] = "denied"
                                /\ row[c]["final"] = "done",
           pc[c] # "ended", agentCfg' \in [Calls -> AgentConfig],
           UNCHANGED <<config, out, inb, basis, target, granted, executed, outcome, row, durable>>
    PROVE  IInv'
<1>1. /\ inb \in [Calls -> {"clean", "approve", "block"}]
      /\ out \in [Calls -> {"clean", "approve", "block"}]
      /\ told' \in [Calls -> {"none", "result", "denied", "error", "cancelled"}]
      /\ told'[c] = how /\ \A d \in Calls \ {c} : told'[d] = told[d]
      /\ granted \subseteq Calls \X Questions /\ executed \subseteq Calls
  BY DEF IInv, TypeOK, Tell
<1>2. Goto(c, "ended") /\ "ended" \in Locations /\ pc'[c] = "ended"
  BY DEF Tell, Goto, Locations, IInv, TypeOK
<1>3. CallInv(c) /\ "final" \in Sites /\ told[c] = "none"
  BY DEF IInv, Sites, CallInv, Answered
<1>4. Scanned(c)'
  BY <1>2, <1>3 DEF CallInv, Scanned, OutAllowed, RuleAllowed, Written
<1>5. Answered(c)' /\ Recorded(c)'
  BY <1>2, <1>3 DEF CallInv, Answered, Recorded, Early, NoRow, OnlyRow, Written
<1>6. Told(c)'
  <2>1. CASE how = "result"
    BY <1>1, <1>3, <2>1 DEF CallInv, Answered, Recorded, Told, InAllowed
  <2>2. CASE how = "denied"
    BY <1>1, <1>3, <2>2 DEF CallInv, Answered, Recorded, Told, NestedDenial
  <2>3. CASE how \notin {"result", "denied"}
    BY <1>1, <2>3 DEF Told
  <2> QED
    BY <2>1, <2>2, <2>3
<1> QED
  BY <1>1, <1>2, <1>3, <1>4, <1>5, <1>6, MoveStep

\* The call ends with no answer, and the row at one place is all that changes besides.
LEMMA EndStep ==
    ASSUME IInv, NEW c \in Calls, NEW site \in Sites, NEW how \in {"cancelled", "error"},
           Tell(c, how), pc[c] # "ended",
           row' \in [Calls -> [Sites -> Phases]],
           \A d \in Calls \ {c} : row'[d] = row[d],
           \A s \in Sites : s # site => row'[c][s] = row[c][s],
           row'[c][site] = "done" => row[c][site] = "done",
           outcome' \in [Calls -> {"none", "result", "denied", "error", "cancelled"}],
           \A d \in Calls \ {c} : outcome'[d] = outcome[d],
           \/ site = "deny" /\ OnlyRow(c, "deny") /\ c \notin executed
           \/ site # "deny" /\ NoRow(c),
           c \in executed => pc[c] \in {"sent", "askIn"},
           UNCHANGED <<config, agentCfg, out, inb, basis, target, granted, executed, durable>>
    PROVE  IInv'
<1>1. /\ pc' \in [Calls -> Locations] /\ pc'[c] = "ended"
      /\ \A d \in Calls \ {c} : pc'[d] = pc[d]
      /\ told' \in [Calls -> {"none", "result", "denied", "error", "cancelled"}]
      /\ told'[c] = how /\ \A d \in Calls \ {c} : told'[d] = told[d]
  BY DEF Tell, Goto, IInv, TypeOK, Locations
<1>2. TypeOK'
  BY <1>1 DEF IInv, TypeOK
<1>3. CallInv(c) /\ "deny" \in Sites /\ told[c] = "none"
  BY DEF IInv, Sites, CallInv, Answered
<1>4. ASSUME NEW d \in Calls \ {c} PROVE Untouched(d)
  BY <1>1, <1>3 DEF Untouched
<1>5. Scanned(c)'
  BY <1>1, <1>3 DEF CallInv, Scanned, OutAllowed, RuleAllowed, Written, NoRow
<1>6. Answered(c)' /\ Told(c)'
  BY <1>1 DEF Answered, Told, Early
<1>7. Recorded(c)'
  <2>1. \A s \in Sites : Written(c, s)' => s = site
    BY DEF OnlyRow, NoRow, Written
  <2>2. \A s \in Sites : row'[c][s] = "done" => <<c, s>> \in durable'
    BY <1>3 DEF CallInv, Recorded
  <2> QED
    BY <1>1, <2>1, <2>2 DEF Recorded, Early
<1> QED
  BY <1>2, <1>4, <1>5, <1>6, <1>7, OthersKeep DEF CallInv

-----------------------------------------------------------------------------
(* The actions *)

LEMMA Forgotten == ASSUME TypeOK, NEW c \in Calls, Forget(c)
                   PROVE  agentCfg' \in [Calls -> AgentConfig]
  BY DEF TypeOK, Forget, Unread, AgentConfig

LEMMA StartKeeps == ASSUME IInv, NEW c \in Calls, Start(c) PROVE IInv'
<1>1. /\ CallInv(c) /\ TypeOK /\ pc[c] = "idle" /\ out[c] = "clean"
  BY DEF IInv, CallInv, Scanned, Start
<1>2. CASE Enforce(c, config.cfg) /\ UNCHANGED <<agentCfg, out>>
  <2>1. config.cfg \in AgentConfig
    BY <1>1, PipelineAssumption DEF TypeOK, Config
  <2>2. OutAllowed(c)'
    BY <1>1, <1>2 DEF OutAllowed
  <2> QED
    BY <1>1, <1>2, <2>1, <2>2, EnforceStep DEF Start, TypeOK
<1>3. CASE /\ out' = [out EXCEPT ![c] = "approve"]
           /\ agentCfg' = [agentCfg EXCEPT ![c] = config.cfg]
           /\ Goto(c, "askOut")
           /\ UNCHANGED <<basis, target, row>>
  <2>1. /\ out' \in [Calls -> {"clean", "approve", "block"}] /\ out'[c] = "approve"
        /\ \A d \in Calls \ {c} : out'[d] = out[d]
        /\ agentCfg' \in [Calls -> AgentConfig]
        /\ pc'[c] = "askOut" /\ "askOut" \in Locations
    BY <1>1, <1>3, PipelineAssumption DEF TypeOK, Config, Goto, Locations
  <2>2. Scanned(c)' /\ Answered(c)' /\ Recorded(c)' /\ Told(c)'
    BY <1>1, <1>3, <2>1 DEF Start, CallInv, Scanned, Answered, Recorded, Told, Early, NoRow,
                            Written
  <2> QED
    BY <1>1, <1>3, <2>1, <2>2, MoveStep DEF Start, TypeOK
<1>4. CASE /\ out' = [out EXCEPT ![c] = "block"]
           /\ Deny(c)
           /\ UNCHANGED <<agentCfg, basis, target>>
  BY <1>1, <1>4, DenyStep DEF Start, TypeOK
<1> QED
  BY <1>2, <1>3, <1>4 DEF Start

LEMMA OutGrantedKeeps == ASSUME IInv, NEW c \in Calls, OutGranted(c) PROVE IInv'
<1>1. CallInv(c) /\ TypeOK /\ pc[c] = "askOut" /\ out[c] = "approve"
  BY DEF IInv, CallInv, Scanned, OutGranted
<1>2. agentCfg[c] \in AgentConfig /\ agentCfg' \in [Calls -> AgentConfig]
  BY <1>1, Forgotten DEF TypeOK, OutGranted
<1>3. /\ granted' \subseteq Calls \X Questions /\ granted \subseteq granted'
      /\ \A d \in Calls \ {c}, q \in Questions : <<d, q>> \in granted' <=> <<d, q>> \in granted
      /\ <<c, "out">> \in granted'
  BY <1>1 DEF TypeOK, OutGranted, Questions
<1>4. OutAllowed(c)'
  BY <1>1, <1>3 DEF OutAllowed, OutGranted
<1> QED
  BY <1>1, <1>2, <1>3, <1>4, EnforceStep DEF OutGranted

LEMMA RuleGrantedKeeps == ASSUME IInv, NEW c \in Calls, RuleGranted(c) PROVE IInv'
<1>1. CallInv(c) /\ TypeOK /\ pc[c] = "askRule"
  BY DEF IInv, RuleGranted
<1>2. /\ granted' \subseteq Calls \X Questions /\ granted \subseteq granted'
      /\ \A d \in Calls \ {c}, q \in Questions : <<d, q>> \in granted' <=> <<d, q>> \in granted
      /\ <<c, "rule">> \in granted'
  BY <1>1 DEF TypeOK, RuleGranted, Questions
<1>3. pc'[c] = "executing" /\ "executing" \in Locations
  BY <1>1 DEF TypeOK, RuleGranted, Goto, Locations
<1>4. Scanned(c)'
  BY <1>1, <1>2, <1>3 DEF CallInv, Scanned, RuleGranted, OutAllowed, RuleAllowed
<1>5. Answered(c)' /\ Recorded(c)' /\ Told(c)'
  BY <1>1, <1>3 DEF CallInv, Answered, Recorded, Told, RuleGranted, Early, NoRow, Written
<1> QED
  BY <1>1, <1>2, <1>3, <1>4, <1>5, MoveStep DEF RuleGranted, TypeOK

LEMMA AskRefusedKeeps == ASSUME IInv, NEW c \in Calls, AskRefused(c) PROVE IInv'
  BY DenyStep, Forgotten DEF AskRefused, IInv, TypeOK

LEMMA AskKeeps == ASSUME IInv, NEW c \in Calls, Ask(c) PROVE IInv'
<1>1. CallInv(c) /\ TypeOK
  BY DEF IInv
<1>2. CASE InGranted(c)
  <2>1. /\ granted' \subseteq Calls \X Questions /\ granted \subseteq granted'
        /\ \A d \in Calls \ {c}, q \in Questions : <<d, q>> \in granted' <=> <<d, q>> \in granted
        /\ <<c, "in">> \in granted'
    BY <1>1, <1>2 DEF TypeOK, InGranted, Questions
  <2>2. InAllowed(c)'
    BY <1>1, <1>2, <2>1 DEF InGranted, CallInv, Answered, InAllowed
  <2> QED
    BY <1>1, <1>2, <2>1, <2>2, FinishStep DEF InGranted, TypeOK
<1>3. CASE InRefused(c)
  BY <1>1, <1>3, FinishStep DEF InRefused, TypeOK, CallInv, Answered
<1> QED
  BY <1>2, <1>3, OutGrantedKeeps, RuleGrantedKeeps, AskRefusedKeeps DEF Ask

LEMMA ExecuteKeeps == ASSUME IInv, NEW c \in Calls, Execute(c) PROVE IInv'
<1>1. CallInv(c) /\ TypeOK
  BY DEF IInv
<1>2. CASE Send(c)
  <2>1. /\ executed' \subseteq Calls /\ c \in executed'
        /\ \A d \in Calls \ {c} : d \in executed' <=> d \in executed
        /\ pc[c] = "executing" /\ pc'[c] = "sent" /\ "sent" \in Locations
    BY <1>1, <1>2 DEF TypeOK, Send, Goto, Locations
  <2>2. Scanned(c)'
    <3>1. target[c] \in {"virtual", "downstream"}
      BY <1>1, <1>2 DEF TypeOK, Send, Places
    <3>2. OutAllowed(c) /\ RuleAllowed(c) /\ (basis[c] = "exempt" => target[c] = "downstream")
      BY <1>1, <2>1, <3>1 DEF CallInv, Scanned
    <3>3. ~Written(c, "deny")
      BY <1>1, <2>1 DEF CallInv, Recorded, Early, NoRow, Sites
    <3> QED
      BY <1>2, <2>1, <3>2, <3>3 DEF Send, Scanned, OutAllowed, RuleAllowed, Written
  <2>3. Answered(c)' /\ Recorded(c)' /\ Told(c)'
    BY <1>1, <1>2, <2>1 DEF CallInv, Answered, Recorded, Told, Send, Early, NoRow, Written
  <2> QED
    BY <1>1, <1>2, <2>1, <2>2, <2>3, MoveStep DEF Send, TypeOK
<1>3. CASE Fail(c) \/ ReplyFailed(c)
  BY <1>1, <1>3, FinishStep DEF Fail, ReplyFailed, TypeOK
<1>5. CASE NestedDenied(c)
  BY <1>1, <1>5, FinishStep DEF NestedDenied, NestedDenial, TypeOK
<1>6. CASE RowUnmade(c)
  <2>1. NoRow(c) /\ pc[c] = "sent"
    BY <1>1, <1>6 DEF RowUnmade, CallInv, Recorded, Early
  <2>2. /\ row' \in [Calls -> [Sites -> Phases]]
        /\ row'[c]["final"] = "failed"
        /\ \A s \in Sites : s # "final" => row'[c][s] = row[c][s]
        /\ \A d \in Calls : d # c => row'[d] = row[d]
    BY <1>1, <1>6 DEF RowUnmade, TypeOK, Phases, Sites
  <2> QED
    BY <1>1, <1>6, <2>1, <2>2, EndStep DEF RowUnmade, TypeOK, Sites
<1>4. CASE Reply(c)
  <2>1. pc[c] = "sent" /\ inb[c] = "clean"
    BY <1>1, <1>4 DEF Reply, CallInv, Answered, Early
  <2>2. CASE Finish(c, "result") /\ UNCHANGED inb
    BY <1>1, <1>4, <2>1, <2>2, FinishStep DEF Reply, TypeOK, InAllowed
  <2>3. CASE inb' = [inb EXCEPT ![c] = "block"] /\ Finish(c, "denied")
    BY <1>1, <1>4, <2>1, <2>3, FinishStep DEF Reply, TypeOK
  <2>4. CASE /\ inb' = [inb EXCEPT ![c] = "approve"]
             /\ Goto(c, "askIn")
             /\ UNCHANGED <<outcome, row>>
    <3>1. /\ inb' \in [Calls -> {"clean", "approve", "block"}] /\ inb'[c] = "approve"
          /\ \A d \in Calls \ {c} : inb'[d] = inb[d]
          /\ pc'[c] = "askIn" /\ "askIn" \in Locations
      BY <1>1, <2>4 DEF TypeOK, Goto, Locations
    <3>2. Scanned(c)' /\ Answered(c)' /\ Recorded(c)' /\ Told(c)'
      BY <1>1, <1>4, <2>1, <2>4, <3>1 DEF Reply, CallInv, Scanned, Answered, Recorded, Told,
          Early, NoRow, Written, OutAllowed, RuleAllowed
    <3> QED
      BY <1>1, <1>4, <2>4, <3>1, <3>2, MoveStep DEF Reply, TypeOK
  <2> QED
    BY <1>4, <2>2, <2>3, <2>4 DEF Reply
<1> QED
  BY <1>2, <1>3, <1>4, <1>5, <1>6 DEF Execute

\* A final row that is done and a verdict to go with it: Finished's two disjuncts.
LEMMA ConcludeKeeps == ASSUME IInv, NEW c \in Calls, Conclude(c) PROVE IInv'
<1>1. CallInv(c) /\ TypeOK /\ "final" \in Sites /\ "deny" \in Sites
  BY DEF IInv, Sites
<1>2. CASE Finished(c) /\ outcome[c] = "result" /\ Goto(c, "anomaly") /\ UNCHANGED told
  <2>1. pc[c] = "finishing" /\ pc'[c] = "anomaly" /\ "anomaly" \in Locations
    BY <1>1, <1>2 DEF Finished, TypeOK, Goto, Locations
  <2>2. Scanned(c)' /\ Answered(c)' /\ Recorded(c)' /\ Told(c)'
    BY <1>1, <1>2, <2>1 DEF Finished, CallInv, Scanned, Answered, Recorded, Told, Early, NoRow,
        OnlyRow, Written, OutAllowed, RuleAllowed, InAllowed
  <2> QED
    BY <1>2, <2>1, <2>2, GoStep DEF Finished
<1>3. CASE Finished(c) /\ outcome[c] # "result" /\ Tell(c, outcome[c])
  <2>1. outcome[c] \in {"denied", "error", "cancelled"}
    <3>1. outcome[c] # "none"
      BY <1>1, <1>3 DEF Finished, CallInv, Answered
    <3> QED
      BY <1>1, <1>3, <3>1 DEF TypeOK
  <2> QED
    BY <1>1, <1>3, <2>1, TellStep DEF Finished, CallInv, Scanned, TypeOK
<1>4. CASE DenyLogged(c)
  <2>1. pc[c] = "denying" /\ pc'[c] = "denyAnomaly" /\ "denyAnomaly" \in Locations
    BY <1>1, <1>4 DEF DenyLogged, TypeOK, Goto, Locations
  <2>2. Scanned(c)' /\ Answered(c)' /\ Recorded(c)' /\ Told(c)'
    BY <1>1, <1>4, <2>1 DEF DenyLogged, CallInv, Scanned, Answered, Recorded, Told, Early, NoRow,
        OnlyRow, Written, OutAllowed, RuleAllowed
  <2> QED
    BY <1>4, <2>1, <2>2, GoStep DEF DenyLogged
<1>5. CASE AnomalyChecked(c)
  BY <1>1, <1>5, TellStep DEF AnomalyChecked, CallInv, Scanned, TypeOK
<1>6. CASE WriteRaised(c)
  BY <1>1, <1>6, TellStep DEF WriteRaised, CallInv, Scanned, TypeOK
<1> QED
  BY <1>2, <1>3, <1>4, <1>5, <1>6 DEF Conclude, Finished

LEMMA CancelKeeps == ASSUME IInv, NEW c \in Calls, Cancel(c) PROVE IInv'
<1>1. CallInv(c) /\ TypeOK
  BY DEF IInv
<1>2. CASE CancelAskOut(c) \/ CancelFinishing(c) \/ CancelAnomaly(c)
  BY <1>1, <1>2, TellStep, Forgotten DEF CancelAskOut, CancelFinishing, CancelAnomaly, TypeOK
<1>3. CASE CancelAskRule(c)
  <2>1. NoRow(c) /\ c \notin executed
    BY <1>1, <1>3 DEF CancelAskRule, CallInv, Scanned, Recorded, Early
  <2>2. /\ row' \in [Calls -> [Sites -> Phases]]
        /\ row'[c]["cancel"] = "insert"
        /\ \A s \in Sites : s # "cancel" => row'[c][s] = row[c][s]
        /\ \A d \in Calls : d # c => row'[d] = row[d]
    BY <1>1, <1>3, WriteTyped DEF CancelAskRule, TypeOK
  <2> QED
    BY <1>1, <1>3, <2>1, <2>2, EndStep DEF CancelAskRule, TypeOK, Sites
<1>4. CASE CancelInTry(c)
  <2>1. NoRow(c) /\ (c \in executed => pc[c] \in {"sent", "askIn"})
    BY <1>1, <1>4 DEF CancelInTry, CallInv, Scanned, Recorded, Early
  <2>2. /\ row' \in [Calls -> [Sites -> Phases]]
        /\ row'[c]["final"] = "insert"
        /\ \A s \in Sites : s # "final" => row'[c][s] = row[c][s]
        /\ \A d \in Calls : d # c => row'[d] = row[d]
    BY <1>1, <1>4, WriteTyped DEF CancelInTry, TypeOK
  <2>3. /\ outcome' \in [Calls -> {"none", "result", "denied", "error", "cancelled"}]
        /\ \A d \in Calls \ {c} : outcome'[d] = outcome[d]
    BY <1>1, <1>4 DEF CancelInTry, TypeOK
  <2> QED
    BY <1>4, <2>1, <2>2, <2>3, EndStep DEF CancelInTry, Sites
<1>5. CASE CancelDenying(c)
  <2>1. OnlyRow(c, "deny") /\ c \notin executed
    BY <1>1, <1>5 DEF CancelDenying, CallInv, Scanned, Recorded
  <2>2. /\ row' \in [Calls -> [Sites -> Phases]]
        /\ row'[c]["deny"] = "done" => row[c]["deny"] = "done"
        /\ \A s \in Sites : s # "deny" => row'[c][s] = row[c][s]
        /\ \A d \in Calls : d # c => row'[d] = row[d]
    BY <1>1, <1>5 DEF CancelDenying, TypeOK, Phases, Sites
  <2> QED
    BY <1>1, <1>5, <2>1, <2>2, EndStep DEF CancelDenying, TypeOK, Sites
<1> QED
  BY <1>2, <1>3, <1>4, <1>5 DEF Cancel

\* Inserting and committing go on behind the back of the call.
LEMMA DatabaseKeeps == ASSUME IInv, NEW c \in Calls, Database(c) PROVE IInv'
<1>1. CallInv(c) /\ TypeOK /\ "final" \in Sites /\ "deny" \in Sites
  BY DEF IInv, Sites
<1>2. PICK s \in Sites : Insert(c, s) \/ Commit(c, s) \/ WriteFails(c, s)
  BY DEF Database
<1>3. /\ row' \in [Calls -> [Sites -> Phases]]
      /\ \A d \in Calls \ {c} : row'[d] = row[d]
      /\ \A t \in Sites : t # s => row'[c][t] = row[c][t]
      /\ Written(c, s) /\ Written(c, s)'
      /\ \A t \in Sites : Written(c, t)' <=> Written(c, t)
  <2>1. /\ row' \in [Calls -> [Sites -> Phases]]
        /\ \A d \in Calls \ {c} : row'[d] = row[d]
        /\ \A t \in Sites : t # s => row'[c][t] = row[c][t]
    <3>1. PICK p \in Phases : row' = [row EXCEPT ![c][s] = p]
      BY <1>1, <1>2 DEF Insert, Commit, WriteFails, Phases
    <3> QED
      BY <1>1, <3>1 DEF TypeOK
  <2>2. row[c][s] # "no" /\ row'[c][s] # "no"
    BY <1>1, <1>2 DEF TypeOK, Insert, Commit, WriteFails, Phases
  <2> QED
    BY <2>1, <2>2 DEF Written
<1>4. /\ durable \subseteq durable' /\ durable' \subseteq Calls \X Sites
      /\ row'[c][s] = "done" => <<c, s>> \in durable'
  <2>1. CASE Insert(c, s) \/ WriteFails(c, s)
    BY <1>1, <2>1 DEF Insert, WriteFails, TypeOK
  <2>2. CASE Commit(c, s)
    <3>1. durable' = durable \cup {x \in Calls \X Sites : row[x[1]][x[2]] \in {"commit", "inserted", "uncommitted"}}
      BY <2>2 DEF Commit
    <3>2. <<c, s>> \in Calls \X Sites /\ row[c][s] = "commit"
      BY <2>2 DEF Commit
    <3> QED
      BY <1>1, <3>1, <3>2 DEF TypeOK
  <2> QED
    BY <1>2, <2>1, <2>2
<1>5. UNCHANGED <<config, pc, agentCfg, out, inb, basis, target, granted, executed, outcome, told>>
  BY <1>2 DEF Insert, Commit, WriteFails
<1>6. TypeOK'
  BY <1>1, <1>3, <1>4, <1>5 DEF TypeOK
<1>7. ASSUME NEW d \in Calls \ {c} PROVE Untouched(d)
  BY <1>3, <1>4, <1>5 DEF Untouched
<1>8. Scanned(c)'
  BY <1>1, <1>3, <1>5 DEF CallInv, Scanned, OutAllowed, RuleAllowed
<1>9. Answered(c)' /\ Told(c)'
  BY <1>1, <1>4, <1>5 DEF CallInv, Answered, Told, InAllowed, NestedDenial
<1>10. Recorded(c)'
  <2>1. \A t \in Sites : row'[c][t] = "done" => <<c, t>> \in durable'
    BY <1>1, <1>3, <1>4 DEF CallInv, Recorded
  <2> QED
    BY <1>1, <1>3, <1>4, <1>5, <2>1 DEF CallInv, Recorded, OnlyRow, NoRow
<1> QED
  BY <1>6, <1>7, <1>8, <1>9, <1>10, OthersKeep DEF CallInv

LEMMA StartUnknownKeeps == ASSUME IInv, NEW c \in Calls, StartUnknown(c) PROVE IInv'
  BY TellStep DEF StartUnknown, IInv, TypeOK

LEMMA NextKeeps == ASSUME IInv, [Next]_vars PROVE IInv'
<1>1. CASE HotReload
  <2>1. TypeOK'
    BY <1>1 DEF HotReload, IInv, TypeOK
  <2>2. \A c \in Calls : Untouched(c)
    BY <1>1 DEF HotReload, Untouched
  <2> QED
    BY <2>1, <2>2, Keeps DEF IInv
<1>2. ASSUME NEW c \in Calls,
             \/ StartUnknown(c) \/ Start(c) \/ Ask(c) \/ Execute(c) \/ Conclude(c)
             \/ Cancel(c) \/ Database(c)
      PROVE  IInv'
  BY <1>2, StartUnknownKeeps, StartKeeps, AskKeeps, ExecuteKeeps, ConcludeKeeps, CancelKeeps,
     DatabaseKeeps
<1>3. CASE UNCHANGED vars
  <2>1. TypeOK'
    BY <1>3 DEF vars, IInv, TypeOK
  <2>2. \A c \in Calls : Untouched(c)
    BY <1>3 DEF vars, Untouched
  <2> QED
    BY <2>1, <2>2, Keeps DEF IInv
<1> QED
  BY <1>1, <1>2, <1>3 DEF Next

LEMMA Invariant == SafeSpec => []IInv
  BY InitIInv, NextKeeps, PTL DEF SafeSpec

-----------------------------------------------------------------------------
(* The theorems *)

\* Type correctness: every variable of the pipeline keeps its shape under every
\* interleaving of calls, cancellations, commits and reloads.
THEOREM TypeCorrect == Spec => []TypeOK
<1>1. IInv => TypeOK
  BY DEF IInv
<1> QED
  BY <1>1, Invariant, PTL DEF Spec

\* Nothing reaches a tool that the rules of the moment of the check did not allow, or
\* whose human questions were not all granted (proxy.py call_tool).
THEOREM OnlyPermittedCallsRun == Spec => []ExecutedOnlyIfPermitted
<1>1. IInv => ExecutedOnlyIfPermitted
  BY DEF IInv, TypeOK, CallInv, Scanned, OutAllowed, RuleAllowed, ExecutedOnlyIfPermitted
<1> QED
  BY <1>1, Invariant, PTL DEF Spec

\* A call with a row of status "denied" was not sent to its tool (proxy.py _deny).
THEOREM DeniedCallsDoNotRun == Spec => []DeniedMeansNotExecuted
<1>1. IInv => DeniedMeansNotExecuted
  BY DEF IInv, CallInv, Scanned, Written, DeniedMeansNotExecuted
<1> QED
  BY <1>1, Invariant, PTL DEF Spec

\* _deny, the except clause and the finally clause never write two rows for one call.
THEOREM AtMostOneRow == Spec => []OneRowPerCall
<1>1. IInv => OneRowPerCall
  BY DEF IInv, CallInv, Recorded, Written, OneRowPerCall
<1> QED
  BY <1>1, Invariant, PTL DEF Spec

\* A client that has a result or a denial in hand has it committed in the audit log.
THEOREM ToldAfterCommit == Spec => []ToldIsOnRecord
<1>1. IInv => ToldIsOnRecord
  BY DEF IInv, CallInv, Told, NestedDenial, ToldIsOnRecord
<1> QED
  BY <1>1, Invariant, PTL DEF Spec

\* No response that the inbound scan blocked, or whose approval was refused, is returned.
THEOREM HeldResponsesStay == Spec => []InboundHeld
<1>1. IInv => InboundHeld
  BY DEF IInv, CallInv, Told, InAllowed, InboundHeld
<1> QED
  BY <1>1, Invariant, PTL DEF Spec
=============================================================================
