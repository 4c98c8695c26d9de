----------------------------- MODULE RulePages -----------------------------
(***************************************************************************)
(* The admin pages that save rules (admin.py) and the two rules files.     *)
(*                                                                         *)
(* A rule set says which tools of a server may be called: plainly, by a    *)
(* wildcard pattern, or under a constraint.  The defaults of a server are  *)
(* in rules-defaults.toml, an agent's overrides, each of which replaces    *)
(* the defaults of one server, in rules-agents.toml.  Four pages save      *)
(* them: the panel of an agent, the panel of a server's defaults, the      *)
(* entity matrix, and the editor of one tool.  Each one rebuilds a whole   *)
(* file from the rules in force, writes it and has all files loaded.  A    *)
(* handler does not give way between reading the rules and loading them    *)
(* again, so it is one step.  A form may have been open for long: what it  *)
(* submits is any form, not one that fits the rules in force.              *)
(***************************************************************************)
EXTENDS Naturals, FiniteSets

CONSTANTS Agents,
          Default,      \* the owner of the defaults, beside the agents
          Downstream,   \* the configured MCP servers
          Local,        \* __native__ and __plugins__, each if it has tools
          Hidden,       \* __gateway__, __workflows__, __meta__ ...: rules, but no panel
          Assigned,     \* [Agents -> SUBSET Downstream]: AgentConfig.mcp_servers
          Tools,
          NameTools,    \* the tools that take a parameter "name"
          Entities,     \* what the matrix offers as names
          Patterns,
          Matched,      \* [Patterns -> SUBSET Tools]: fnmatch
          Offered,      \* the constraints that the tool editor is used for
          ByHand,       \* rule sets that somebody may write into a file
          Installed,    \* contents of the two files at the first start
          None,         \* no rule set, no constraint
          Unsure,       \* nothing was confirmed
          MaxSaves, MaxAccidents

Owners == Agents \cup {Default}
Servers == Downstream \cup Local \cup Hidden

\* ToolConstraint.  limits: a rate limit or restricted parameters other than "name"; named: the
\* parameter "name" is restricted, to names; response: response_jq or response_grep.
Constraint ==
    {c \in [gate : BOOLEAN, limits : BOOLEAN, named : BOOLEAN, names : SUBSET Entities, response : BOOLEAN] :
        ~c.named => c.names = {}}

Rules == [allow : SUBSET Tools, patterns : SUBSET Patterns, constrain : [Tools -> Constraint \cup {None}]]

Stored == [Owners -> [Servers -> Rules \cup {None}]]

ASSUME PagesAssumption ==
    /\ Default \notin Agents
    /\ None \notin Rules /\ None \notin Constraint /\ Unsure \notin Rules \cup {None}
    /\ Assigned \in [Agents -> SUBSET Downstream]
    /\ NameTools \subseteq Tools
    /\ Matched \in [Patterns -> SUBSET Tools]
    /\ Offered \subseteq Constraint
    /\ ByHand \subseteq Rules \cup {None}
    /\ Installed \subseteq Stored
    /\ MaxSaves \in Nat /\ MaxAccidents \in Nat

VARIABLES file,     \* rules-defaults.toml and rules-agents.toml
          live,     \* config.server_rules and config.agent_overrides
          loads,    \* whether the other configuration files can be loaded
          told,     \* what a page last confirmed, and nobody changed since
          dropped,  \* <<agent, server>>: an override that the agent's panel removed unseen
          saves, accidents

vars == <<file, live, loads, told, dropped, saves, accidents>>

\* The files, the rules in force and the confirmations.
Typed ==
    /\ file \in Stored /\ live \in Stored
    /\ told \in [Owners -> [Servers -> Rules \cup {None, Unsure}]]
    /\ dropped \subseteq Agents \X Servers

TypeOK ==
    /\ Typed
    /\ loads \in BOOLEAN
    /\ saves \in 0..MaxSaves /\ accidents \in 0..MaxAccidents

Init ==
    /\ file \in Installed
    /\ live = file
    /\ loads = TRUE
    /\ told = file
    /\ dropped = {}
    /\ saves = 0 /\ accidents = 0

-----------------------------------------------------------------------------
(* rules.py *)

\* get_effective_rules: an override replaces the defaults, there is no merging.
EffectiveIn(store, o, s) == IF store[o][s] # None THEN store[o][s] ELSE store[Default][s]

Effective(o, s) == EffectiveIn(live, o, s)

ConstraintOf(r, t) == IF r = None THEN None ELSE r.constrain[t]

ByPattern(r, t) == \E p \in r.patterns : t \in Matched[p]

\* check_tool: whether the tool may be called; its constraint comes before the allow list.
Permits(r, t) == r # None /\ (r.constrain[t] # None \/ t \in r.allow \/ ByPattern(r, t))

-----------------------------------------------------------------------------
(* Saving *)

Rebuilt(o, row) == [live EXCEPT ![o] = row]

\* The file that holds o is rebuilt from the rules in force, the other one stays.
Written(o, row) ==
    [x \in Owners |-> IF (x = Default) = (o = Default) THEN Rebuilt(o, row)[x] ELSE file[x]]

Saving == saves < MaxSaves /\ saves' = saves + 1

\* Write one file, load all.  When a file does not load the page reports an error, and the
\* process goes on with the rules it had.  The page has shown servers, and confirms what it
\* wrote for them; of all the others it says nothing, so what was confirmed before still is.
Finish(o, row, servers) ==
    /\ file' = Written(o, row)
    /\ live' = IF loads THEN file' ELSE live
    /\ told' = [told EXCEPT ![o] = [s \in Servers |->
                   IF s \in servers THEN IF loads THEN row[s] ELSE Unsure ELSE told[o][s]]]
    /\ UNCHANGED <<loads, accidents>>

-----------------------------------------------------------------------------
(* The panels: one checkbox for each tool and a field for patterns *)

Ticks == [tools : SUBSET Tools, patterns : SUBSET Patterns]

\* (mutant) a tool with a constraint is not shown as allowed.
TickedPlain(r) == IF r = None THEN {} ELSE r.allow

\* What the panel shows as ticked: a tool that is only matched by a pattern is not.
Ticked(r) == IF r = None THEN {} ELSE r.allow \cup {t \in Tools : r.constrain[t] # None}

AsShown(r) == [tools |-> Ticked(r), patterns |-> IF r = None THEN {} ELSE r.patterns]

\* A tool that is ticked keeps the constraint it is under at that moment.
FromPanel(old, form) ==
    [allow     |-> {t \in form.tools : ConstraintOf(old, t) = None},
     patterns  |-> form.patterns,
     constrain |-> [t \in Tools |-> IF t \in form.tools THEN ConstraintOf(old, t) ELSE None]]

Shown(a) == Assigned[a] \cup Local

Unshown(a) == Servers \ Shown(a)

\* The agent's overrides are replaced as a whole: those for servers that its panel does not
\* show are gone afterwards.
ApplyAgentPanel(a, form) ==
    /\ Finish(a, [s \in Servers |->
                     IF s \in Shown(a) THEN FromPanel(Effective(a, s), form[s]) ELSE None],
              Shown(a))
    /\ dropped' = dropped \cup {<<a, s>> : s \in {x \in Unshown(a) : live[a][x] # None}}

AgentPanel(a) == Saving /\ \E form \in [Shown(a) -> Ticks] : ApplyAgentPanel(a, form)

ApplyDefaultsPanel(s, form) ==
    /\ Finish(Default, [live[Default] EXCEPT ![s] = FromPanel(live[Default][s], form)], {s})
    /\ UNCHANGED dropped

DefaultsPanel(s) ==
    Saving /\ s \in Downstream \cup Local /\ \E form \in Ticks : ApplyDefaultsPanel(s, form)

-----------------------------------------------------------------------------
(* The entity matrix: names for the tools that take one, a switch for the others *)

\* listed: the tools of the server, none when it could not be reached.
Matrix == [listed : {Tools, {}}, cells : [NameTools -> SUBSET Entities],
           others : SUBSET (Tools \ NameTools), gates : SUBSET Tools]

Limited(c) == c # None /\ c.limits

\* (mutant) the constraint is made from the form alone.
NameConstraintAnew(old, form, t) ==
    IF form.cells[t] # {} \/ t \in form.gates
    THEN [gate |-> t \in form.gates, limits |-> FALSE, response |-> FALSE,
          named |-> form.cells[t] # {}, names |-> form.cells[t]]
    ELSE None

\* With no name ticked, a tool under a gate or limits may be called with any name.
NameConstraint(old, form, t) ==
    LET limited == Limited(ConstraintOf(old, t))
    IN  IF form.cells[t] # {} \/ t \in form.gates \/ limited
        THEN [gate |-> t \in form.gates, limits |-> limited, response |-> FALSE,
              named |-> form.cells[t] # {}, names |-> form.cells[t]]
        ELSE None

\* A constraint that was only a response filter, or a gate that is not ticked, is dropped.
OtherConstraint(old, form, t) ==
    LET c == ConstraintOf(old, t)
        named == c # None /\ c.named
    IN  IF t \in form.gates \/ Limited(c) \/ named
        THEN [gate |-> t \in form.gates, limits |-> Limited(c), response |-> FALSE,
              named |-> named, names |-> IF named THEN c.names ELSE {}]
        ELSE None

FromMatrix(old, form) ==
    LET others == form.others \cap form.listed
        constraint(t) == CASE t \in NameTools \cap form.listed -> NameConstraint(old, form, t)
                           [] t \in others -> OtherConstraint(old, form, t)
                           [] OTHER -> None
    IN  [allow     |-> {t \in others : constraint(t) = None},
         patterns  |-> IF old = None THEN {} ELSE old.patterns,
         constrain |-> [t \in Tools |-> constraint(t)]]

\* (mutant) the agent's overrides for other servers are not carried over.
EntityPageAlone(a, s) ==
    /\ Saving /\ s \in Downstream
    /\ \E form \in Matrix :
           Finish(a, [x \in Servers |-> IF x = s THEN FromMatrix(Effective(a, s), form) ELSE None], {s})
    /\ dropped' = dropped \ {<<a, s>>}

EntityPage(a, s) ==
    /\ Saving /\ s \in Downstream
    /\ \E form \in Matrix :
           Finish(a, [live[a] EXCEPT ![s] = FromMatrix(Effective(a, s), form)], {s})
    /\ dropped' = dropped \ {<<a, s>>}

-----------------------------------------------------------------------------
(* The editor of one tool *)

\* An empty constraint allows the tool plainly.
FromEditor(old, t, c) ==
    LET base == IF old = None THEN [allow |-> {}, patterns |-> {}, constrain |-> [x \in Tools |-> None]]
                ELSE old
    IN  [base EXCEPT !.allow = IF c = None THEN @ \cup {t} ELSE @ \ {t}, !.constrain[t] = c]

\* For an agent the editor accepts any server, for the defaults one that has a panel.
ToolEditor(o, s, t) ==
    /\ Saving
    /\ o = Default => s \in Downstream \cup Local
    /\ \E c \in Offered \cup {None} :
           Finish(o, [live[o] EXCEPT ![s] = FromEditor(Effective(o, s), t, c)], {s})
    /\ dropped' = dropped \ {<<o, s>>}

-----------------------------------------------------------------------------
(* What happens to the files otherwise *)

Accident == accidents < MaxAccidents /\ accidents' = accidents + 1

\* Somebody edits one rule set of a file.
HandEdit(o, s) ==
    /\ \E r \in ByHand : file' = [file EXCEPT ![o][s] = r]
    /\ told' = [told EXCEPT ![o][s] = Unsure]
    /\ dropped' = dropped \ {<<o, s>>}
    /\ Accident /\ UNCHANGED <<live, loads, saves>>

\* A mistake in another configuration file, found only when it is loaded.
BreakOther == loads /\ loads' = FALSE /\ Accident /\ UNCHANGED <<file, live, told, dropped, saves>>

RepairOther == ~loads /\ loads' = TRUE /\ UNCHANGED <<file, live, told, dropped, saves, accidents>>

Restart == loads /\ live' = file /\ UNCHANGED <<file, loads, told, dropped, saves, accidents>>

Next ==
    \/ \E a \in Agents : AgentPanel(a) \/ \E s \in Servers : EntityPage(a, s)
    \/ \E s \in Servers : DefaultsPanel(s)
    \/ \E o \in Owners, s \in Servers, t \in Tools : ToolEditor(o, s, t)
    \/ \E o \in Owners, s \in Servers : HandEdit(o, s)
    \/ BreakOther \/ RepairOther \/ Restart

Spec == Init /\ [][Next]_vars
-----------------------------------------------------------------------------
(* Properties *)

Kept(o, s) == told[o][s] # Unsure => file[o][s] = told[o][s] /\ live[o][s] = told[o][s]

\* What a page confirmed of a rule set stays in its file and in force, whatever is saved
\* elsewhere, also for the same agent, edited by hand elsewhere, or restarted, until a page
\* that shows that rule set saves it again.  The one exception is an override for a server
\* that the agent's panel does not show, such as [restricted-bot.__gateway__] of README.md:777:
\* to apply that panel drops it (dropped), so that the defaults are in force, although the
\* handler means to "Merge into the full overrides dict" (admin.py:731).  Nothing else is ever
\* dropped.
SavedStays ==
    \A o \in Owners, s \in Servers :
        IF <<o, s>> \in dropped THEN s \in Unshown(o) ELSE Kept(o, s)

AsItIs(a) == [s \in Shown(a) |-> AsShown(Effective(a, s))]

\* The same tools of s are permitted to a after the step, under the same constraints.
SameRules(a, s) ==
    \A t \in Tools :
        /\ Permits(EffectiveIn(live', a, s), t) = Permits(Effective(a, s), t)
        /\ ConstraintOf(EffectiveIn(live', a, s), t) = ConstraintOf(Effective(a, s), t)

ChangesNothingShown ==
    file = live =>
        /\ \A a \in Agents : ApplyAgentPanel(a, AsItIs(a)) =>
               \A b \in Agents, s \in Servers :
                   SameRules(b, s) \/ (b = a /\ s \in Unshown(a) /\ live[a][s] # None)
        /\ \A d \in Downstream \cup Local : ApplyDefaultsPanel(d, AsShown(live[Default][d])) =>
               \A b \in Agents, s \in Servers : SameRules(b, s)

\* To open a panel and apply it as it is shown changes no permission and no constraint of any
\* agent for any server, although for the agent it turns the defaults into overrides, except
\* for those overrides of the agent that its panel does not show.  No edit of the files by
\* hand waits to be loaded.
ResaveIsHarmless == [][ChangesNothingShown]_vars

\* What is left of the constraint of t when rule set r replaces it: the tool is closed, or
\* open through a pattern, or still under the constraint as far as Same can tell.
Held(r, t, Same(_)) ==
    \/ ~Permits(r, t)
    \/ ConstraintOf(r, t) = None /\ t \notin r.allow /\ ByPattern(r, t)
    \/ ConstraintOf(r, t) # None /\ Same(ConstraintOf(r, t))

Panels == (\E a \in Agents : AgentPanel(a)) \/ \E s \in Servers : DefaultsPanel(s)
Matrices == \E a \in Agents, s \in Servers : EntityPage(a, s)

\* A page does not open a tool that is under a constraint.  For servers that the agent's panel
\* shows (for others the panel drops the override), and when no edit of the files by hand
\* waits to be loaded.
OpensNoConstraint ==
    file = live =>
        \A a \in Agents : \A s \in Shown(a), t \in Tools :
            LET c == ConstraintOf(Effective(a, s), t)
                r == EffectiveIn(live', a, s)
            IN  /\ c # None /\ ~Held(r, t, LAMBDA d : d = c) => ~Panels
                /\ Limited(c) /\ ~Held(r, t, LAMBDA d : d.limits) => ~Matrices

\* A tool under a constraint is not opened by a page that does not edit the constraint, even
\* if the form was opened before there was one: a panel leaves the whole constraint, the
\* matrix the limits, unless a pattern opens the tool.
ConstraintsStay == [][OpensNoConstraint]_vars
=============================================================================
