---------------------------- MODULE ToolCatalog ----------------------------
(***************************************************************************)
(* Which tools an agent is shown and which tool a name reaches:            *)
(* collect_permitted_tools (server.py) against McpProxy._resolve_target    *)
(* (proxy.py), under the rules of rules.py and while hot reloads replace   *)
(* the configuration.                                                      *)
(*                                                                         *)
(* A tool name is the sequence of its parts between underscores, so that   *)
(* "prefix_" followed by a name is a concatenation and `startswith` is a   *)
(* prefix of sequences.  Names here are in lower case (prefixes are        *)
(* lowered by the code).  A set of names stands for the names a glob of an *)
(* allow list matches.                                                     *)
(***************************************************************************)
EXTENDS SequencesExt

CONSTANTS Servers,     \* names of downstream MCP servers
          Words,       \* the parts of names
          Offers,      \* what tools/list of each server answers (external)
          Meta,        \* _META_TOOLS: search_tools, call_tool
          Plugins,     \* the plugins loaded at startup: no reload changes them
          NoRules,     \* "no entry", None
          Configs      \* the configurations a reload can install

\* The virtual servers, in the order _resolve_target asks them.
Precedence == <<"meta", "native", "plugin", "gateway", "workflow">>
Kinds == {Precedence[i] : i \in 1..5}
Scopes == Servers \cup Kinds

Names == Seq(Words) \ {<<>>}

Rules == [constrain : SUBSET Names, allow : SUBSET Names]

Config == [agent : BOOLEAN,                     \* is the agent configured?
           mine : Seq(Servers),                 \* its mcp_servers, in order
           logOnly : BOOLEAN,
           servers : SUBSET Servers,            \* config.mcp_servers
           prefix : [Servers -> Seq(Words)],    \* tool_prefix or the server's name
           default : [Scopes -> Rules \cup {NoRules}],   \* rules-defaults.toml
           override : [Scopes -> Rules \cup {NoRules}],  \* rules-agents.toml
           native : SUBSET Names, gateway : SUBSET Names, workflow : SUBSET Names]

ASSUME CatalogAssumption ==
    /\ Offers \in [Servers -> SUBSET Names]
    /\ Meta \subseteq Names
    /\ Plugins \subseteq Names
    /\ Servers \cap (Kinds \cup {"nowhere"}) = {}
    /\ NoRules \notin Rules
    /\ Configs \subseteq Config
    /\ Configs # {}

-----------------------------------------------------------------------------
(* rules.py *)

\* The agent's override replaces the server's default.
EffectiveRules(k, s) ==
    IF k.override[s] # NoRules THEN k.override[s] ELSE k.default[s]

\* Constraints first, then the allow list; anything else is denied.
CheckTool(rules, n) == CASE n \in rules.constrain -> "constrained"
                         [] n \in rules.allow \ rules.constrain -> "listed"
                         [] OTHER -> "none"

Permits(k, s, n) == /\ EffectiveRules(k, s) # NoRules
                    /\ CheckTool(EffectiveRules(k, s), n) # "none"

-----------------------------------------------------------------------------
(* Resolving a name *)

Registered(k) == [meta |-> Meta, native |-> k.native, plugin |-> Plugins,
                  gateway |-> k.gateway, workflow |-> k.workflow]

\* The agent's servers that exist, and those of them a name may be meant for.
Available(k)   == {i \in DOMAIN k.mine : k.mine[i] \in k.servers}
ByPrefix(k, n) == {i \in Available(k) : IsStrictPrefix(k.prefix[k.mine[i]], n)}
ByRules(k, n)  == {i \in Available(k) : Permits(k, k.mine[i], n)}

\* (mutant) the prefix is not stripped from the name.
ServerForToolUnstripped(k, n) ==
    LET first(S) == k.mine[Min(S)]
    IN  CASE ByPrefix(k, n) # {} -> [scope |-> first(ByPrefix(k, n)), tool |-> n]
          [] ByPrefix(k, n) = {} /\ ByRules(k, n) # {} ->
                 [scope |-> first(ByRules(k, n)), tool |-> n]
          [] ByPrefix(k, n) = {} /\ ByRules(k, n) = {} /\ Available(k) # {} ->
                 [scope |-> first(Available(k)), tool |-> n]
          [] OTHER -> [scope |-> "nowhere", tool |-> n]

\* The first server whose prefix fits, else the first whose rules know the bare name,
\* else the first there is.
ServerForTool(k, n) ==
    LET first(S) == k.mine[Min(S)]
        p == k.prefix[first(ByPrefix(k, n))]
    IN  CASE ByPrefix(k, n) # {} ->
                 [scope |-> first(ByPrefix(k, n)), tool |-> SubSeq(n, Len(p) + 1, Len(n))]
          [] ByPrefix(k, n) = {} /\ ByRules(k, n) # {} ->
                 [scope |-> first(ByRules(k, n)), tool |-> n]
          [] ByPrefix(k, n) = {} /\ ByRules(k, n) = {} /\ Available(k) # {} ->
                 [scope |-> first(Available(k)), tool |-> n]
          [] OTHER -> [scope |-> "nowhere", tool |-> n]

ResolveTarget(k, n) ==
    LET hits == {i \in 1..5 : n \in Registered(k)[Precedence[i]]}
    IN  IF hits # {} THEN [scope |-> Precedence[Min(hits)], tool |-> n]
                     ELSE ServerForTool(k, n)

\* Would call_tool let the name through to its target?
Callable(k, n) ==
    LET t == ResolveTarget(k, n)
    IN  /\ k.agent
        /\ t.scope # "nowhere"
        /\ (k.logOnly /\ t.scope \in Servers) \/ Permits(k, t.scope, t.tool)

-----------------------------------------------------------------------------
(* Listing the tools of a session *)

VARIABLES config,    \* the live WrapperConfig and agent
          stage,     \* idle, asking (a server), listed
          agentCfg,  \* the AgentConfig the listing read when it started
          at,        \* which of its servers is being asked
          prefix,    \* the prefix read before asking
          tools,     \* the entries gathered: a shown name, whose tool, which tool
          since,     \* history: the configurations in force since the listing began
          failed     \* history: did some server fail to answer?

vars == <<config, stage, agentCfg, at, prefix, tools, since, failed>>

Entry == [name : Names, scope : Scopes, tool : Names]

TypeOK ==
    /\ config \in Configs
    /\ stage \in {"idle", "asking", "listed"}
    /\ agentCfg \in [mine : Seq(Servers), logOnly : BOOLEAN]
    /\ at \in Nat
    /\ stage = "asking" => at \in DOMAIN agentCfg.mine
    /\ prefix \in Seq(Words)
    /\ tools \subseteq Entry
    /\ since \subseteq Configs
    /\ failed \in BOOLEAN

Init ==
    /\ config \in Configs
    /\ stage = "idle"
    /\ agentCfg = [mine |-> <<>>, logOnly |-> FALSE]
    /\ at = 0
    /\ prefix = <<>>
    /\ tools = {}
    /\ since = {}
    /\ failed = FALSE

\* Native, plugin, workflow and meta tools, each under its own rules, also for a
\* log_only agent.  The gateway has a listing of its own.
VirtualTools(k) ==
    UNION {{[name |-> n, scope |-> kind, tool |-> n] :
                n \in {m \in Registered(k)[kind] : Permits(k, kind, m)}} :
           kind \in Kinds \ {"gateway"}}

\* (mutant) a server that is gone ends the loop.
AdvanceBreak(j, mine, gathered) ==
    LET here == {i \in {j} : i <= Len(mine) /\ mine[i] \in config.servers}
    IN  \/ /\ here # {}
           /\ stage' = "asking"
           /\ at' = j
           /\ prefix' = config.prefix[mine[j]]
           /\ tools' = gathered
        \/ /\ here = {}
           /\ stage' = "listed"
           /\ at' = 0
           /\ prefix' = <<>>
           /\ tools' = gathered \cup VirtualTools(config)

\* Ask the next server that exists, or finish the list.
Advance(j, mine, gathered) ==
    LET rest == {i \in j..Len(mine) : mine[i] \in config.servers}
    IN  \/ /\ rest # {}
           /\ stage' = "asking"
           /\ at' = Min(rest)
           /\ prefix' = config.prefix[mine[Min(rest)]]
           /\ tools' = gathered
        \/ /\ rest = {}
           /\ stage' = "listed"
           /\ at' = 0
           /\ prefix' = <<>>
           /\ tools' = gathered \cup VirtualTools(config)

StartListing ==
    /\ stage # "asking"
    /\ since' = {config}
    /\ failed' = FALSE
    /\ agentCfg' = [mine |-> config.mine, logOnly |-> config.logOnly]
    /\ \/ /\ config.agent
          /\ Advance(1, config.mine, {})
       \/ /\ ~config.agent
          /\ stage' = "listed" /\ at' = 0 /\ prefix' = <<>> /\ tools' = {}
    /\ UNCHANGED config

\* A name already shown is skipped.
Fresh(new) == {e \in new : \A o \in tools : o.name # e.name}

\* (mutant) a server without rules is shown whole.
OfferedDefaultOpen(s) ==
    {n \in Offers[s] : \/ agentCfg.logOnly
                       \/ EffectiveRules(config, s) = NoRules
                       \/ Permits(config, s, n)}

\* What a server's answer adds, under the rules of the moment it arrives.
Offered(s) == {n \in Offers[s] : agentCfg.logOnly \/ Permits(config, s, n)}

Fetched ==
    /\ stage = "asking"
    /\ LET s == agentCfg.mine[at]
       IN  Advance(at + 1, agentCfg.mine,
                   tools \cup Fresh({[name |-> prefix \o n, scope |-> s, tool |-> n] :
                                        n \in Offered(s)}))
    /\ UNCHANGED <<config, agentCfg, since, failed>>

\* An error or the 10 s timeout: the server is skipped.
FetchFailed ==
    /\ stage = "asking"
    /\ failed' = TRUE
    /\ Advance(at + 1, agentCfg.mine, tools)
    /\ UNCHANGED <<config, agentCfg, since>>

\* Its credential cannot be had: that is outside the try, the request fails.
TokenFailed ==
    /\ stage = "asking"
    /\ stage' = "idle"
    /\ at' = 0
    /\ prefix' = <<>>
    /\ tools' = {}
    /\ UNCHANGED <<config, agentCfg, since, failed>>

\* A hot reload can fall between the start and the last answer, and after the list.
HotReload ==
    /\ config' \in Configs
    /\ since' = since \cup {config'}
    /\ UNCHANGED <<stage, agentCfg, at, prefix, tools, failed>>

Answered == Fetched \/ FetchFailed \/ TokenFailed

Next == StartListing \/ Answered \/ HotReload

Spec == Init /\ [][Next]_vars
-----------------------------------------------------------------------------
(* Properties *)

\* No tool is shown that no configuration in force since the listing began would have
\* let the agent use: the list mixes reloads, but it never invents a permission.
ListedWasPermitted ==
    \A e \in tools : \E k \in since :
        Permits(k, e.scope, e.tool) \/ (k.logOnly /\ e.scope \in Servers)

\* Two downstream tools are never shown under one name, whatever prefixes the servers
\* have and however a reload renames them in between.
OneServerPerName ==
    \A e, f \in tools : e.scope \in Servers /\ f.scope \in Servers /\ e.name = f.name => e = f

\* A configuration whose names cannot be confused: no prefix begins another one or a
\* virtual tool's name, and no two registries share a name.
Unambiguous(k) ==
    /\ \A i, j \in Available(k) :
           k.mine[i] # k.mine[j] => ~IsPrefix(k.prefix[k.mine[i]], k.prefix[k.mine[j]])
    /\ \A K, L \in Kinds : K # L => Registered(k)[K] \cap Registered(k)[L] = {}
    /\ \A K \in Kinds : \A n \in Registered(k)[K], i \in Available(k) :
           ~IsPrefix(k.prefix[k.mine[i]], n)

\* In such a configuration, with no reload since, every name shown reaches the very tool
\* it was shown for, and the rules let it through.
ListedReachesItsTool ==
    stage = "listed" /\ since = {config} /\ Unambiguous(config) =>
        \A e \in tools : /\ ResolveTarget(config, e.name) = [scope |-> e.scope, tool |-> e.tool]
                         /\ Callable(config, e.name)

\* With no reload and no failing server, no tool of a server or a listed registry that
\* the agent may use is missing, unless another one is shown under its name.
PermittedIsListed ==
    stage = "listed" /\ since = {config} /\ config.agent /\ ~failed =>
        /\ \A i \in Available(config) : \A n \in Offers[config.mine[i]] :
               Permits(config, config.mine[i], n) =>
                   \E e \in tools : e.name = config.prefix[config.mine[i]] \o n
        /\ \A kind \in Kinds \ {"gateway"} : \A n \in Registered(config)[kind] :
               Permits(config, kind, n) => [name |-> n, scope |-> kind, tool |-> n] \in tools
=============================================================================
