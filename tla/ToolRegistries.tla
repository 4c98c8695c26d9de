--------------------------- MODULE ToolRegistries ---------------------------
(***************************************************************************)
(* The registries behind the virtual servers (native_tools.py,             *)
(* plugin_tools.py, gateway.py, workflow.py) under _hot_reload (server.py) *)
(* and under calls that resolved a tool before a reload and run it after.  *)
(*                                                                         *)
(* The registries are built on the very dictionaries of WrapperConfig:     *)
(* _hot_reload clears and refills them, and only then calls reload(), so   *)
(* the plugin and gateway registries compare the new configuration with    *)
(* itself.  A tool's source is the file (or, for the kinds that load       *)
(* nothing, the command, URL or endpoint) its configuration names.         *)
(***************************************************************************)
EXTENDS Naturals

CONSTANTS Calls, Names,
          Sources,     \* what a configuration entry can point at
          Python,      \* gateway entries of type python among them
          Broken,      \* sources that do not load
          NoSource,    \* "no entry"
          Configs      \* what the files can hold when a reload reads them

\* The order in which _resolve_target asks the registries.
Precedence == <<"native", "plugin", "gateway", "workflow">>
Kinds == {Precedence[i] : i \in 1..4}

Config == [Kinds -> [Names -> Sources \cup {NoSource}]]

ASSUME RegistryAssumption ==
    /\ NoSource \notin Sources
    /\ Python \subseteq Sources
    /\ Broken \subseteq Sources
    /\ Configs \subseteq Config
    /\ Configs # {}

VARIABLES configs,    \* the registries' _configs (and WrapperConfig's dictionaries)
          loaded,     \* _plugins, _py_modules, _definitions: which source was loaded
          pc,         \* per call: idle, resolved, running, ended
          target,     \* per call: the kind and name it resolved
          code,       \* per call: the source it runs
          outcome     \* per call: what it ended with

vars == <<configs, loaded, pc, target, code, outcome>>

\* The kinds that load something, and what they load of a configuration.
Loading == {"plugin", "gateway", "workflow"}

Target == [kind : Kinds, name : Names]
NoTarget == [kind |-> "none", name |-> "none"]

TypeOK ==
    /\ configs \in Configs
    /\ loaded \in [Loading -> [Names -> Sources \cup {NoSource}]]
    /\ pc \in [Calls -> {"idle", "resolved", "running", "ended"}]
    /\ target \in [Calls -> Target \cup {NoTarget}]
    /\ code \in [Calls -> Sources \cup {NoSource}]
    /\ outcome \in [Calls -> {"none", "result", "error"}]

-----------------------------------------------------------------------------
(* Loading *)

\* (mutant) an entry is kept although its source did not load.
LoadUnchecked(kind, source) ==
    IF source = NoSource \/ (kind = "gateway" /\ source \notin Python) THEN NoSource ELSE source

\* What loading a source gives: a gateway entry that is not python needs no loading.
Load(kind, source) ==
    IF source = NoSource \/ source \in Broken \/ (kind = "gateway" /\ source \notin Python)
    THEN NoSource
    ELSE source

\* A registry built on a configuration.
Built(kind, config) == [n \in Names |-> Load(kind, config[kind][n])]

\* PluginRegistry.reload and GatewayRegistry.reload: only the entries that came or went.
Reloaded(kind, have, modules, new) ==
    [n \in Names |->
        CASE have[n] # NoSource /\ new[n] = NoSource -> NoSource
          [] have[n] = NoSource /\ new[n] # NoSource -> Load(kind, new[n])
          [] OTHER -> modules[n]]

Init ==
    /\ configs \in Configs
    /\ loaded = [kind \in Loading |-> Built(kind, configs)]
    /\ pc = [c \in Calls |-> "idle"]
    /\ target = [c \in Calls |-> NoTarget]
    /\ code = [c \in Calls |-> NoSource]
    /\ outcome = [c \in Calls |-> "none"]

\* (mutant) definitions of the last reload are not cleared.
HotReloadKeepsDefinitions ==
    /\ \E new \in Configs :
           /\ configs' = new
           /\ loaded' = [plugin   |-> Reloaded("plugin", new["plugin"], loaded["plugin"], new["plugin"]),
                         gateway  |-> Reloaded("gateway", new["gateway"], loaded["gateway"], new["gateway"]),
                         workflow |-> [n \in Names |->
                             IF Load("workflow", new["workflow"][n]) = NoSource
                             THEN loaded["workflow"][n]
                             ELSE Load("workflow", new["workflow"][n])]]
    /\ UNCHANGED <<pc, target, code, outcome>>

\* The dictionaries are refilled first, so reload() is given them as the old ones too;
\* the workflow registry starts over.  Nothing is awaited on the way.
HotReload ==
    /\ \E new \in Configs :
           /\ configs' = new
           /\ loaded' = [plugin   |-> Reloaded("plugin", new["plugin"], loaded["plugin"], new["plugin"]),
                         gateway  |-> Reloaded("gateway", new["gateway"], loaded["gateway"], new["gateway"]),
                         workflow |-> Built("workflow", new)]
    /\ UNCHANGED <<pc, target, code, outcome>>

-----------------------------------------------------------------------------
(* A call *)

\* has_tool of each registry: two look at the configuration, two at what is loaded.
Has(kind, n) == IF kind \in {"native", "gateway"} THEN configs[kind][n] # NoSource
                                                  ELSE loaded[kind][n] # NoSource

\* The first registry that has the name; the call then waits (rules, approvals).
Resolve(c) ==
    /\ pc[c] = "idle"
    /\ \E n \in Names, i \in 1..4 :
           /\ Has(Precedence[i], n)
           /\ \A j \in 1..(i - 1) : ~Has(Precedence[j], n)
           /\ target' = [target EXCEPT ![c] = [kind |-> Precedence[i], name |-> n]]
    /\ pc' = [pc EXCEPT ![c] = "resolved"]
    /\ UNCHANGED <<configs, loaded, code, outcome>>

\* (mutant) a plugin runs without a look at its configuration.
RunsUnchecked(kind, n) ==
    CASE kind = "native" -> configs[kind][n]
      [] kind = "plugin" -> loaded[kind][n]
      [] kind = "gateway" -> IF configs[kind][n] \in Python THEN loaded[kind][n] ELSE configs[kind][n]
      [] kind = "workflow" -> loaded[kind][n]

\* What execute() would run now, NoSource when it raises instead: every registry looks
\* its configuration or definition up again.
Runs(kind, n) ==
    CASE kind = "native" -> configs[kind][n]
      [] kind = "plugin" -> IF configs[kind][n] # NoSource THEN loaded[kind][n] ELSE NoSource
      [] kind = "gateway" -> IF configs[kind][n] \in Python THEN loaded[kind][n] ELSE configs[kind][n]
      [] kind = "workflow" -> loaded[kind][n]

Execute(c) ==
    LET source == Runs(target[c].kind, target[c].name)
    IN  /\ pc[c] = "resolved"
        /\ source # NoSource
        /\ pc' = [pc EXCEPT ![c] = "running"]
        /\ code' = [code EXCEPT ![c] = source]
        /\ UNCHANGED <<configs, loaded, target, outcome>>

\* A KeyError, a RuntimeError or a ValueError: nothing has run.
CannotExecute(c) ==
    /\ pc[c] = "resolved"
    /\ Runs(target[c].kind, target[c].name) = NoSource
    /\ pc' = [pc EXCEPT ![c] = "ended"]
    /\ outcome' = [outcome EXCEPT ![c] = "error"]
    /\ UNCHANGED <<configs, loaded, target, code>>

\* The tool answers, fails or times out.  After a native tool's answer call_tool reads its
\* configuration once more, and raises KeyError when a reload removed it meanwhile.
Answer(c) ==
    /\ pc[c] = "running"
    /\ pc' = [pc EXCEPT ![c] = "ended"]
    /\ \E how \in {"result", "error"} :
           /\ target[c].kind = "native" /\ configs["native"][target[c].name] = NoSource => how = "error"
           /\ outcome' = [outcome EXCEPT ![c] = how]
    /\ UNCHANGED <<configs, loaded, target, code>>

Conclude(c) == Execute(c) \/ CannotExecute(c) \/ Answer(c)

Next == HotReload \/ \E c \in Calls : Resolve(c) \/ Conclude(c)

Spec == Init /\ [][Next]_vars
-----------------------------------------------------------------------------
(* Properties *)

\* A tool that a reload removed is not run any more, not even by a call that resolved it
\* before: the plugin stays loaded for ever, but execute() still needs its entry.
RemovedNeverRuns ==
    [][\A c \in Calls : pc[c] = "resolved" /\ pc'[c] = "running" =>
           configs[target[c].kind][target[c].name] # NoSource]_vars

\* What a workflow name runs is the definition its present entry names, after any number
\* of reloads; a definition that does not load leaves no older one behind.
WorkflowsFollow ==
    \A n \in Names : loaded["workflow"][n] \in {NoSource, configs["workflow"][n]}

\* No source that failed to load is ever run in process, even under a name whose entry
\* a reload changed meanwhile.
BrokenNeverRuns ==
    \A c \in Calls : code[c] \in Broken =>
        target[c].kind = "native" \/ (target[c].kind = "gateway" /\ code[c] \notin Python)
=============================================================================
