-------------------------- MODULE MCToolRegistries --------------------------
(***************************************************************************)
(* ToolRegistries for TLC: every configuration of one name over a source   *)
(* that loads, one that does not, and one that needs no loading.           *)
(***************************************************************************)
EXTENDS ToolRegistries

CONSTANTS good, bad, remote

MCSources == {good, bad, remote}
MCPython == {good, bad}
MCBroken == {bad}

\* Plugins and workflows are files, native tools are endpoints.
MCConfigs == {k \in Config : \A n \in Names :
                 /\ k["native"][n] \in {remote, NoSource}
                 /\ k["plugin"][n] \in {good, bad, NoSource}
                 /\ k["workflow"][n] \in {good, bad, NoSource}}
=============================================================================
