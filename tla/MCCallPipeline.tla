--------------------------- MODULE MCCallPipeline ---------------------------
(***************************************************************************)
(* CallPipeline for TLC: one tool, and the configurations that make its    *)
(* calls take different paths.                                             *)
(***************************************************************************)
EXTENDS CallPipeline

CONSTANT t1

MCTools == {t1}
MCToolOf == [c \in Calls |-> t1]

One(agent, logOnly, assigned, rule, place) ==
    [agent |-> agent, cfg |-> [logOnly |-> logOnly, assigned |-> assigned],
     rule |-> [t \in MCTools |-> rule], place |-> [t \in MCTools |-> place]]

\* An approval on a native tool; log_only in front of a downstream server; the agent removed,
\* while the server stays.  Reloads mix them: after its outbound approval, a call that started
\* as log_only may find the native tool, and one that started without the server does not
\* find it.
MCConfigs == {One(TRUE, FALSE, {}, "approval", "virtual"),
              One(TRUE, TRUE, {t1}, "none", "downstream"),
              One(FALSE, FALSE, {}, "none", "downstream")}
=============================================================================
