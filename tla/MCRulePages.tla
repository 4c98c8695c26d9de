---------------------------- MODULE MCRulePages ----------------------------
(***************************************************************************)
(* RulePages for TLC: two agents, of which one is assigned the MCP server, *)
(* and native tools for both; a tool with names and one without; a pattern *)
(* that matches the latter.  The agent without the server has an override  *)
(* for it, and one for the gateway, which its panel does not show.         *)
(***************************************************************************)
EXTENDS RulePages, TLC

CONSTANTS a1, a2, m1, native, gateway, turn, get, lamp, gets

MCAssigned == a1 :> {m1} @@ a2 :> {}
MCMatched == gets :> {get}

Gate == [gate |-> TRUE, limits |-> FALSE, named |-> FALSE, names |-> {}, response |-> FALSE]
Limit == [gate |-> FALSE, limits |-> TRUE, named |-> TRUE, names |-> {lamp}, response |-> TRUE]

MCOffered == {Limit}

Nothing == [t \in {turn, get} |-> None]
Open == [allow |-> {turn}, patterns |-> {gets}, constrain |-> Nothing]
Guarded == [allow |-> {get}, patterns |-> {}, constrain |-> turn :> Limit @@ get :> Gate]

Only == [allow |-> {get}, patterns |-> {}, constrain |-> Nothing]

MCByHand == {Guarded}

MCInstalled ==
    {[o \in Owners |-> [s \in Servers |->
         CASE o = Default -> rules
           [] o = a2 /\ s = m1 -> Guarded
           [] o = a2 /\ s = gateway -> Only
           [] OTHER -> None]] : rules \in {Open, Guarded}}
=============================================================================
