--------------------------- MODULE MCToolCatalog ---------------------------
(***************************************************************************)
(* ToolCatalog for TLC: two servers, one native tool, a workflow, and      *)
(* configurations that differ where listings and resolution can go wrong.  *)
(***************************************************************************)
EXTENDS ToolCatalog

CONSTANTS s1, s2

MCServers == {s1, s2}
MCWords == {"a", "b", "c", "read", "search", "send"}
read == <<"read">>
send == <<"send">>
MCOffers == (s1 :> {read, send, <<"b", "read">>}) @@ (s2 :> {read})
MCMeta == {<<"search">>}
MCPlugins == {<<"c">>}

Only(allowed, constrained) == [constrain |-> constrained, allow |-> allowed]
None == [s \in MCServers \cup Kinds |-> NoRules]

\* Prefixes a and b; the override of s1 takes "send" away again; the native tool and the
\* search tool are allowed, the plugin is constrained.
Plain == [agent |-> TRUE, mine |-> <<s1, s2>>, logOnly |-> FALSE, servers |-> MCServers,
          prefix |-> (s1 :> <<"a">>) @@ (s2 :> <<"b">>),
          default |-> (s1 :> Only({send, read}, {})) @@ (s2 :> Only({}, {read}))
                      @@ ("native" :> Only({<<"c", "read">>}, {}))
                      @@ ("plugin" :> Only({}, {<<"c">>}))
                      @@ ("meta" :> Only(MCMeta, {})) @@ None,
          override |-> (s1 :> Only({read}, {})) @@ None,
          native |-> {<<"c", "read">>}, gateway |-> {send}, workflow |-> {}]

\* s2's prefix begins with s1's: "a_b_read" can be s2's read or s1's b_read.
Overlapping == [Plain EXCEPT !.prefix = (s1 :> <<"a">>) @@ (s2 :> <<"a", "b">>)]

\* A log_only agent with the same prefix on both servers, and a workflow.
SamePrefix == [Plain EXCEPT !.logOnly = TRUE, !.prefix = (s1 :> <<"a">>) @@ (s2 :> <<"a">>),
                            !.override = None, !.workflow = {<<"b">>},
                            !.default = ("workflow" :> Only({<<"b">>}, {})) @@ None]

\* The first server is gone; of the rules only an override for the second is left.
Smaller == [Plain EXCEPT !.servers = {s2}, !.default = None,
                         !.override = (s2 :> Only({read}, {})) @@ None]

\* Both servers are there, and no rules at all.
Unruled == [Plain EXCEPT !.default = None, !.override = None]

\* The agent is gone.
Removed == [Plain EXCEPT !.agent = FALSE, !.servers = {}]

MCConfigs == {Plain, Overlapping, SamePrefix, Smaller, Unruled, Removed}
=============================================================================
