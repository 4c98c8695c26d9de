---------------------------- MODULE MCConfigStore ----------------------------
(***************************************************************************)
(* ConfigStore for TLC: a directory written by hand (one server with a     *)
(* tool_prefix, an agent, a gateway tool, a plugin, Telegram without a     *)
(* webhook secret), started before an account has been set up, and the     *)
(* same directory with an account, both chat services and Vault.           *)
(***************************************************************************)
EXTENDS ConfigStore, TLC

CONSTANTS s1, s2, a1, m1, m2, g1, p1, w1

MCEntryNames == "agents" :> {a1} @@ "servers" :> {m1, m2} @@ "gateway" :> {g1}
                @@ "plugins" :> {p1} @@ "workflows" :> {w1}

MCSecrets == {s1, s2}
MCOffered == {s2}

Is(more) == [secret |-> s1, more |-> more]

Directory(wrapper) ==
    "agents" :> (a1 :> Is(FALSE)) @@ "servers" :> (m1 :> Is(TRUE) @@ m2 :> Absent)
    @@ "gateway" :> (g1 :> Is(FALSE)) @@ "plugins" :> (p1 :> Is(TRUE))
    @@ "workflows" :> (w1 :> Absent) @@ "wrapper" :> wrapper

HandWritten == [p \in WrapperParts |->
              CASE p = "settings" -> Is(TRUE) [] p = "telegram" -> Is(FALSE) [] OTHER -> Absent]

SetUp == [p \in WrapperParts |->
             CASE p \in {"admin", "slack", "vault"} -> Is(FALSE)
               [] p = "telegram" -> Is(TRUE) [] OTHER -> Absent]

MCInstalled == {[files |-> Directory(HandWritten), order |-> <<"settings", "notifications">>],
                [files |-> Directory(SetUp), order |-> <<"admin", "notifications", "vault">>]}

MCByHand == {[secret |-> s2, more |-> TRUE], Absent}
=============================================================================

