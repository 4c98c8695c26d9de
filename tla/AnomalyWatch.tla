---------------------------- MODULE AnomalyWatch ----------------------------
(***************************************************************************)
(* What the wrapper notices about one agent: that its token is used by     *)
(* several clients, and that a tool is called for the first time.          *)
(* AnomalyDetector (anomaly.py) remembers clients and tools in memory and  *)
(* looks into the audit log for what happened before; get_session (REST)   *)
(* and _on_session_start (MCP) in server.py ask it, write what they were   *)
(* told to the log and let the client in or not; the proxy asks it about   *)
(* every call whose row it has written.  Each query and each row is        *)
(* awaited, so requests interleave there; a restart forgets what is in     *)
(* memory.                                                                 *)
(***************************************************************************)
EXTENDS Naturals, FiniteSets, Sequences

CONSTANTS Requests,  \* REST requests and MCP sessions that can be under way at once
          Clients,   \* client_info of the clients that use the token
          NoClient,  \* no name and no user agent
          Tools, NoTool,
          Gone,      \* the agent is not configured
          SeedLimit, \* session_start rows the seeding query returns at most: 500
          MaxStarts  \* bound: session_start rows in the log

ASSUME WatchAssumption ==
    /\ NoClient \notin Clients
    /\ NoTool \notin Tools
    /\ Gone \notin {"let in", "block"}
    /\ SeedLimit \in Nat /\ MaxStarts \in Nat

VARIABLES action,    \* shared_key_action of the agent as loaded
          known,     \* _known_fingerprints[agent]
          seen,      \* _seen_tools[agent]
          starts,    \* audit log: the clients of the session_start rows, newest last
          rows,      \* audit log: rows of calls per tool; 2 is two or more
          req,       \* where each request is, and its local variables
          quiet,     \* history: clients that passed the check unnoticed in this process
          raced,     \* history: a seeding of this process undid an earlier one
          said       \* history: how often a call was reported as the tool's first

memory == <<known, seen>>
log == <<starts, rows>>
history == <<quiet, raced, said>>
watchVars == <<action, memory, log, req, history>>

\* The agent is not in _known_fingerprints.  NoClient is never remembered.
NotSeeded == {NoClient}

\* "allow", "warn" and "notify" all let the client in: they differ in rows and alerts.
Actions == {"let in", "block", Gone}

Locations == {"idle", "checking", "seeding", "seeded", "starting", "acting", "served",
              "calling", "recorded"}

\* rows: what a seeding has read; noticed: check_fingerprint returned an anomaly.
Request == [at : Locations, kind : {"rest", "mcp"}, client : Clients \cup {NoClient},
            tool : Tools \cup {NoTool}, rows : SUBSET Clients, noticed : BOOLEAN]

Idle == [at |-> "idle", kind |-> "rest", client |-> NoClient,
         tool |-> NoTool, rows |-> {}, noticed |-> FALSE]

WatchTypeOK ==
    /\ action \in Actions
    /\ known \in (SUBSET Clients) \cup {NotSeeded}
    /\ seen \subseteq Tools
    /\ starts \in Seq(Clients \cup {NoClient})
    /\ rows \in [Tools -> 0..2]
    /\ req \in [Requests -> Request]
    /\ quiet \subseteq Clients
    /\ raced \in BOOLEAN
    /\ said \in [Tools -> Nat]

WatchInit ==
    /\ action \in Actions
    /\ known = NotSeeded
    /\ seen = {}
    /\ starts = <<>>
    /\ rows = [t \in Tools |-> 0]
    /\ req = [r \in Requests |-> Idle]
    /\ quiet = {}
    /\ raced = FALSE
    /\ said = [t \in Tools |-> 0]

At(r, l) == req[r].at = l
Client(r) == req[r].client
Goto(r, l) == req' = [req EXCEPT ![r].at = l]
End(r) == req' = [req EXCEPT ![r] = Idle]

-----------------------------------------------------------------------------
(* The client comes in *)

\* The token resolves to the agent: a REST request, or the start of an MCP session.
Arrive(r, k, c) ==
    /\ At(r, "idle")
    /\ action # Gone
    /\ req' = [req EXCEPT ![r] = [@ EXCEPT !.at = "checking", !.kind = k, !.client = c]]
    /\ UNCHANGED <<action, memory, log, history>>

\* What follows the check: an MCP session is recorded always, a REST request if noticed.
Checked(r, n) ==
    req' = [req EXCEPT ![r] = [@ EXCEPT !.noticed = n, !.rows = {},
                               !.at = IF n \/ req[r].kind = "mcp" THEN "starting" ELSE "served"]]

\* check_fingerprint from the point where the agent's clients are in memory, as m.
Compare(r, m) ==
    LET others == m \ {Client(r)}
    IN  /\ known' = m \cup {Client(r)}
        /\ Checked(r, others # {})
        /\ quiet' = IF others = {} THEN quiet \cup {Client(r)} ELSE quiet

CheckAnonymous(r) ==
    /\ At(r, "checking")
    /\ Client(r) = NoClient
    /\ Checked(r, FALSE)
    /\ UNCHANGED <<action, memory, log, history>>

CheckKnown(r) ==
    /\ At(r, "checking")
    /\ Client(r) # NoClient
    /\ known # NotSeeded
    /\ Compare(r, known)
    /\ UNCHANGED <<action, seen, log, raced, said>>

\* The first client of the process: the query that seeds the memory is awaited.
BeginSeeding(r) ==
    /\ At(r, "checking")
    /\ Client(r) # NoClient
    /\ known = NotSeeded
    /\ Goto(r, "seeding")
    /\ UNCHANGED <<action, memory, log, history>>

\* Who is named in the rows that query returns now: it takes the newest, whoever they name.
Recent == {starts[i] : i \in {j \in DOMAIN starts : j + SeedLimit > Len(starts)}} \ {NoClient}

ReadStarts(r) ==
    /\ At(r, "seeding")
    /\ req' = [req EXCEPT ![r] = [@ EXCEPT !.at = "seeded", !.rows = Recent]]
    /\ UNCHANGED <<action, memory, log, history>>

\* (mutant) the memory starts with what this process sees.
SeedWithNothing(r) ==
    /\ At(r, "seeded")
    /\ Compare(r, {})
    /\ raced' = (raced \/ known # NotSeeded)
    /\ UNCHANGED <<action, seen, log, said>>

\* The assignment does not look whether another request has seeded meanwhile.
Seed(r) ==
    /\ At(r, "seeded")
    /\ Compare(r, req[r].rows)
    /\ raced' = (raced \/ known # NotSeeded)
    /\ UNCHANGED <<action, seen, log, said>>

\* The session_start row: every start of an MCP session adds one.
LogStart(r) ==
    /\ At(r, "starting")
    /\ Len(starts) < MaxStarts
    /\ starts' = Append(starts, Client(r))
    /\ Goto(r, IF req[r].noticed THEN "acting" ELSE "served")
    /\ UNCHANGED <<action, memory, rows, history>>

\* The action configured by now; an agent that is gone by now counts as "warn".  The row
\* of shared_key_detected and the alert are written between here and the answer.
Act(r) ==
    /\ At(r, "acting")
    /\ IF action = "block" THEN End(r) ELSE Goto(r, "served")
    /\ UNCHANGED <<action, memory, log, history>>

\* The request is over, or the client goes away at any await.
Leave(r) ==
    /\ ~At(r, "idle")
    /\ End(r)
    /\ UNCHANGED <<action, memory, log, history>>

-----------------------------------------------------------------------------
(* The client calls *)

Call(r, t) ==
    /\ At(r, "served")
    /\ req' = [req EXCEPT ![r] = [@ EXCEPT !.at = "calling", !.tool = t]]
    /\ UNCHANGED <<action, memory, log, history>>

\* A REST request makes one call, an MCP session as many as it likes.
CallOver(r) ==
    IF req[r].kind = "mcp"
    THEN req' = [req EXCEPT ![r] = [@ EXCEPT !.at = "served", !.tool = NoTool]]
    ELSE End(r)

\* The audit row of the call.  A call that failed or was cancelled is not looked at.
LogCall(r) ==
    /\ At(r, "calling")
    /\ rows' = [rows EXCEPT ![req[r].tool] = IF @ = 2 THEN 2 ELSE @ + 1]
    /\ Goto(r, "recorded") \/ CallOver(r)
    /\ UNCHANGED <<action, memory, starts, history>>

\* (mutant) only the memory is asked.
CheckNewToolInMemory(r) ==
    LET t == req[r].tool
    IN  /\ At(r, "recorded")
        /\ seen' = seen \cup {t}
        /\ said' = IF t \in seen THEN said ELSE [said EXCEPT ![t] = @ + 1]
        /\ CallOver(r)
        /\ UNCHANGED <<action, known, log, quiet, raced>>

\* _check_new_tool: it queries for two rows, the call's own among them.
CheckNewTool(r) ==
    LET t == req[r].tool
        old == rows[t] > 1
    IN  /\ At(r, "recorded")
        /\ seen' = IF old THEN seen \cup {t} ELSE seen
        /\ said' = IF t \in seen \/ old THEN said ELSE [said EXCEPT ![t] = @ + 1]
        /\ CallOver(r)
        /\ UNCHANGED <<action, known, log, quiet, raced>>

-----------------------------------------------------------------------------
(* The surroundings *)

\* IdentityResolver.reload: the agent is replaced, removed or added.
Reload ==
    /\ action' \in Actions
    /\ UNCHANGED <<memory, log, req, history>>

WatchRestart ==
    /\ known' = NotSeeded
    /\ seen' = {}
    /\ req' = [r \in Requests |-> Idle]
    /\ quiet' = {}
    /\ raced' = FALSE
    /\ UNCHANGED <<action, log, said>>

ComeIn(r) ==
    \/ \E k \in {"rest", "mcp"}, c \in Clients \cup {NoClient} : Arrive(r, k, c)
    \/ CheckAnonymous(r) \/ CheckKnown(r) \/ BeginSeeding(r) \/ ReadStarts(r) \/ Seed(r)
    \/ LogStart(r) \/ Act(r) \/ Leave(r)

CallTools(r) == LogCall(r) \/ CheckNewTool(r) \/ \E t \in Tools : Call(r, t)

WatchNext == Reload \/ WatchRestart \/ \E r \in Requests : ComeIn(r) \/ CallTools(r)

WatchSpec == WatchInit /\ [][WatchNext]_watchVars

-----------------------------------------------------------------------------
(* Properties *)

PassesQuietly(r) ==
    /\ req[r].at \in {"checking", "seeded"} /\ req'[r].at \in {"starting", "served"}
    /\ Client(r) # NoClient
    /\ ~req'[r].noticed

\* A client passes the check unnoticed only if the newest SeedLimit session_start rows, also
\* those from before a restart, name no other one, and no other one has passed unnoticed in
\* this process - unless two first requests of the process seeded its memory over each
\* other: then both pass, although anomaly.py:66 speaks of any token "used from more than one
\* client fingerprint".  A client whose rows are all older is forgotten by a restart.
QuietOnlyAlone ==
    [][\A r \in Requests : PassesQuietly(r) /\ ~raced' => quiet \cup Recent \subseteq {Client(r)}]_watchVars

\* A tool is reported as called for the first time at most once, whatever calls run at the
\* same time and however often the wrapper starts anew.
FirstTimeSaidOnce == \A t \in Tools : said[t] <= 1
=============================================================================
