----------------------------- MODULE OAuthTokens -----------------------------
(***************************************************************************)
(* The OAuth tokens of one upstream server (credentials.py: token store,   *)
(* token manager, broker; admin.py: connect, callback, disconnect).        *)
(*                                                                         *)
(* Calls of get_token and visits to the callback page run concurrently and *)
(* wait on the provider's token endpoint; nothing else is awaited, and the *)
(* store's lock is never contended, so reading the store, and saving to it *)
(* with its file, are one step each.  Tokens are serial numbers.           *)
(*                                                                         *)
(* The provider is outside the repository: one that rotates its refresh    *)
(* tokens accepts each of them once, one that does not never re-issues it. *)
(***************************************************************************)
EXTENDS Naturals

CONSTANTS Callers,      \* calls of get_token under way at a time
          Visits,       \* requests of the callback page
          States,       \* state tokens a connect can mint
          MaxIssued,    \* bound: answers the provider gives
          NoToken, NoReply, Rejected, NoState

\* What the store keeps of an answer.
TokenData == [access : 1..MaxIssued, refresh : 0..MaxIssued]

ASSUME TokensAssumption ==
    /\ MaxIssued \in Nat \ {0}
    /\ Callers \cap Visits = {}
    /\ NoState \notin States
    /\ {NoToken, NoReply, Rejected} \cap TokenData = {}
    /\ NoReply # Rejected

Tasks == Callers \cup Visits

VARIABLES grantType,    \* of the server's OAuthConfig
          rotates,      \* what kind of provider it is
          tokens,       \* OAuthTokenStore._tokens of this server
          file,         \* what oauth-tokens.json holds
          pendingStates,\* _oauth_state
          used,         \* per visit: the state it exchanges a code for
          pc,           \* per task: idle, refreshing, fetching, exchanging
          sent,         \* per task: the refresh token it sent, 0 for none
          reply,        \* per task: the provider's answer on its way
          issued,       \* answers the provider has given
          live,         \* refresh tokens the provider accepts
          stale,        \* access tokens that expire within 60 s, or have
          mishap        \* an answer or a write was lost

provider == <<issued, live, stale>>
store == <<tokens, file>>
tasks == <<pc, sent, reply, used>>
setting == <<grantType, rotates>>
vars == <<setting, store, pendingStates, tasks, provider, mishap>>

Stored == TokenData \cup {NoToken}

\* The types; and no answer is left over for the next call of a task.
TypeOK ==
    /\ grantType \in {"authorization_code", "client_credentials"}
    /\ rotates \in BOOLEAN
    /\ tokens \in Stored
    /\ file \in Stored
    /\ pendingStates \subseteq States
    /\ used \in [Visits -> States \cup {NoState}]
    /\ pc \in [Tasks -> {"idle", "refreshing", "fetching", "exchanging"}]
    /\ sent \in [Tasks -> 0..MaxIssued]
    /\ reply \in [Tasks -> TokenData \cup {NoReply, Rejected}]
    /\ issued \in 0..MaxIssued
    /\ live \subseteq 1..issued
    /\ stale \subseteq 1..issued
    /\ mishap \in BOOLEAN
    /\ \A t \in Tasks : pc[t] = "idle" => reply[t] = NoReply

Init ==
    /\ grantType \in {"authorization_code", "client_credentials"}
    /\ rotates \in BOOLEAN
    /\ tokens = NoToken
    /\ file = NoToken
    /\ pendingStates = {}
    /\ used = [v \in Visits |-> NoState]
    /\ pc = [t \in Tasks |-> "idle"]
    /\ sent = [t \in Tasks |-> 0]
    /\ reply = [t \in Tasks |-> NoReply]
    /\ issued = 0
    /\ live = {}
    /\ stale = {}
    /\ mishap = FALSE

-----------------------------------------------------------------------------
(* The provider *)

Answer(t, refresh) ==
    /\ issued' = issued + 1
    /\ reply' = [reply EXCEPT ![t] = [access |-> issued + 1, refresh |-> refresh]]

\* The token endpoint grants what is asked, with or without a refresh token.
Grant(t) ==
    /\ reply[t] = NoReply
    /\ issued < MaxIssued
    /\ \/ /\ pc[t] \in {"fetching", "exchanging"}
          /\ \E refresh \in {0, issued + 1} :
                 /\ Answer(t, refresh)
                 /\ live' = live \cup ({refresh} \ {0})
       \/ /\ pc[t] = "refreshing"
          /\ sent[t] \in live
          /\ IF rotates
             THEN /\ Answer(t, issued + 1)
                  /\ live' = (live \ {sent[t]}) \cup {issued + 1}
             ELSE /\ Answer(t, 0)
                  /\ live' = live
    /\ UNCHANGED <<setting, store, pendingStates, pc, sent, used, stale, mishap>>

\* A refresh token that is no longer accepted, or a code the provider refuses.
Refuse(t) ==
    /\ reply[t] = NoReply
    /\ \/ pc[t] = "refreshing" /\ sent[t] \notin live
       \/ pc[t] = "exchanging"
    /\ reply' = [reply EXCEPT ![t] = Rejected]
    /\ UNCHANGED <<setting, store, pendingStates, pc, sent, used, provider, mishap>>

\* Time: an access token comes within 60 s of its expiry.
Expire(n) ==
    /\ n \in (1..issued) \ stale
    /\ stale' = stale \cup {n}
    /\ UNCHANGED <<setting, store, pendingStates, tasks, issued, live, mishap>>

-----------------------------------------------------------------------------
(* OAuthTokenManager.get_token *)

Valid(data) == data # NoToken /\ data.access \notin stale
Refreshable(data) == data # NoToken /\ data.refresh # 0

\* _refresh_token: the refresh token is read here, the answer comes later.
SendRefresh(c) ==
    /\ pc[c] = "idle"
    /\ ~Valid(tokens)
    /\ Refreshable(tokens)
    /\ pc' = [pc EXCEPT ![c] = "refreshing"]
    /\ sent' = [sent EXCEPT ![c] = tokens.refresh]
    /\ UNCHANGED <<setting, store, pendingStates, reply, used, provider, mishap>>

\* _fetch_client_credentials.  (With a stored token that is good for another minute, or
\* with nothing to do before a person connects, get_token returns at once.)
SendFetch(c) ==
    /\ pc[c] = "idle"
    /\ ~Valid(tokens)
    /\ ~Refreshable(tokens)
    /\ grantType = "client_credentials"
    /\ pc' = [pc EXCEPT ![c] = "fetching"]
    /\ UNCHANGED <<setting, store, pendingStates, sent, reply, used, provider, mishap>>

Answered(t) == reply[t] \notin {NoReply, Rejected}

\* (mutant) the old refresh token is kept in any case.
KeptOld(t) == [reply[t] EXCEPT !.refresh = IF sent[t] # 0 THEN sent[t] ELSE @]

\* _refresh_token and _store_token: a provider that does not re-issue the refresh token
\* leaves the one that was sent.
Kept(t) == [reply[t] EXCEPT !.refresh = IF @ = 0 THEN sent[t] ELSE @]

\* The task's request is over.
Done(t) ==
    /\ pc' = [pc EXCEPT ![t] = "idle"]
    /\ sent' = [sent EXCEPT ![t] = 0]
    /\ reply' = [reply EXCEPT ![t] = NoReply]

\* (mutant) a failed refresh is tried again without end.
RefreshFailedRetries(c) ==
    /\ reply' = [reply EXCEPT ![c] = NoReply]
    /\ UNCHANGED <<pc, sent>>

\* get_token after _refresh_token has raised: the client credentials, or None.
RefreshFailed(c) ==
    IF grantType = "client_credentials"
    THEN /\ pc' = [pc EXCEPT ![c] = "fetching"]
         /\ sent' = [sent EXCEPT ![c] = 0]
         /\ reply' = [reply EXCEPT ![c] = NoReply]
    ELSE Done(c)

\* An exception in the request: of a fetch it reaches the broker, which returns None.
Fails(t) ==
    \/ pc[t] = "refreshing" /\ RefreshFailed(t)
    \/ pc[t] \in {"fetching", "exchanging"} /\ Done(t)

\* OAuthTokenStore.save: memory, then the file, and the token is returned.
Save(t) ==
    /\ Answered(t)
    /\ tokens' = Kept(t)
    /\ file' = Kept(t)
    /\ Done(t)
    /\ UNCHANGED <<setting, pendingStates, used, provider, mishap>>

\* save with _write raising: memory has the new token, the file the old one, and the
\* request counts as failed.
SaveUnwritten(t) ==
    /\ Answered(t)
    /\ tokens' = Kept(t)
    /\ mishap' = TRUE
    /\ Fails(t)
    /\ UNCHANGED <<setting, file, pendingStates, used, provider>>

\* raise_for_status.
TakeRejection(t) ==
    /\ reply[t] = Rejected
    /\ Fails(t)
    /\ UNCHANGED <<setting, store, pendingStates, used, provider, mishap>>

\* Nothing to read for 10 s or a broken connection, whether or not the provider has answered.
Lost(t) ==
    /\ pc[t] # "idle"
    /\ reply[t] # Rejected
    /\ Fails(t)
    /\ mishap' = (mishap \/ Answered(t))
    /\ UNCHANGED <<setting, store, pendingStates, used, provider>>

Conclude(t) == Save(t) \/ SaveUnwritten(t) \/ TakeRejection(t) \/ Lost(t)

-----------------------------------------------------------------------------
(* The admin pages *)

\* GET /admin/oauth/connect; build_authorize_url refuses client_credentials servers.
Connect(s) ==
    /\ grantType = "authorization_code"
    /\ \A v \in Visits : used[v] # s
    /\ s \notin pendingStates
    /\ pendingStates' = pendingStates \cup {s}
    /\ UNCHANGED <<setting, store, tasks, provider, mishap>>

\* (mutant) the state is looked up, not popped.
CallbackKeepsState(v, s) ==
    /\ pc[v] = "idle"
    /\ used[v] = NoState
    /\ s \in pendingStates
    /\ used' = [used EXCEPT ![v] = s]
    /\ pc' = [pc EXCEPT ![v] = "exchanging"]
    /\ UNCHANGED <<setting, store, pendingStates, sent, reply, provider, mishap>>

\* GET /admin/oauth/callback with a code: pops the state, then exchanges the code.  Any
\* other state is refused with 400 and changes nothing.
Callback(v, s) ==
    /\ pc[v] = "idle"
    /\ used[v] = NoState
    /\ s \in pendingStates
    /\ pendingStates' = pendingStates \ {s}
    /\ used' = [used EXCEPT ![v] = s]
    /\ pc' = [pc EXCEPT ![v] = "exchanging"]
    /\ UNCHANGED <<setting, store, sent, reply, provider, mishap>>

\* A state is of no use after ten minutes.
StateExpires(s) ==
    /\ s \in pendingStates
    /\ pendingStates' = pendingStates \ {s}
    /\ UNCHANGED <<setting, store, tasks, provider, mishap>>

\* POST /admin/oauth/disconnect; _write can fail here too.
Disconnect ==
    /\ tokens # NoToken
    /\ tokens' = NoToken
    /\ file' \in {NoToken, file}
    /\ mishap' = (mishap \/ file' # NoToken)
    /\ UNCHANGED <<setting, pendingStates, tasks, provider>>

\* A crash and a start: the store is loaded from the file, the rest was in memory.
Restart ==
    /\ tokens' = file
    /\ pendingStates' = {}
    /\ pc' = [t \in Tasks |-> "idle"]
    /\ sent' = [t \in Tasks |-> 0]
    /\ reply' = [t \in Tasks |-> NoReply]
    /\ mishap' = (mishap \/ \E t \in Tasks : Answered(t))
    /\ UNCHANGED <<setting, file, used, provider>>

Next ==
    \/ \E t \in Tasks : Grant(t) \/ Refuse(t) \/ Conclude(t)
    \/ \E c \in Callers : SendRefresh(c) \/ SendFetch(c)
    \/ \E v \in Visits, s \in States : Callback(v, s)
    \/ \E s \in States : Connect(s) \/ StateExpires(s)
    \/ \E n \in 1..MaxIssued : Expire(n)
    \/ Disconnect
    \/ Restart

SafeSpec == Init /\ [][Next]_vars

\* httpx gives a request up when there is nothing to read for 10 s.  A provider is taken not to
\* keep one answer coming for ever.
Spec == SafeSpec /\ \A t \in Tasks : WF_vars(Conclude(t))
-----------------------------------------------------------------------------
(* Properties *)

\* A request under way that will put a newer, accepted refresh token in the place of r.
Succeeds(r) == \E t \in Tasks : sent[t] = r /\ Answered(t) /\ Kept(t).refresh \in live

\* A connected server stays connected: unless an answer or a write was lost, a refresh
\* token in memory, or one in the file, is accepted by the provider or is about to be
\* replaced by one that is, however many calls refresh and visits exchange at a time.
ConnectionStaysUsable ==
    grantType = "authorization_code" /\ ~mishap =>
        \A data \in {tokens, file} :
            Refreshable(data) => data.refresh \in live \/ Succeeds(data.refresh)

\* A state handed to a browser is good for one exchange, however often and by whomever the
\* callback is requested, and for none after a restart.
OneExchangePerState ==
    \A v, w \in Visits : v # w /\ used[v] # NoState => used[v] # used[w]

\* Every call of get_token returns, and every exchange ends, also when the provider is silent,
\* refuses or breaks off.
RequestsEnd == \A t \in Tasks : pc[t] # "idle" ~> pc[t] = "idle"
=============================================================================
