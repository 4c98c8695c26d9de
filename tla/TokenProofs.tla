---------------------------- MODULE TokenProofs ----------------------------
(***************************************************************************)
(* Proofs about tokens: those the wrapper holds for downstream servers     *)
(* (OAuthTokens), for any number of callers, visits, states and answers of *)
(* the provider; and those it has given to agents (AnomalyWatch), for any  *)
(* number of requests, clients, tools, restarts and reloads.               *)
(*                                                                         *)
(* What keeps a connection usable is that the refresh token in an answer   *)
(* on its way is known to nobody else yet, so no other request can use it  *)
(* up before it is stored (Fresh); and that a provider which rotates its   *)
(* refresh tokens always sends a new one (Reissued), one that does not     *)
(* never withdraws the old one (Steady).                                   *)
(***************************************************************************)
EXTENDS OAuthTokens, AnomalyWatch, TLAPS

\* Refresh tokens that are stored or have been sent were issued before.
Bounded ==
    /\ \A t \in Tasks : sent[t] <= issued
    /\ \A t \in Tasks : sent[t] # 0 => pc[t] = "refreshing"
    /\ \A data \in {tokens, file} : data # NoToken => data.refresh <= issued

\* r is the refresh token of an answer that has not been taken yet.
Underway(t, r) == Answered(t) /\ reply[t].refresh = r /\ r # 0

Fresh ==
    \A t \in Tasks, r \in Nat : Underway(t, r) =>
        /\ r \in live
        /\ \A u \in Tasks : sent[u] # r
        /\ \A u \in Tasks : Underway(u, r) => u = t
        /\ \A data \in {tokens, file} : data # NoToken => data.refresh # r

Reissued ==
    rotates => \A t \in Tasks : pc[t] = "refreshing" /\ Answered(t) => reply[t].refresh # 0

Steady ==
    ~rotates => /\ \A t \in Tasks : sent[t] # 0 => sent[t] \in live
                /\ \A data \in {tokens, file} : Refreshable(data) => data.refresh \in live

InStep == ~mishap => tokens = file

Usable == ~mishap /\ Refreshable(tokens) => tokens.refresh \in live \/ Succeeds(tokens.refresh)

IInv == TypeOK /\ Bounded /\ Fresh /\ Reissued /\ Steady /\ InStep /\ Usable

-----------------------------------------------------------------------------
(* Answers *)

\* What is stored of an answer: its refresh token, or the one that was sent.
LEMMA KeptIs ==
    ASSUME TypeOK, NEW t \in Tasks, Answered(t)
    PROVE  /\ reply[t] \in TokenData
           /\ Kept(t) \in TokenData
           /\ Kept(t).refresh = IF reply[t].refresh = 0 THEN sent[t] ELSE reply[t].refresh
           /\ Kept(t) # NoToken
<1>1. reply[t] \in TokenData /\ sent[t] \in 0..MaxIssued
  BY DEF TypeOK, Answered
<1>2. Kept(t) = [access |-> reply[t].access,
                 refresh |-> IF reply[t].refresh = 0 THEN sent[t] ELSE reply[t].refresh]
  BY <1>1 DEF Kept, TokenData
<1>3. Kept(t) \in TokenData
  BY <1>1, <1>2 DEF TokenData
<1> QED
  BY <1>1, <1>2, <1>3, TokensAssumption

\* A refresh token that will be stored is accepted: taken from the answer, or kept from a
\* provider that does not rotate.
LEMMA KeptIsLive ==
    ASSUME IInv, NEW t \in Tasks, Answered(t), Kept(t).refresh # 0
    PROVE  Kept(t).refresh \in live
<1>1. /\ reply[t] \in TokenData
      /\ Kept(t).refresh = IF reply[t].refresh = 0 THEN sent[t] ELSE reply[t].refresh
  BY KeptIs DEF IInv
<1>2. reply[t].refresh \in Nat
  BY <1>1, TokensAssumption DEF TokenData
<1>3. CASE reply[t].refresh # 0
  BY <1>1, <1>2, <1>3 DEF IInv, Fresh, Underway
<1>4. CASE reply[t].refresh = 0
  <2>1. sent[t] # 0 /\ pc[t] = "refreshing"
    BY <1>1, <1>4 DEF IInv, Bounded
  <2>2. ~rotates
    BY <1>4, <2>1 DEF IInv, Reissued
  <2> QED
    BY <1>1, <1>4, <2>1, <2>2 DEF IInv, Steady
<1> QED
  BY <1>3, <1>4

-----------------------------------------------------------------------------
(* Types *)

LEMMA InitTypeOK == Init => TypeOK
<1>1. 0 \in 0..MaxIssued
  BY TokensAssumption
<1> QED
  BY <1>1 DEF Init, TypeOK, Stored

\* A task that is done, or goes on to fetch, leaves no answer behind.
LEMMA FailsTyped ==
    ASSUME TypeOK, NEW t \in Tasks, Fails(t) \/ Done(t)
    PROVE  /\ pc' \in [Tasks -> {"idle", "refreshing", "fetching", "exchanging"}]
           /\ sent' = [sent EXCEPT ![t] = 0]
           /\ reply' = [reply EXCEPT ![t] = NoReply]
           /\ \A u \in Tasks \ {t} : pc'[u] = pc[u]
           /\ pc'[t] # "refreshing"
           /\ sent' \in [Tasks -> 0..MaxIssued]
           /\ reply' \in [Tasks -> TokenData \cup {NoReply, Rejected}]
           /\ \A u \in Tasks : pc'[u] = "idle" => reply'[u] = NoReply
<1>1. \E l \in {"idle", "fetching"} :
          /\ pc' = [pc EXCEPT ![t] = l]
          /\ sent' = [sent EXCEPT ![t] = 0]
          /\ reply' = [reply EXCEPT ![t] = NoReply]
  BY DEF Fails, Done, RefreshFailed
<1> QED
  BY <1>1, TokensAssumption DEF TypeOK

\* The provider's answer.
LEMMA GrantTyped ==
    ASSUME TypeOK, NEW t \in Tasks, Grant(t)
    PROVE  /\ TypeOK'
           /\ \E r \in {0, issued + 1} :
                  /\ reply' = [reply EXCEPT ![t] = [access |-> issued + 1, refresh |-> r]]
                  /\ [access |-> issued + 1, refresh |-> r] \in TokenData
                  /\ r = issued + 1 => issued + 1 \in live'
                  /\ pc[t] = "refreshing" /\ rotates => r = issued + 1
           /\ issued' = issued + 1 /\ pc[t] # "idle"
           /\ \A r \in live : (rotates /\ pc[t] = "refreshing" /\ r = sent[t]) \/ r \in live'
<1>1. issued \in Nat /\ issued + 1 \in 1..MaxIssued /\ live \subseteq 1..issued
  BY TokensAssumption DEF TypeOK, Grant
<1>2. PICK r \in {0, issued + 1} : Answer(t, r) /\ pc[t] # "idle"
                                  /\ live' \subseteq live \cup ({r} \ {0})
                                  /\ (r = issued + 1 => r \in live')
                                  /\ (pc[t] = "refreshing" /\ rotates => r = issued + 1)
                                  /\ \A x \in live : (rotates /\ pc[t] = "refreshing" /\ x = sent[t]) \/ x \in live'
  <2>1. CASE pc[t] \in {"fetching", "exchanging"}
    BY <1>1, <2>1 DEF Grant
  <2>2. CASE pc[t] = "refreshing" /\ rotates
    BY <1>1, <2>2 DEF Grant
  <2>3. CASE pc[t] = "refreshing" /\ ~rotates
    BY <1>1, <2>3 DEF Grant
  <2> QED
    BY <2>1, <2>2, <2>3 DEF Grant
<1>3. [access |-> issued + 1, refresh |-> r] \in TokenData
  <2>1. r \in 0..MaxIssued
    BY <1>1, <1>2, TokensAssumption
  <2> QED
    BY <1>1, <2>1 DEF TokenData
<1>4. /\ reply' = [reply EXCEPT ![t] = [access |-> issued + 1, refresh |-> r]]
      /\ issued' = issued + 1
  BY <1>2 DEF Answer
<1>5. /\ reply' \in [Tasks -> TokenData \cup {NoReply, Rejected}]
      /\ \A u \in Tasks : pc[u] = "idle" => reply'[u] = NoReply
  BY <1>2, <1>3, <1>4 DEF TypeOK
<1>6. issued' \in 0..MaxIssued /\ live' \subseteq 1..issued' /\ stale \subseteq 1..issued'
  BY <1>1, <1>2, <1>4 DEF TypeOK
<1>7. TypeOK'
  <2>1. UNCHANGED <<grantType, rotates, tokens, file, pendingStates, used, pc, sent, stale, mishap>>
    BY DEF Grant, setting, store
  <2> QED
    BY <1>5, <1>6, <2>1 DEF TypeOK
<1> QED
  BY <1>1, <1>2, <1>3, <1>4, <1>7

LEMMA NextTypeOK == ASSUME TypeOK, [Next]_vars PROVE TypeOK'
<1>1. ASSUME NEW t \in Tasks, Grant(t) PROVE TypeOK'
  BY <1>1, GrantTyped
<1>2. ASSUME NEW t \in Tasks, Refuse(t) PROVE TypeOK'
  BY <1>2 DEF TypeOK, Refuse, provider, store, setting
<1>3. ASSUME NEW t \in Tasks, Conclude(t) PROVE TypeOK'
  <2>1. Fails(t) \/ Done(t)
    BY <1>3 DEF Conclude, Save, SaveUnwritten, TakeRejection, Lost
  <2>2. Answered(t) => Kept(t) \in Stored
    BY KeptIs DEF Stored
  <2>3. tokens' \in Stored /\ file' \in Stored /\ mishap' \in BOOLEAN
    BY <1>3, <2>2 DEF TypeOK, Conclude, Save, SaveUnwritten, TakeRejection, Lost, store, Answered
  <2>4. UNCHANGED <<grantType, rotates, pendingStates, used, issued, live, stale>>
    BY <1>3 DEF Conclude, Save, SaveUnwritten, TakeRejection, Lost, setting, provider
  <2>5. /\ pc' \in [Tasks -> {"idle", "refreshing", "fetching", "exchanging"}]
        /\ sent' \in [Tasks -> 0..MaxIssued]
        /\ reply' \in [Tasks -> TokenData \cup {NoReply, Rejected}]
        /\ \A u \in Tasks : pc'[u] = "idle" => reply'[u] = NoReply
    BY <2>1, FailsTyped
  <2> QED
    BY <2>3, <2>4, <2>5 DEF TypeOK
<1>4. ASSUME NEW c \in Callers, SendRefresh(c) PROVE TypeOK'
  <2>1. tokens.refresh \in 0..MaxIssued /\ c \in Tasks
    BY <1>4 DEF SendRefresh, Refreshable, TypeOK, Stored, TokenData, Tasks
  <2> QED
    BY <1>4, <2>1 DEF SendRefresh, TypeOK, setting, store, provider
<1>5. ASSUME NEW c \in Callers, SendFetch(c) PROVE TypeOK'
  BY <1>5 DEF SendFetch, TypeOK, setting, store, provider, Tasks
<1>6. ASSUME NEW v \in Visits, NEW s \in States, Callback(v, s) PROVE TypeOK'
  BY <1>6 DEF Callback, TypeOK, setting, store, provider, Tasks
<1>7. ASSUME NEW s \in States, Connect(s) \/ StateExpires(s) PROVE TypeOK'
  BY <1>7 DEF Connect, StateExpires, TypeOK, setting, store, tasks, provider
<1>8. ASSUME NEW n \in 1..MaxIssued, Expire(n) PROVE TypeOK'
  BY <1>8 DEF Expire, TypeOK, setting, store, tasks
<1>9. CASE Disconnect
  BY <1>9 DEF Disconnect, TypeOK, setting, tasks, provider, Stored
<1>10. CASE Restart
  BY <1>10, TokensAssumption DEF Restart, TypeOK, setting, provider, Answered
<1>11. CASE UNCHANGED vars
  BY <1>11 DEF vars, TypeOK, setting, store, tasks, provider
<1> QED
  BY <1>1, <1>2, <1>3, <1>4, <1>5, <1>6, <1>7, <1>8, <1>9, <1>10, <1>11 DEF Next

\* Type correctness; in particular no answer is left over for the next call of a task.
THEOREM TypeCorrect == Spec => []TypeOK
  BY InitTypeOK, NextTypeOK, PTL DEF Spec, SafeSpec

-----------------------------------------------------------------------------
(* A state is exchanged once *)

\* A state that was exchanged is no longer pending.
UsedUp == \A v \in Visits : used[v] # NoState => used[v] \notin pendingStates

\* A state handed to a browser is good for one exchange, for any number of visits
\* (admin.py oauth_callback pops it before it awaits the exchange).
THEOREM StatesAreUsedOnce == Spec => []OneExchangePerState
<1>1. Init => UsedUp /\ OneExchangePerState
  BY DEF Init, UsedUp, OneExchangePerState
<1>2. ASSUME TypeOK, UsedUp, OneExchangePerState, [Next]_vars
      PROVE  (UsedUp /\ OneExchangePerState)'
  <2>1. ASSUME NEW v \in Visits, NEW s \in States, Callback(v, s)
        PROVE  (UsedUp /\ OneExchangePerState)'
    BY <1>2, <2>1 DEF Callback, TypeOK, UsedUp, OneExchangePerState
  <2>2. ASSUME NEW s \in States, Connect(s) PROVE (UsedUp /\ OneExchangePerState)'
    BY <1>2, <2>2 DEF Connect, tasks, UsedUp, OneExchangePerState
  <2>3. ASSUME UNCHANGED used, pendingStates' \subseteq pendingStates
        PROVE  (UsedUp /\ OneExchangePerState)'
    BY <1>2, <2>3 DEF UsedUp, OneExchangePerState
  <2>4. ASSUME NEW t \in Tasks, Grant(t) \/ Refuse(t) \/ Conclude(t)
        PROVE  UNCHANGED <<used, pendingStates>>
    BY <2>4 DEF Grant, Refuse, Conclude, Save, SaveUnwritten, TakeRejection, Lost
  <2>5. ASSUME NEW c \in Callers, SendRefresh(c) \/ SendFetch(c)
        PROVE  UNCHANGED <<used, pendingStates>>
    BY <2>5 DEF SendRefresh, SendFetch
  <2>6. ASSUME NEW s \in States, StateExpires(s)
        PROVE  UNCHANGED used /\ pendingStates' \subseteq pendingStates
    BY <2>6 DEF StateExpires, tasks
  <2>7. ASSUME NEW n \in 1..MaxIssued, Expire(n) PROVE UNCHANGED <<used, pendingStates>>
    BY <2>7 DEF Expire, tasks
  <2>8. CASE Disconnect \/ Restart \/ UNCHANGED vars
    BY <2>3, <2>8 DEF Disconnect, Restart, vars, tasks
  <2> QED
    BY <1>2, <2>1, <2>2, <2>3, <2>4, <2>5, <2>6, <2>7, <2>8 DEF Next
<1> QED
  BY <1>1, <1>2, TypeCorrect, PTL DEF Spec, SafeSpec

-----------------------------------------------------------------------------
(* A connection stays usable *)

LEMMA InitIInv == Init => IInv
<1> SUFFICES ASSUME Init PROVE IInv
  OBVIOUS
<1>1. TypeOK
  BY InitTypeOK
<1>2. \A t \in Tasks : ~Answered(t)
  BY DEF Init, Answered
<1>3. Bounded /\ Fresh /\ Reissued
  BY <1>2 DEF Init, Bounded, Fresh, Underway, Reissued
<1>4. Steady /\ InStep /\ Usable
  BY DEF Init, Steady, InStep, Usable, Refreshable
<1> QED
  BY <1>1, <1>3, <1>4 DEF IInv

\* A step that neither stores nor sends a refresh token, and takes and gives no answer.
LEMMA QuietStep ==
    ASSUME IInv, TypeOK',
           UNCHANGED <<rotates, tokens, file, sent, issued, live, mishap>>,
           \A t \in Tasks : pc'[t] = pc[t] \/ (pc[t] = "idle" /\ pc'[t] # "refreshing"),
           \A t \in Tasks : reply'[t] = reply[t] \/ (~Answered(t) /\ ~Answered(t)')
    PROVE  IInv'
<1>1. \A t \in Tasks : /\ Answered(t)' <=> Answered(t)
                       /\ Answered(t) => reply'[t] = reply[t] /\ Kept(t)' = Kept(t)
  BY DEF Answered, Kept
<1>2. \A t \in Tasks, r \in Nat : Underway(t, r)' <=> Underway(t, r)
  BY <1>1 DEF Underway
<1>3. Bounded'
  BY DEF IInv, Bounded
<1>4. Fresh'
  BY <1>2 DEF IInv, Fresh
<1>5. Reissued'
  BY <1>1 DEF IInv, Reissued
<1>6. Steady' /\ InStep'
  BY DEF IInv, Steady, InStep, Refreshable
<1>7. Usable'
  BY <1>1 DEF IInv, Usable, Refreshable, Succeeds
<1> QED
  BY <1>3, <1>4, <1>5, <1>6, <1>7 DEF IInv

LEMMA SendRefreshKeeps == ASSUME IInv, NEW c \in Callers, SendRefresh(c), TypeOK' PROVE IInv'
<1>1. /\ c \in Tasks /\ tokens # NoToken /\ tokens.refresh # 0
      /\ pc' = [pc EXCEPT ![c] = "refreshing"]
      /\ sent' = [sent EXCEPT ![c] = tokens.refresh]
      /\ UNCHANGED <<rotates, tokens, file, reply, issued, live, mishap>>
  BY DEF SendRefresh, Refreshable, setting, store, provider, Tasks
<1>2. /\ TypeOK /\ reply[c] = NoReply /\ pc[c] = "idle"
      /\ pc'[c] = "refreshing" /\ sent'[c] = tokens.refresh
      /\ \A t \in Tasks \ {c} : pc'[t] = pc[t] /\ sent'[t] = sent[t]
  BY <1>1 DEF IInv, TypeOK, SendRefresh
<1>3. \A t \in Tasks : /\ Answered(t)' <=> Answered(t)
                       /\ Answered(t) => t # c /\ Kept(t)' = Kept(t)
  BY <1>1, <1>2 DEF Answered, Kept
<1>4. \A t \in Tasks, r \in Nat : Underway(t, r)' <=> Underway(t, r)
  BY <1>1, <1>3 DEF Underway
<1>5. Bounded'
  BY <1>1, <1>2 DEF IInv, Bounded
<1>6. Fresh'
  BY <1>1, <1>2, <1>4 DEF IInv, Fresh
<1>7. Reissued'
  BY <1>1, <1>2, <1>3 DEF IInv, Reissued
<1>8. Steady' /\ InStep'
  BY <1>1, <1>2 DEF IInv, Steady, InStep, Refreshable
<1>9. Usable'
  BY <1>1, <1>2, <1>3 DEF IInv, Usable, Refreshable, Succeeds
<1> QED
  BY <1>5, <1>6, <1>7, <1>8, <1>9 DEF IInv

LEMMA GrantKeeps == ASSUME IInv, NEW t \in Tasks, Grant(t), TypeOK' PROVE IInv'
<1>1. PICK r \in {0, issued + 1} :
          /\ reply' = [reply EXCEPT ![t] = [access |-> issued + 1, refresh |-> r]]
          /\ [access |-> issued + 1, refresh |-> r] \in TokenData
          /\ r = issued + 1 => issued + 1 \in live'
          /\ pc[t] = "refreshing" /\ rotates => r = issued + 1
  BY GrantTyped DEF IInv
<1>2. /\ UNCHANGED <<rotates, tokens, file, pc, sent, mishap>>
      /\ issued' = issued + 1 /\ issued \in Nat /\ live \subseteq 1..issued
      /\ ~Answered(t)
      /\ \A x \in live : (rotates /\ pc[t] = "refreshing" /\ x = sent[t]) \/ x \in live'
  BY GrantTyped DEF IInv, Grant, setting, store, Answered, TypeOK
<1>3. Answered(t)' /\ reply'[t].refresh = r /\ TypeOK
  BY <1>1, TokensAssumption DEF IInv, TypeOK, Answered
<1>4. \A u \in Tasks \ {t} : /\ Answered(u)' <=> Answered(u)
                             /\ reply'[u] = reply[u] /\ Kept(u)' = Kept(u)
  BY <1>1, <1>2, <1>3 DEF TypeOK, Answered, Kept
<1>5. /\ \A u \in Tasks : sent[u] \in Nat /\ sent[u] <= issued
      /\ \A data \in {tokens, file} : data # NoToken => data.refresh \in Nat /\ data.refresh <= issued
  BY <1>3 DEF IInv, Bounded, TypeOK, Stored, TokenData
<1>6. Bounded'
  BY <1>2, <1>5 DEF IInv, Bounded
<1>7. Fresh'
  <2> SUFFICES ASSUME NEW u \in Tasks, NEW x \in Nat, Underway(u, x)'
               PROVE  /\ x \in live'
                      /\ \A w \in Tasks : sent'[w] # x
                      /\ \A w \in Tasks : Underway(w, x)' => w = u
                      /\ \A data \in {tokens', file'} : data # NoToken => data.refresh # x
    BY DEF Fresh
  <2>1. \A w \in Tasks \ {t} : Underway(w, x)' => Underway(w, x)
    BY <1>4 DEF Underway
  <2>2. \A w \in Tasks : Underway(w, x) => x <= issued
    BY <1>2 DEF IInv, Fresh
  <2>3. CASE u = t
    <3>1. x = issued + 1
      BY <1>3, <2>3 DEF Underway
    <3> QED
      BY <1>1, <1>2, <1>3, <1>5, <2>1, <2>2, <2>3, <3>1 DEF Underway
  <2>4. CASE u # t
    <3>1. Underway(u, x) /\ x <= issued /\ x # 0
      BY <2>1, <2>2, <2>4 DEF Underway
    <3>2. ~Underway(t, x)'
      BY <1>2, <1>3, <3>1 DEF Underway
    <3> QED
      BY <1>2, <2>1, <3>1, <3>2 DEF IInv, Fresh
  <2> QED
    BY <2>3, <2>4
<1>8. Reissued'
  BY <1>1, <1>2, <1>3, <1>4 DEF IInv, Reissued
<1>9. Steady' /\ InStep'
  BY <1>2 DEF IInv, Steady, InStep, Refreshable
<1>10. Usable'
  <2> SUFFICES ASSUME ~mishap, Refreshable(tokens), tokens.refresh \notin live'
               PROVE  Succeeds(tokens.refresh)'
    BY <1>2 DEF Usable, Refreshable
  <2>1. CASE tokens.refresh \in live
    <3>1. rotates /\ pc[t] = "refreshing" /\ sent[t] = tokens.refresh
      BY <1>2, <2>1
    <3>2. r = issued + 1 /\ r # 0 /\ r \in live'
      BY <1>1, <1>2, <3>1
    <3>3. Kept(t)'.refresh = r
      <4>1. reply'[t] = [access |-> issued + 1, refresh |-> r]
        BY <1>1, <1>3 DEF TypeOK
      <4> QED
        BY <3>2, <4>1 DEF Kept
    <3> QED
      BY <1>2, <1>3, <3>1, <3>2, <3>3 DEF Succeeds
  <2>2. CASE tokens.refresh \notin live
    <3>1. PICK u \in Tasks : sent[u] = tokens.refresh /\ Answered(u) /\ Kept(u).refresh \in live
      BY <2>2 DEF IInv, Usable, Succeeds
    <3>2. u # t /\ sent[u] # 0 /\ pc[u] = "refreshing"
      BY <1>2, <3>1 DEF IInv, Bounded, Refreshable
    <3>3. Kept(u).refresh \in live'
      <4>1. CASE ~rotates
        BY <1>2, <3>1, <4>1
      <4>2. CASE rotates
        <5>1. /\ Kept(u).refresh = reply[u].refresh /\ reply[u].refresh # 0
              /\ reply[u].refresh \in Nat
          BY <1>3, <3>1, <3>2, <4>2, KeptIs DEF IInv, Reissued, TokenData
        <5>2. sent[t] # reply[u].refresh
          BY <3>1, <5>1 DEF IInv, Fresh, Underway
        <5> QED
          BY <1>2, <3>1, <5>1, <5>2
      <4> QED
        BY <4>1, <4>2
    <3> QED
      BY <1>2, <1>4, <3>1, <3>2, <3>3 DEF Succeeds
  <2> QED
    BY <2>1, <2>2
<1> QED
  BY <1>6, <1>7, <1>8, <1>9, <1>10 DEF IInv

\* A request ends: what it stores, in memory or in the file, is what Kept says.
LEMMA ConcludeKeeps == ASSUME IInv, NEW t \in Tasks, Conclude(t), TypeOK' PROVE IInv'
<1>1. Fails(t) \/ Done(t)
  BY DEF Conclude, Save, SaveUnwritten, TakeRejection, Lost
<1>2. TypeOK
  BY DEF IInv
<1>3. /\ sent'[t] = 0 /\ reply'[t] = NoReply /\ pc'[t] # "refreshing"
      /\ \A u \in Tasks \ {t} : sent'[u] = sent[u] /\ reply'[u] = reply[u] /\ pc'[u] = pc[u]
  BY <1>1, <1>2, FailsTyped DEF TypeOK
<1>4. UNCHANGED <<rotates, issued, live>>
  BY DEF Conclude, Save, SaveUnwritten, TakeRejection, Lost, setting, provider
<1>5. /\ tokens' = tokens \/ (Answered(t) /\ tokens' = Kept(t))
      /\ file' = file \/ (Answered(t) /\ file' = Kept(t))
  BY DEF Conclude, Save, SaveUnwritten, TakeRejection, Lost, store
<1>6. /\ ~Answered(t)'
      /\ \A u \in Tasks \ {t} : (Answered(u)' <=> Answered(u)) /\ Kept(u)' = Kept(u)
  BY <1>3 DEF Answered, Kept
<1>7. \A u \in Tasks, x \in Nat : Underway(u, x)' => u # t /\ Underway(u, x)
  BY <1>3, <1>6 DEF Underway
<1>8. issued \in Nat /\ live \subseteq 1..issued
  BY <1>2 DEF TypeOK
<1>9. Answered(t) => /\ Kept(t).refresh \in live \/ Kept(t).refresh = 0
                     /\ \/ Kept(t).refresh = sent[t]
                        \/ Kept(t).refresh = reply[t].refresh
  BY <1>2, KeptIs, KeptIsLive
<1>10. Bounded'
  <2>1. Answered(t) => Kept(t).refresh <= issued
    <3>1. \A x \in live \cup {0} : x <= issued
      BY <1>8
    <3>2. Answered(t) => Kept(t).refresh \in live \cup {0}
      BY <1>9
    <3> QED
      BY <3>1, <3>2
  <2> QED
    BY <1>3, <1>4, <1>5, <1>8, <2>1 DEF IInv, Bounded
<1>11. Fresh'
  <2> SUFFICES ASSUME NEW u \in Tasks, NEW x \in Nat, Underway(u, x)'
               PROVE  /\ x \in live'
                      /\ \A w \in Tasks : sent'[w] # x
                      /\ \A w \in Tasks : Underway(w, x)' => w = u
                      /\ \A data \in {tokens', file'} : data # NoToken => data.refresh # x
    BY DEF Fresh
  <2>1. Underway(u, x) /\ u # t /\ x # 0
    BY <1>7 DEF Underway
  <2>2. Answered(t) => Kept(t).refresh # x
    BY <1>9, <2>1 DEF IInv, Fresh, Underway
  <2> QED
    BY <1>3, <1>4, <1>5, <1>7, <2>1, <2>2 DEF IInv, Fresh
<1>12. Reissued'
  BY <1>3, <1>4, <1>6 DEF IInv, Reissued
<1>13. Steady'
  BY <1>3, <1>4, <1>5, <1>9 DEF IInv, Steady, Refreshable
<1>14. InStep' /\ Usable'
  <2>1. CASE Save(t)
    <3>1. tokens' = file' /\ Answered(t) /\ tokens' = Kept(t)
      BY <2>1 DEF Save
    <3> QED
      BY <1>4, <1>9, <3>1 DEF InStep, Usable, Refreshable
  <2>2. CASE SaveUnwritten(t) \/ (Lost(t) /\ Answered(t))
    BY <2>2 DEF SaveUnwritten, Lost, InStep, Usable
  <2>3. CASE TakeRejection(t) \/ (Lost(t) /\ ~Answered(t))
    <3>1. ~Answered(t) /\ tokens' = tokens /\ file' = file /\ (mishap' <=> mishap)
      BY <1>2, <2>3 DEF TakeRejection, Lost, Answered, store, TypeOK
    <3>2. \A x \in Nat : Succeeds(x) => Succeeds(x)'
      BY <1>3, <1>4, <1>6, <3>1 DEF Succeeds
    <3>3. Refreshable(tokens) => tokens.refresh \in Nat
      BY <1>2 DEF TypeOK, Stored, TokenData, Refreshable
    <3> QED
      BY <1>4, <3>1, <3>2, <3>3 DEF IInv, InStep, Usable, Refreshable
  <2> QED
    BY <2>1, <2>2, <2>3 DEF Conclude
<1> QED
  BY <1>10, <1>11, <1>12, <1>13, <1>14 DEF IInv

LEMMA DisconnectKeeps == ASSUME IInv, Disconnect, TypeOK' PROVE IInv'
<1>1. /\ UNCHANGED <<rotates, pc, sent, reply, issued, live>>
      /\ tokens' = NoToken /\ file' \in {NoToken, file}
      /\ mishap' \/ file' = NoToken
  BY DEF Disconnect, setting, tasks, provider
<1>2. \A u \in Tasks, x \in Nat : Underway(u, x)' <=> Underway(u, x)
  BY <1>1 DEF Underway, Answered
<1>3. Bounded' /\ Reissued' /\ InStep' /\ Usable'
  BY <1>1 DEF IInv, Bounded, Reissued, Answered, InStep, Usable, Refreshable
<1>4. Fresh'
  BY <1>1, <1>2 DEF IInv, Fresh
<1>5. Steady'
  BY <1>1 DEF IInv, Steady, Refreshable
<1> QED
  BY <1>3, <1>4, <1>5 DEF IInv

LEMMA RestartKeeps == ASSUME IInv, Restart, TypeOK' PROVE IInv'
<1>1. /\ UNCHANGED <<rotates, file, issued, live>>
      /\ tokens' = file
      /\ \A t \in Tasks : sent'[t] = 0 /\ reply'[t] = NoReply /\ pc'[t] = "idle"
      /\ ~mishap' => ~mishap /\ \A t \in Tasks : ~Answered(t)
  BY DEF Restart, setting, provider
<1>2. issued \in Nat /\ \A t \in Tasks : ~Answered(t)'
  BY <1>1 DEF IInv, TypeOK, Answered
<1>3. Bounded' /\ Reissued' /\ InStep' /\ Fresh'
  BY <1>1, <1>2 DEF IInv, Bounded, Reissued, InStep, Fresh, Underway
<1>4. Steady'
  BY <1>1 DEF IInv, Steady, Refreshable
<1>5. Usable'
  BY <1>1 DEF IInv, Usable, InStep, Refreshable, Succeeds
<1> QED
  BY <1>3, <1>4, <1>5 DEF IInv

LEMMA NextKeeps == ASSUME IInv, [Next]_vars PROVE IInv'
<1>1. TypeOK' /\ TypeOK
  BY NextTypeOK DEF IInv
<1>2. ASSUME NEW t \in Tasks, Refuse(t) PROVE IInv'
  <2>1. /\ UNCHANGED <<rotates, tokens, file, sent, issued, live, mishap, pc>>
        /\ reply[t] = NoReply /\ reply' = [reply EXCEPT ![t] = Rejected]
    BY <1>2 DEF Refuse, setting, store, provider
  <2>2. \A u \in Tasks : reply'[u] = reply[u] \/ (~Answered(u) /\ ~Answered(u)')
    BY <1>1, <2>1 DEF Answered, TypeOK
  <2> QED
    BY <1>1, <2>1, <2>2, QuietStep
<1>3. ASSUME NEW c \in Callers, SendFetch(c) PROVE IInv'
  <2>1. /\ UNCHANGED <<rotates, tokens, file, sent, issued, live, mishap, reply>>
        /\ \A t \in Tasks : pc'[t] = pc[t] \/ (pc[t] = "idle" /\ pc'[t] # "refreshing")
    BY <1>1, <1>3 DEF SendFetch, setting, store, provider, TypeOK, Tasks
  <2> QED
    BY <1>1, <2>1, QuietStep
<1>4. ASSUME NEW v \in Visits, NEW s \in States, Callback(v, s) PROVE IInv'
  <2>1. /\ UNCHANGED <<rotates, tokens, file, sent, issued, live, mishap, reply>>
        /\ \A t \in Tasks : pc'[t] = pc[t] \/ (pc[t] = "idle" /\ pc'[t] # "refreshing")
    BY <1>1, <1>4 DEF Callback, setting, store, provider, TypeOK, Tasks
  <2> QED
    BY <1>1, <2>1, QuietStep
<1>5. ASSUME NEW s \in States, Connect(s) \/ StateExpires(s) PROVE IInv'
  BY <1>1, <1>5, QuietStep DEF Connect, StateExpires, setting, store, tasks, provider
<1>6. ASSUME NEW n \in 1..MaxIssued, Expire(n) PROVE IInv'
  BY <1>1, <1>6, QuietStep DEF Expire, setting, store, tasks
<1>7. CASE UNCHANGED vars
  BY <1>1, <1>7, QuietStep DEF vars, setting, store, tasks, provider
<1> QED
  BY <1>1, <1>2, <1>3, <1>4, <1>5, <1>6, <1>7, GrantKeeps, ConcludeKeeps, SendRefreshKeeps,
     DisconnectKeeps, RestartKeeps DEF Next

\* A connected server stays connected, however many calls refresh, visits exchange and
\* restarts fall in between, as long as no answer and no write is lost
\* (OAuthTokenManager.get_token, _store_token and OAuthTokenStore.save).
THEOREM ConnectionsStayUsable == Spec => []ConnectionStaysUsable
<1>1. IInv => ConnectionStaysUsable
  BY DEF IInv, InStep, Usable, ConnectionStaysUsable
<1> QED
  BY <1>1, InitIInv, NextKeeps, PTL DEF Spec, SafeSpec

-----------------------------------------------------------------------------
(* The tokens of agents: AnomalyWatch *)

\* A request that seeds the memory has a client, one that calls has a tool.
Placed ==
    \A r \in Requests :
        /\ req[r].at \in {"seeding", "seeded"} => req[r].client # NoClient
        /\ req[r].at \in {"calling", "recorded"} => req[r].tool \in Tools

LEMMA IdleTyped == Idle \in Request
  BY DEF Idle, Request, Locations

LEMMA InitTyped == WatchInit => WatchTypeOK /\ Placed
<1> SUFFICES ASSUME WatchInit PROVE WatchTypeOK /\ Placed
  OBVIOUS
<1>1. req \in [Requests -> Request]
  BY IdleTyped DEF WatchInit
<1>2. Placed
  BY DEF WatchInit, Placed, Idle
<1>3. known \in (SUBSET Clients) \cup {NotSeeded} /\ action \in Actions
  BY DEF WatchInit
<1>4. rows \in [Tools -> 0..2] /\ said \in [Tools -> Nat]
  BY DEF WatchInit
<1>5. starts \in Seq(Clients \cup {NoClient})
  BY DEF WatchInit
<1>6. seen \subseteq Tools /\ quiet \subseteq Clients /\ raced \in BOOLEAN
  BY DEF WatchInit
<1> QED
  BY <1>1, <1>2, <1>3, <1>4, <1>5, <1>6 DEF WatchTypeOK

\* A step of one request, which changes its own state only.
LEMMA RequestStep ==
    ASSUME WatchTypeOK, Placed, NEW r \in Requests, NEW q \in Request,
           req' = [req EXCEPT ![r] = q],
           q.at \in {"seeding", "seeded"} => q.client # NoClient,
           q.at \in {"calling", "recorded"} => q.tool \in Tools
    PROVE  req' \in [Requests -> Request] /\ Placed'
<1>1. req' \in [Requests -> Request] /\ req'[r] = q
      /\ \A o \in Requests \ {r} : req'[o] = req[o]
  BY DEF WatchTypeOK
<1> QED
  BY <1>1 DEF Placed

LEMMA CheckedTyped ==
    ASSUME WatchTypeOK, NEW r \in Requests, NEW n \in BOOLEAN, Checked(r, n)
    PROVE  /\ req' \in [Requests -> Request]
           /\ req'[r].client = Client(r) /\ req'[r].noticed = n /\ req'[r].rows = {}
           /\ req'[r].at \in {"starting", "served"}
           /\ \A q \in Requests \ {r} : req'[q] = req[q]
<1> DEFINE new == [req[r] EXCEPT !.noticed = n, !.rows = {},
                       !.at = IF n \/ req[r].kind = "mcp" THEN "starting" ELSE "served"]
<1>1. req[r] \in Request
  BY DEF WatchTypeOK
<1>2. /\ new \in Request /\ new.client = Client(r) /\ new.noticed = n /\ new.rows = {}
      /\ new.at \in {"starting", "served"}
  BY <1>1 DEF Request, Locations, Client
<1>3. req' = [req EXCEPT ![r] = new]
  BY DEF Checked
<1> QED
  <2> HIDE DEF new
  <2> QED
    BY <1>2, <1>3 DEF WatchTypeOK

\* The comparison, as a whole.
LEMMA CompareTyped ==
    ASSUME WatchTypeOK, NEW r \in Requests, Client(r) # NoClient, NEW m \in SUBSET Clients, Compare(r, m)
    PROVE  /\ Client(r) \in Clients
           /\ known' = m \cup {Client(r)} /\ known' \subseteq Clients /\ known' # NotSeeded
           /\ quiet' \subseteq Clients /\ quiet' \subseteq quiet \cup {Client(r)}
           /\ m \ {Client(r)} # {} <=> req'[r].noticed
           /\ req' \in [Requests -> Request]
           /\ req'[r].client = Client(r) /\ req'[r].rows = {}
           /\ req'[r].at \in {"starting", "served"}
           /\ \A q \in Requests \ {r} : req'[q] = req[q]
<1>1. Client(r) \in Clients
  BY DEF WatchTypeOK, Request, Client
<1>2. Checked(r, m \ {Client(r)} # {}) /\ known' = m \cup {Client(r)}
      /\ quiet' = IF m \ {Client(r)} = {} THEN quiet \cup {Client(r)} ELSE quiet
  BY DEF Compare
<1>3. known' # NotSeeded
  BY <1>1, <1>2, WatchAssumption DEF NotSeeded
<1> QED
  BY <1>1, <1>2, <1>3, CheckedTyped DEF WatchTypeOK

\* A check, and so a seeding, leaves the request where it neither seeds nor calls.
LEMMA PlacedAfterCheck ==
    ASSUME Placed, NEW r \in Requests, req'[r].at \in {"starting", "served"},
           \A q \in Requests \ {r} : req'[q] = req[q]
    PROVE  Placed'
  BY DEF Placed

\* What the seeding query returns: named clients only, and a row more names at most its own
\* client in addition.
LEMMA RecentClients ==
    ASSUME starts \in Seq(Clients \cup {NoClient})
    PROVE  Recent \subseteq Clients
  BY DEF Recent

\* A row that is within the window after one more is within it now.
LEMMA Older ==
    ASSUME NEW n \in Nat, NEW k \in Nat, NEW i \in 1..(n + 1), i + k > n + 1, i # n + 1
    PROVE  i \in 1..n /\ i + k > n
  OBVIOUS

LEMMA RecentAfterStart ==
    ASSUME starts \in Seq(Clients \cup {NoClient}), NEW c \in Clients \cup {NoClient},
           starts' = Append(starts, c)
    PROVE  Recent' \subseteq Recent \cup ({c} \ {NoClient})
<1>1. /\ Len(starts) \in Nat /\ DOMAIN starts = 1..Len(starts)
      /\ Len(starts') = Len(starts) + 1 /\ DOMAIN starts' = 1..Len(starts) + 1
      /\ starts'[Len(starts) + 1] = c
      /\ \A i \in 1..Len(starts) : starts'[i] = starts[i]
  OBVIOUS
<1>2. ASSUME NEW i \in DOMAIN starts', i + SeedLimit > Len(starts'), starts'[i] # NoClient
      PROVE  starts'[i] \in Recent \cup ({c} \ {NoClient})
  <2>1. CASE i = Len(starts) + 1
    BY <1>1, <1>2, <2>1
  <2>2. CASE i # Len(starts) + 1
    <3>1. i \in 1..Len(starts) + 1 /\ i + SeedLimit > Len(starts) + 1
      BY <1>1, <1>2
    <3>2. i \in 1..Len(starts) /\ i + SeedLimit > Len(starts)
      BY <1>1, <2>2, <3>1, Older, WatchAssumption
    <3>3. i \in DOMAIN starts /\ starts'[i] = starts[i]
      BY <1>1, <3>2
    <3> QED
      BY <1>2, <3>2, <3>3 DEF Recent
  <2> QED  BY <2>1, <2>2
<1>3. Recent' = {starts'[i] : i \in {j \in DOMAIN starts' : j + SeedLimit > Len(starts')}} \ {NoClient}
  BY DEF Recent
<1> QED
  BY <1>2, <1>3

LEMMA ComeInTyped == ASSUME WatchTypeOK, Placed, NEW r \in Requests, ComeIn(r) PROVE WatchTypeOK' /\ Placed'
<1>1. req[r] \in Request
  BY DEF WatchTypeOK
<1>2. ASSUME NEW k \in {"rest", "mcp"}, NEW c \in Clients \cup {NoClient}, Arrive(r, k, c)
      PROVE  WatchTypeOK' /\ Placed'
  <2> DEFINE new == [req[r] EXCEPT !.at = "checking", !.kind = k, !.client = c]
  <2>1. new \in Request /\ new.at = "checking"
    BY <1>1 DEF Request, Locations
  <2>2. req' = [req EXCEPT ![r] = new]
    BY <1>2 DEF Arrive
  <2> HIDE DEF new
  <2>3. req' \in [Requests -> Request] /\ Placed'
    BY <2>1, <2>2, RequestStep
  <2> QED
    BY <1>2, <2>3 DEF Arrive, WatchTypeOK, memory, log, history
<1>3. CASE CheckAnonymous(r)
  <2>1. Checked(r, FALSE)
    BY <1>3 DEF CheckAnonymous
  <2>2. req' \in [Requests -> Request] /\ Placed'
    BY <2>1, CheckedTyped, PlacedAfterCheck
  <2> QED
    BY <1>3, <2>2 DEF CheckAnonymous, WatchTypeOK, memory, log, history
<1>4. CASE CheckKnown(r)
  <2>1. known \in SUBSET Clients /\ Compare(r, known) /\ Client(r) # NoClient
    BY <1>4 DEF CheckKnown, WatchTypeOK
  <2>2. known' \subseteq Clients /\ quiet' \subseteq Clients /\ req' \in [Requests -> Request] /\ Placed'
    BY <2>1, CompareTyped, PlacedAfterCheck
  <2> QED
    BY <1>4, <2>2 DEF CheckKnown, WatchTypeOK, log
<1>5. CASE BeginSeeding(r)
  <2> DEFINE new == [req[r] EXCEPT !.at = "seeding"]
  <2>1. new \in Request /\ new.at = "seeding" /\ new.client # NoClient
    BY <1>1, <1>5 DEF Request, Locations, BeginSeeding, Client
  <2>2. req' = [req EXCEPT ![r] = new]
    BY <1>1, <1>5 DEF BeginSeeding, Goto, Request
  <2> HIDE DEF new
  <2>3. req' \in [Requests -> Request] /\ Placed'
    BY <2>1, <2>2, RequestStep
  <2> QED
    BY <1>5, <2>3 DEF BeginSeeding, WatchTypeOK, memory, log, history
<1>6. CASE ReadStarts(r)
  <2> DEFINE new == [req[r] EXCEPT !.at = "seeded", !.rows = Recent]
  <2>1. new \in Request /\ new.at = "seeded" /\ new.client # NoClient
    <3>1. Recent \subseteq Clients
      BY RecentClients DEF WatchTypeOK
    <3> QED
      BY <1>1, <1>6, <3>1 DEF Request, Locations, ReadStarts, At, Placed
  <2>2. req' = [req EXCEPT ![r] = new]
    BY <1>6 DEF ReadStarts
  <2> HIDE DEF new
  <2>3. req' \in [Requests -> Request] /\ Placed'
    BY <2>1, <2>2, RequestStep
  <2> QED
    BY <1>6, <2>3 DEF ReadStarts, WatchTypeOK, memory, log, history
<1>7. CASE Seed(r)
  <2>1. Compare(r, req[r].rows) /\ Client(r) # NoClient /\ req[r].rows \in SUBSET Clients
    BY <1>1, <1>7 DEF Seed, Request, At, Placed, Client
  <2>2. known' \subseteq Clients /\ quiet' \subseteq Clients /\ req' \in [Requests -> Request] /\ Placed'
    BY <2>1, CompareTyped, PlacedAfterCheck
  <2>3. raced' \in BOOLEAN
    BY <1>7 DEF Seed, WatchTypeOK
  <2> QED
    BY <1>7, <2>2, <2>3 DEF Seed, WatchTypeOK, log
<1>8. CASE LogStart(r)
  <2>1. PICK l \in {"acting", "served"} : req' = [req EXCEPT ![r].at = l]
    BY <1>8 DEF LogStart, Goto
  <2> DEFINE new == [req[r] EXCEPT !.at = l]
  <2>2. new \in Request /\ new.at \in {"acting", "served"}
    BY <1>1 DEF Request, Locations
  <2>3. req' = [req EXCEPT ![r] = new]
    BY <1>1, <2>1 DEF Request
  <2> HIDE DEF new
  <2>4. req' \in [Requests -> Request] /\ Placed'
    BY <2>2, <2>3, RequestStep
  <2>5. starts' \in Seq(Clients \cup {NoClient})
    BY <1>1, <1>8 DEF LogStart, WatchTypeOK, Client, Request
  <2> QED
    BY <1>8, <2>4, <2>5 DEF LogStart, WatchTypeOK, memory, history
<1>9. CASE Act(r)
  <2>1. PICK new \in {Idle, [req[r] EXCEPT !.at = "served"]} : req' = [req EXCEPT ![r] = new]
    BY <1>1, <1>9 DEF Act, End, Goto, Request
  <2>2. new \in Request /\ new.at \in {"idle", "served"}
    BY <1>1, IdleTyped DEF Request, Locations, Idle
  <2>3. req' \in [Requests -> Request] /\ Placed'
    BY <2>1, <2>2, RequestStep
  <2> QED
    BY <1>9, <2>3 DEF Act, WatchTypeOK, memory, log, history
<1>10. CASE Leave(r)
  <2>1. req' \in [Requests -> Request] /\ Placed'
    <3>1. req' = [req EXCEPT ![r] = Idle] /\ Idle.at = "idle"
      BY <1>10 DEF Leave, End, Idle
    <3> QED
      BY <3>1, IdleTyped, RequestStep
  <2> QED
    BY <1>10, <2>1 DEF Leave, WatchTypeOK, memory, log, history
<1> QED
  BY <1>2, <1>3, <1>4, <1>5, <1>6, <1>7, <1>8, <1>9, <1>10 DEF ComeIn

\* After a call the request is over, or served and without a tool.
LEMMA DoneTyped ==
    ASSUME WatchTypeOK, Placed, NEW r \in Requests, CallOver(r)
    PROVE  /\ req' \in [Requests -> Request] /\ Placed'
           /\ req'[r].at \in {"idle", "served"}
           /\ \A q \in Requests \ {r} : req'[q] = req[q]
<1>1. PICK new \in {Idle, [req[r] EXCEPT !.at = "served", !.tool = NoTool]} :
          req' = [req EXCEPT ![r] = new]
  BY DEF CallOver, End
<1>2. new \in Request /\ new.at \in {"idle", "served"}
  <2>1. CASE new = Idle
    BY <2>1, IdleTyped DEF Idle
  <2>2. CASE new = [req[r] EXCEPT !.at = "served", !.tool = NoTool]
    BY <2>2 DEF WatchTypeOK, Request, Locations
  <2> QED
    BY <2>1, <2>2
<1> QED
  BY <1>1, <1>2, RequestStep DEF WatchTypeOK

LEMMA CallToolsTyped == ASSUME WatchTypeOK, Placed, NEW r \in Requests, CallTools(r) PROVE WatchTypeOK' /\ Placed'
<1>1. req[r] \in Request
  BY DEF WatchTypeOK
<1>2. ASSUME NEW t \in Tools, Call(r, t) PROVE WatchTypeOK' /\ Placed'
  <2> DEFINE new == [req[r] EXCEPT !.at = "calling", !.tool = t]
  <2>1. new \in Request /\ new.at = "calling" /\ new.tool = t
    BY <1>1 DEF Request, Locations
  <2>2. req' = [req EXCEPT ![r] = new]
    BY <1>2 DEF Call
  <2> HIDE DEF new
  <2>3. req' \in [Requests -> Request] /\ Placed'
    BY <2>1, <2>2, RequestStep
  <2> QED
    BY <1>2, <2>3 DEF Call, WatchTypeOK, memory, log, history
<1>3. CASE LogCall(r)
  <2>1. req[r].tool \in Tools
    BY <1>3 DEF LogCall, At, Placed
  <2>2. rows' \in [Tools -> 0..2]
    BY <1>3, <2>1 DEF LogCall, WatchTypeOK
  <2>3. req' \in [Requests -> Request] /\ Placed'
    <3>1. CASE CallOver(r)
      BY <3>1, DoneTyped
    <3>2. CASE Goto(r, "recorded")
      <4> DEFINE new == [req[r] EXCEPT !.at = "recorded"]
      <4>1. new \in Request /\ new.at = "recorded" /\ new.tool \in Tools
        BY <1>1, <2>1 DEF Request, Locations
      <4>2. req' = [req EXCEPT ![r] = new]
        BY <1>1, <3>2 DEF Goto, Request
      <4> HIDE DEF new
      <4> QED
        BY <4>1, <4>2, RequestStep
    <3> QED
      BY <1>3, <3>1, <3>2 DEF LogCall
  <2> QED
    BY <1>3, <2>2, <2>3 DEF LogCall, WatchTypeOK, memory, history
<1>4. CASE CheckNewTool(r)
  <2>1. req[r].tool \in Tools
    BY <1>4 DEF CheckNewTool, At, Placed
  <2>2. seen' \subseteq Tools /\ said' \in [Tools -> Nat]
    BY <1>4, <2>1 DEF CheckNewTool, WatchTypeOK
  <2>3. req' \in [Requests -> Request] /\ Placed'
    BY <1>4, DoneTyped DEF CheckNewTool
  <2> QED
    BY <1>4, <2>2, <2>3 DEF CheckNewTool, WatchTypeOK, log
<1> QED
  BY <1>2, <1>3, <1>4 DEF CallTools

LEMMA NextTyped == ASSUME WatchTypeOK, Placed, [WatchNext]_watchVars PROVE WatchTypeOK' /\ Placed'
<1>1. CASE Reload
  BY <1>1 DEF Reload, WatchTypeOK, Placed, memory, log, history
<1>2. CASE WatchRestart
  <2>1. req' \in [Requests -> Request] /\ Placed'
    BY <1>2, IdleTyped DEF WatchRestart, Placed, Idle
  <2> QED
    BY <1>2, <2>1 DEF WatchRestart, WatchTypeOK, log
<1>3. CASE UNCHANGED watchVars
  BY <1>3 DEF watchVars, WatchTypeOK, Placed, memory, log, history
<1> QED
  BY <1>1, <1>2, <1>3, ComeInTyped, CallToolsTyped DEF WatchNext

LEMMA Typed == WatchSpec => [](WatchTypeOK /\ Placed)
  BY InitTyped, NextTyped, PTL DEF WatchSpec

\* Type correctness of the detector's memory, the log it reads and the requests.
THEOREM WatchTypeCorrect == WatchSpec => []WatchTypeOK
  BY Typed, PTL

-----------------------------------------------------------------------------
(* The first call of a tool *)

\* A call whose row is written and that is about to be checked.
Awaits(r, t) == req[r].at = "recorded" /\ req[r].tool = t

\* Each of these calls has its row in the log, and so has the call that was reported.
First ==
    \A t \in Tools :
        /\ said[t] <= 1
        /\ said[t] = 1 => rows[t] >= 1
        /\ \A r \in Requests : Awaits(r, t) => rows[t] >= 1 /\ (said[t] = 1 => rows[t] = 2)
        /\ \A r, q \in Requests : Awaits(r, t) /\ Awaits(q, t) /\ r # q => rows[t] = 2

\* A step that records no call.
LEMMA FirstKept ==
    ASSUME First, UNCHANGED <<rows, said>>,
           \A r \in Requests, t \in Tools : Awaits(r, t)' => Awaits(r, t)
    PROVE  First'
  BY DEF First

LEMMA LogCallFirst ==
    ASSUME WatchTypeOK, Placed, First, NEW r \in Requests, LogCall(r) PROVE First'
<1>1. PICK t \in Tools : t = req[r].tool /\ rows[t] \in 0..2 /\ said' = said
  BY DEF LogCall, At, Placed, WatchTypeOK, history
<1>2. /\ rows'[t] = IF rows[t] = 2 THEN 2 ELSE rows[t] + 1
      /\ \A u \in Tools \ {t} : rows'[u] = rows[u]
  BY <1>1 DEF LogCall, WatchTypeOK
<1>3. \A q \in Requests \ {r} : req'[q] = req[q]
  BY DoneTyped DEF LogCall, Goto, WatchTypeOK
<1>4. \A u \in Tools : Awaits(r, u)' => u = t
  <2>1. CASE CallOver(r)
    BY <2>1, DoneTyped DEF Awaits
  <2>2. CASE Goto(r, "recorded")
    <3>1. req'[r].tool = t
      BY <1>1, <2>2 DEF Goto, WatchTypeOK, Request
    <3> QED
      BY <3>1 DEF Awaits
  <2> QED
    BY <2>1, <2>2 DEF LogCall
<1>5. \A q \in Requests \ {r}, u \in Tools : Awaits(q, u)' <=> Awaits(q, u)
  BY <1>3 DEF Awaits
<1> QED
  <2> SUFFICES ASSUME NEW u \in Tools
               PROVE  /\ said'[u] <= 1
                      /\ said'[u] = 1 => rows'[u] >= 1
                      /\ \A q \in Requests : Awaits(q, u)' => rows'[u] >= 1 /\ (said'[u] = 1 => rows'[u] = 2)
                      /\ \A q, o \in Requests : Awaits(q, u)' /\ Awaits(o, u)' /\ q # o => rows'[u] = 2
    BY DEF First
  <2>1. CASE u # t
    <3>1. \A q \in Requests : Awaits(q, u)' => Awaits(q, u)
      BY <1>4, <1>5, <2>1
    <3> QED
      BY <1>1, <1>2, <2>1, <3>1 DEF First
  <2>2. CASE u = t
    <3>1. rows'[t] >= 1 /\ (rows[t] >= 1 => rows'[t] = 2)
      BY <1>1, <1>2
    <3>2. said[t] = 1 => rows[t] >= 1
      BY <1>1 DEF First
    <3>3. \A q \in Requests \ {r} : Awaits(q, t)' => rows[t] >= 1
      BY <1>1, <1>5 DEF First
    <3>4. said[t] <= 1
      BY <1>1 DEF First
    <3> QED
      BY <1>1, <2>2, <3>1, <3>2, <3>3, <3>4
  <2> QED
    BY <2>1, <2>2

LEMMA CheckNewToolFirst ==
    ASSUME WatchTypeOK, Placed, First, NEW r \in Requests, CheckNewTool(r) PROVE First'
<1>1. PICK t \in Tools : /\ t = req[r].tool /\ Awaits(r, t)
                          /\ rows' = rows /\ rows \in [Tools -> 0..2] /\ said \in [Tools -> Nat]
  BY DEF CheckNewTool, At, Placed, Awaits, WatchTypeOK, log
<1>2. \A q \in Requests, u \in Tools : Awaits(q, u)' => Awaits(q, u) /\ q # r
  BY DoneTyped DEF CheckNewTool, Awaits
<1>3. said' = said \/ (~(rows[t] > 1) /\ said' = [said EXCEPT ![t] = @ + 1])
  BY <1>1 DEF CheckNewTool
<1>4. CASE said' = said
  BY <1>1, <1>2, <1>4, FirstKept
<1>5. CASE ~(rows[t] > 1) /\ said' = [said EXCEPT ![t] = @ + 1]
  <2>1. rows[t] # 2 /\ rows[t] >= 1
    BY <1>1, <1>5 DEF First
  <2>2. said[t] = 0
    BY <1>1, <2>1 DEF First
  <2>3. said'[t] = 1 /\ \A u \in Tools \ {t} : said'[u] = said[u]
    BY <1>1, <1>5, <2>2
  <2>4. \A q \in Requests : ~Awaits(q, t)'
    BY <1>1, <1>2, <2>1 DEF First
  <2> QED
    BY <1>1, <1>2, <2>1, <2>3, <2>4 DEF First
<1> QED
  BY <1>3, <1>4, <1>5

\* However a check comes about, it ends in Checked.
LEMMA ChecksSomehow ==
    ASSUME NEW r \in Requests, CheckAnonymous(r) \/ CheckKnown(r) \/ Seed(r)
    PROVE  \E n \in BOOLEAN : Checked(r, n)
<1>1. CASE CheckAnonymous(r)
  BY <1>1 DEF CheckAnonymous
<1>2. ASSUME NEW m, Compare(r, m) PROVE \E n \in BOOLEAN : Checked(r, n)
  BY <1>2 DEF Compare
<1> QED
  BY <1>1, <1>2 DEF CheckKnown, Seed

\* A step of a request changes no other one.
LEMMA OnlyOwn ==
    ASSUME WatchTypeOK, Placed, NEW r \in Requests, ComeIn(r) \/ CallTools(r)
    PROVE  \A q \in Requests \ {r} : req'[q] = req[q]
<1>1. CASE CheckAnonymous(r) \/ CheckKnown(r) \/ Seed(r)
  BY <1>1, ChecksSomehow, CheckedTyped
<1>2. ASSUME NEW k \in {"rest", "mcp"}, NEW c \in Clients \cup {NoClient}, Arrive(r, k, c)
      PROVE  \A q \in Requests \ {r} : req'[q] = req[q]
  BY <1>2 DEF Arrive, WatchTypeOK
<1>3. CASE BeginSeeding(r) \/ ReadStarts(r)
  BY <1>3 DEF BeginSeeding, ReadStarts, Goto, WatchTypeOK
<1>4. CASE LogStart(r) \/ Act(r) \/ Leave(r)
  BY <1>4 DEF LogStart, Act, Leave, Goto, End, WatchTypeOK
<1>5. ASSUME NEW t \in Tools, Call(r, t) PROVE \A q \in Requests \ {r} : req'[q] = req[q]
  BY <1>5 DEF Call, WatchTypeOK
<1>6. CASE LogCall(r) \/ CheckNewTool(r)
  <2>1. CallOver(r) \/ Goto(r, "recorded")
    BY <1>6 DEF LogCall, CheckNewTool
  <2> QED
    BY <2>1, DoneTyped DEF Goto, WatchTypeOK
<1> QED
  BY <1>1, <1>2, <1>3, <1>4, <1>5, <1>6 DEF ComeIn, CallTools

\* Every other step of a request leaves it where no call awaits its check, or moves nothing.
LEMMA ComeInQuiet ==
    ASSUME WatchTypeOK, Placed, NEW r \in Requests, ComeIn(r)
    PROVE  /\ UNCHANGED <<rows, said>>
           /\ \A q \in Requests, t \in Tools : Awaits(q, t)' => Awaits(q, t)
<1>1. /\ UNCHANGED <<rows, said>>
  BY DEF ComeIn, Arrive, CheckAnonymous, CheckKnown, BeginSeeding, ReadStarts, Seed, LogStart,
         Act, Leave, log, history
<1>2. req'[r].at # "recorded"
  <2>1. CASE CheckAnonymous(r) \/ CheckKnown(r) \/ Seed(r)
    BY <2>1, ChecksSomehow, CheckedTyped
  <2>2. ASSUME NEW k \in {"rest", "mcp"}, NEW c \in Clients \cup {NoClient}, Arrive(r, k, c)
        PROVE  req'[r].at # "recorded"
    <3>1. req'[r] = [req[r] EXCEPT !.at = "checking", !.kind = k, !.client = c]
      BY <2>2 DEF Arrive, WatchTypeOK
    <3>2. req[r] \in Request
      BY DEF WatchTypeOK
    <3> QED  BY <3>1, <3>2 DEF Request
  <2>3. CASE BeginSeeding(r) \/ ReadStarts(r)
    BY <2>3 DEF BeginSeeding, ReadStarts, Goto, WatchTypeOK, Request
  <2>4. CASE LogStart(r) \/ Act(r) \/ Leave(r)
    BY <2>4 DEF LogStart, Act, Leave, Goto, End, Idle, WatchTypeOK, Request
  <2> QED
    BY <2>1, <2>2, <2>3, <2>4 DEF ComeIn
<1> QED
  BY <1>1, <1>2, OnlyOwn DEF Awaits

\* A tool is reported as called for the first time at most once, for any number of calls at
\* the same time and any number of restarts (anomaly.py _check_new_tool).
THEOREM ReportedAsNewOnce == WatchSpec => []FirstTimeSaidOnce
<1>1. WatchInit => First
  BY DEF WatchInit, First, Awaits, Idle
<1>2. ASSUME WatchTypeOK, Placed, First, [WatchNext]_watchVars PROVE First'
  <2>1. ASSUME NEW r \in Requests, ComeIn(r) PROVE First'
    BY <1>2, <2>1, ComeInQuiet, FirstKept
  <2>2. ASSUME NEW r \in Requests, NEW t \in Tools, Call(r, t) PROVE First'
    <3>1. \A q \in Requests, u \in Tools : Awaits(q, u)' => Awaits(q, u)
      BY <1>2, <2>2 DEF Call, Awaits, WatchTypeOK, Request
    <3> QED
      BY <1>2, <2>2, <3>1, FirstKept DEF Call, log, history
  <2>3. CASE Reload \/ UNCHANGED watchVars
    BY <1>2, <2>3, FirstKept DEF Reload, watchVars, log, history, Awaits
  <2>4. CASE WatchRestart
    BY <1>2, <2>4, FirstKept DEF WatchRestart, log, Awaits, Idle
  <2> QED
    BY <1>2, <2>1, <2>2, <2>3, <2>4, LogCallFirst, CheckNewToolFirst DEF WatchNext, CallTools
<1>3. First => FirstTimeSaidOnce
  BY DEF First, FirstTimeSaidOnce
<1> QED
  BY <1>1, <1>2, <1>3, Typed, PTL DEF WatchSpec

-----------------------------------------------------------------------------
(* Clients *)

\* Before the first seeding of a process nobody has passed, and no client is about to be
\* recorded, so what a seeding has read covers what it would read now.  After it, and unless
\* it was overwritten, the memory covers the newest rows and everybody who has passed.
Watched ==
    /\ known = NotSeeded =>
           /\ quiet = {}
           /\ \A r \in Requests : /\ req[r].at = "starting" => req[r].client = NoClient
                                  /\ req[r].at = "seeded" => Recent \subseteq req[r].rows
    /\ known # NotSeeded /\ ~raced =>
           /\ quiet \subseteq known /\ Recent \subseteq known
           /\ \A r \in Requests : req[r].at = "starting" => req[r].client \in known \cup {NoClient}

\* A step that leaves memory and log alone, and takes no request to those two places.
LEMMA WatchedKept ==
    ASSUME Watched, UNCHANGED <<known, starts, quiet, raced>>,
           \A r \in Requests : req'[r].at \in {"starting", "seeded"} => req'[r] = req[r]
    PROVE  Watched'
  BY DEF Watched, Recent

LEMMA CheckAnonymousWatched ==
    ASSUME WatchTypeOK, Watched, NEW r \in Requests, CheckAnonymous(r) PROVE Watched'
<1>1. /\ UNCHANGED <<known, starts, quiet, raced>> /\ Checked(r, FALSE) /\ Client(r) = NoClient
  BY DEF CheckAnonymous, memory, log, history
<1>2. /\ req'[r].client = NoClient /\ req'[r].at # "seeded"
      /\ \A q \in Requests \ {r} : req'[q] = req[q]
  BY <1>1, CheckedTyped
<1> QED
  BY <1>1, <1>2 DEF Watched, Recent

LEMMA CheckKnownWatched ==
    ASSUME WatchTypeOK, Watched, NEW r \in Requests, CheckKnown(r) PROVE Watched'
<1>1. /\ known # NotSeeded /\ known \in SUBSET Clients /\ Client(r) # NoClient /\ Compare(r, known)
      /\ UNCHANGED <<starts, raced>>
  BY DEF CheckKnown, WatchTypeOK, log
<1>2. /\ known' = known \cup {Client(r)} /\ known' # NotSeeded /\ quiet' \subseteq quiet \cup {Client(r)}
      /\ req'[r].client = Client(r)
      /\ \A q \in Requests \ {r} : req'[q] = req[q]
  BY <1>1, CompareTyped
<1> QED
  BY <1>1, <1>2 DEF Watched, Recent

LEMMA SeedWatched ==
    ASSUME WatchTypeOK, Placed, Watched, NEW r \in Requests, Seed(r) PROVE Watched'
<1>1. /\ req[r].at = "seeded" /\ Client(r) # NoClient
      /\ req[r].rows \in SUBSET Clients /\ Compare(r, req[r].rows)
      /\ starts' = starts /\ (known # NotSeeded => raced')
  BY DEF Seed, At, Placed, Client, WatchTypeOK, Request, log
<1>2. /\ known' = req[r].rows \cup {Client(r)} /\ known' # NotSeeded
      /\ quiet' \subseteq quiet \cup {Client(r)}
      /\ req'[r].client = Client(r)
      /\ \A q \in Requests \ {r} : req'[q] = req[q]
  BY <1>1, CompareTyped
<1>3. CASE known # NotSeeded
  BY <1>1, <1>2, <1>3 DEF Watched
<1>4. CASE known = NotSeeded
  <2>1. Recent \subseteq req[r].rows /\ quiet = {} /\ Recent' = Recent
    BY <1>1, <1>4 DEF Watched, Recent
  <2> QED
    BY <1>1, <1>2, <1>4, <2>1 DEF Watched
<1> QED
  BY <1>3, <1>4

LEMMA LogStartWatched ==
    ASSUME WatchTypeOK, Watched, NEW r \in Requests, LogStart(r) PROVE Watched'
<1>1. /\ UNCHANGED <<known, quiet, raced>> /\ req[r].at = "starting"
      /\ starts' = Append(starts, Client(r))
  BY DEF LogStart, At, memory, history
<1>2. /\ req'[r].at \notin {"starting", "seeded"}
      /\ \A q \in Requests \ {r} : req'[q] = req[q]
  BY DEF LogStart, Goto, WatchTypeOK, Request
<1>3. Recent' \subseteq Recent \cup ({Client(r)} \ {NoClient})
  <2>1. starts \in Seq(Clients \cup {NoClient}) /\ Client(r) \in Clients \cup {NoClient}
    BY DEF WatchTypeOK, Request, Client
  <2> QED
    BY <1>1, <2>1, RecentAfterStart
<1>4. CASE known = NotSeeded
  <2>1. Client(r) = NoClient
    BY <1>1, <1>4 DEF Watched, Client
  <2>2. Recent' \subseteq Recent
    BY <1>3, <2>1
  <2> QED
    BY <1>1, <1>2, <1>4, <2>2 DEF Watched
<1>5. CASE known # NotSeeded
  <2>1. ~raced => Client(r) \in known \cup {NoClient} /\ Recent \subseteq known
    BY <1>1, <1>5 DEF Watched, Client
  <2>2. ~raced => Recent' \subseteq known
    BY <1>3, <2>1
  <2> QED
    BY <1>1, <1>2, <1>5, <2>2 DEF Watched
<1> QED
  BY <1>4, <1>5

LEMMA ReadStartsWatched ==
    ASSUME WatchTypeOK, Watched, NEW r \in Requests, ReadStarts(r) PROVE Watched'
<1>1. UNCHANGED <<known, starts, quiet, raced>>
  BY DEF ReadStarts, memory, log, history
<1>2. /\ req'[r].at = "seeded" /\ req'[r].rows = Recent
      /\ \A q \in Requests \ {r} : req'[q] = req[q]
  BY DEF ReadStarts, WatchTypeOK, Request
<1>3. Recent' = Recent
  BY <1>1 DEF Recent
<1> QED
  BY <1>1, <1>2, <1>3 DEF Watched

LEMMA NextWatched == ASSUME WatchTypeOK, Placed, Watched, [WatchNext]_watchVars PROVE Watched'
<1>1. ASSUME NEW r \in Requests, CallTools(r) PROVE Watched'
  <2>1. UNCHANGED <<known, starts, quiet, raced>>
    BY <1>1 DEF CallTools, LogCall, CheckNewTool, Call, memory, log, history
  <2>2. req'[r].at \notin {"starting", "seeded"} /\ \A q \in Requests \ {r} : req'[q] = req[q]
    <3>1. CASE CallOver(r)
      BY <3>1, DoneTyped
    <3>2. CASE Goto(r, "recorded")
      BY <3>2 DEF Goto, WatchTypeOK, Request
    <3>3. ASSUME NEW t \in Tools, Call(r, t)
          PROVE  req'[r].at \notin {"starting", "seeded"} /\ \A q \in Requests \ {r} : req'[q] = req[q]
      BY <3>3 DEF Call, WatchTypeOK, Request
    <3> QED
      BY <1>1, <3>1, <3>2, <3>3 DEF CallTools, LogCall, CheckNewTool
  <2> QED
    BY <2>1, <2>2, WatchedKept
<1>2. ASSUME NEW r \in Requests, ComeIn(r) PROVE Watched'
  <2>1. ASSUME NEW k \in {"rest", "mcp"}, NEW c \in Clients \cup {NoClient}, Arrive(r, k, c)
        PROVE  Watched'
    <3>1. req'[r].at = "checking" /\ \A q \in Requests \ {r} : req'[q] = req[q]
      BY <2>1 DEF Arrive, WatchTypeOK, Request
    <3> QED
      BY <2>1, <3>1, WatchedKept DEF Arrive, memory, log, history
  <2>2. CASE BeginSeeding(r)
    <3>1. req'[r].at = "seeding" /\ \A q \in Requests \ {r} : req'[q] = req[q]
      BY <2>2 DEF BeginSeeding, Goto, WatchTypeOK, Request
    <3> QED
      BY <2>2, <3>1, WatchedKept DEF BeginSeeding, memory, log, history
  <2>3. CASE Act(r) \/ Leave(r)
    <3>1. req'[r].at \in {"idle", "served"} /\ \A q \in Requests \ {r} : req'[q] = req[q]
      BY <2>3 DEF Act, Leave, Goto, End, Idle, WatchTypeOK, Request
    <3> QED
      BY <2>3, <3>1, WatchedKept DEF Act, Leave, memory, log, history
  <2> QED
    BY <1>2, <2>1, <2>2, <2>3, CheckAnonymousWatched, CheckKnownWatched, SeedWatched,
       LogStartWatched, ReadStartsWatched DEF ComeIn
<1>3. CASE Reload \/ UNCHANGED watchVars
  BY <1>3, WatchedKept DEF Reload, watchVars, memory, log, history
<1>4. CASE WatchRestart
  BY <1>4 DEF WatchRestart, Watched, Idle
<1> QED
  BY <1>1, <1>2, <1>3, <1>4 DEF WatchNext

\* Only a comparison lets a client with a name pass quietly.
LEMMA PassIsComparison ==
    ASSUME WatchTypeOK, Placed, [WatchNext]_watchVars, NEW r \in Requests, PassesQuietly(r)
    PROVE  CheckKnown(r) \/ Seed(r)
<1>1. /\ req'[r].at \in {"starting", "served"} /\ req[r].at \in {"checking", "seeded"}
      /\ Client(r) # NoClient
  BY DEF PassesQuietly
<1>2. req'[r] # req[r]
  BY <1>1
<1>3. ComeIn(r) \/ CallTools(r)
  <2>1. ~Reload /\ ~UNCHANGED watchVars
    BY <1>2 DEF Reload, watchVars
  <2>2. ~WatchRestart
    BY <1>1 DEF WatchRestart, Idle
  <2> QED
    BY <1>2, <2>1, <2>2, OnlyOwn DEF WatchNext
<1>4. ~CallTools(r)
  BY <1>1 DEF CallTools, LogCall, CheckNewTool, Call, At
<1>5. ~BeginSeeding(r) /\ ~Leave(r)
  BY <1>1 DEF BeginSeeding, Leave, Goto, End, Idle, WatchTypeOK, Request
<1> QED
  BY <1>1, <1>3, <1>4, <1>5 DEF ComeIn, Arrive, CheckAnonymous, ReadStarts, LogStart, Act, At

\* A client passes unnoticed only if the newest rows of the log, as many as the seeding query
\* returns, name no other one and none has passed before it, for any number of clients and
\* requests and any such limit (anomaly.py check_fingerprint) - as long as no two first
\* requests of a process seed its memory over each other.
THEOREM QuietClientsAreAlone == WatchSpec => QuietOnlyAlone
<1>1. WatchInit => Watched
  BY DEF WatchInit, Watched, Idle
<1>2. ASSUME WatchTypeOK, Placed, Watched, [WatchNext]_watchVars, NEW r \in Requests, PassesQuietly(r), ~raced'
      PROVE  quiet \cup Recent \subseteq {Client(r)}
  <2>1. CASE CheckKnown(r)
    <3>1. /\ known # NotSeeded /\ known \in SUBSET Clients /\ Client(r) # NoClient
          /\ Compare(r, known) /\ raced' = raced
      <4>1. known # NotSeeded /\ Client(r) # NoClient /\ Compare(r, known) /\ raced' = raced
        BY <2>1 DEF CheckKnown
      <4>2. known \in (SUBSET Clients) \cup {NotSeeded}
        BY <1>2 DEF WatchTypeOK
      <4> QED
        BY <4>1, <4>2
    <3>2. known \ {Client(r)} = {}
      BY <1>2, <3>1, CompareTyped DEF PassesQuietly
    <3>3. quiet \subseteq known /\ Recent \subseteq known
      BY <1>2, <3>1 DEF Watched
    <3> QED
      BY <3>2, <3>3
  <2>2. CASE Seed(r)
    <3>1. /\ known = NotSeeded /\ req[r].at = "seeded" /\ Client(r) # NoClient
          /\ req[r].rows \in SUBSET Clients /\ Compare(r, req[r].rows)
      BY <1>2, <2>2 DEF Seed, At, Placed, Client, WatchTypeOK, Request
    <3>2. req[r].rows \ {Client(r)} = {}
      BY <1>2, <3>1, CompareTyped DEF PassesQuietly
    <3>3. quiet = {} /\ Recent \subseteq req[r].rows
      BY <1>2, <3>1 DEF Watched
    <3> QED
      BY <3>2, <3>3
  <2> QED
    BY <1>2, <2>1, <2>2, PassIsComparison
<1>3. WatchTypeOK /\ Placed /\ Watched /\ [WatchNext]_watchVars =>
          \A r \in Requests : PassesQuietly(r) /\ ~raced' => quiet \cup Recent \subseteq {Client(r)}
  BY <1>2
<1> QED
  BY <1>1, <1>3, NextWatched, Typed, PTL DEF WatchSpec, QuietOnlyAlone
=============================================================================
