------------------------- MODULE ToolCatalogProofs -------------------------
(***************************************************************************)
(* Theorems about ToolCatalog, for any servers, names, rules and reloads.  *)
(***************************************************************************)
EXTENDS ToolCatalog, SequenceTheorems, WellFoundedInduction, TLAPS

\* Once a listing has begun, the live configuration is among those seen since.
ConfigSeen == stage # "idle" => config \in since

\* A log_only snapshot came from a configuration seen since.
LogOnlySeen == stage = "asking" /\ agentCfg.logOnly => \E k \in since : k.logOnly

\* Nothing is shown between listings; only servers' tools while asking.
ToolsOfStage == /\ stage = "idle" => tools = {}
                /\ stage = "asking" => \A e \in tools : e.scope \in Servers

\* The invariant behind ListedWasPermitted and OneServerPerName.
IInv == /\ TypeOK
        /\ ConfigSeen
        /\ LogOnlySeen
        /\ ToolsOfStage
        /\ ListedWasPermitted
        /\ OneServerPerName

-----------------------------------------------------------------------------
(* Operators *)

\* A non-empty set of naturals has a least element, which is what Min picks.
LEMMA MinIsLeast ==
  ASSUME NEW S \in SUBSET Nat, S # {}
  PROVE  Min(S) \in S /\ \A y \in S : Min(S) <= y
  <1> DEFINE R == {ss \in Nat \X Nat : ss[1] < ss[2]}
  <1>1. IsWellFoundedOn(R, Nat)
    BY NatLessThanWellFounded DEF OpToRel
  <1>2. \A x, y \in Nat : <<y, x>> \in R <=> y < x
    OBVIOUS
  <1> HIDE DEF R
  <1>3. PICK x \in S : \A y \in S : ~(<<y, x>> \in R)
    BY <1>1, WFMin
  <1>4. ASSUME NEW y \in S PROVE x <= y
    <2>1. x \in Nat /\ y \in Nat
      OBVIOUS
    <2>2. ~(y < x)
      BY <1>2, <1>3, <2>1
    <2> QED
      BY <2>1, <2>2
  <1> QED
    BY <1>4 DEF Min

\* Advance asks the next server that exists, or completes the list.
LEMMA AdvanceEffect ==
  ASSUME config \in Configs, NEW j \in Nat \ {0}, NEW mine \in Seq(Servers), NEW got,
         Advance(j, mine, got)
  PROVE  /\ at' \in Nat
         /\ prefix' \in Seq(Words)
         /\ \/ /\ stage' = "asking"
               /\ at' \in DOMAIN mine /\ j <= at'
               /\ mine[at'] \in config.servers
               /\ prefix' = config.prefix[mine[at']]
               /\ \A i \in j..(at' - 1) : mine[i] \notin config.servers
               /\ tools' = got
            \/ /\ stage' = "listed"
               /\ \A i \in j..Len(mine) : mine[i] \notin config.servers
               /\ tools' = got \cup VirtualTools(config)
  <1> DEFINE rest == {i \in j..Len(mine) : mine[i] \in config.servers}
  <1>1. rest \in SUBSET Nat /\ rest \subseteq DOMAIN mine
    OBVIOUS
  <1>2. config.prefix \in [Servers -> Seq(Words)]
    BY CatalogAssumption DEF Config
  <1>3. CASE rest # {}
    <2>1. Min(rest) \in rest /\ \A y \in rest : Min(rest) <= y
      BY <1>1, <1>3, MinIsLeast
    <2>2. /\ stage' = "asking" /\ at' = Min(rest) /\ tools' = got
          /\ prefix' = config.prefix[mine[Min(rest)]]
      BY <1>3 DEF Advance
    <2>3. mine[at'] \in Servers
      BY <2>1, <2>2
    <2>4. \A i \in j..(at' - 1) : mine[i] \notin config.servers
      BY <2>1, <2>2
    <2> QED
      BY <2>1, <2>2, <2>3, <2>4, <1>2
  <1>4. CASE rest = {}
    <2>1. stage' = "listed" /\ at' = 0 /\ prefix' = <<>> /\ tools' = got \cup VirtualTools(config)
      BY <1>4 DEF Advance
    <2>2. \A i \in j..Len(mine) : mine[i] \notin config.servers
      BY <1>4
    <2> QED
      BY <2>1, <2>2
  <1> QED
    BY <1>3, <1>4

\* Every virtual tool shown is an entry of its own registry, permitted by its rules.
LEMMA VirtualEntries ==
  ASSUME NEW k \in Configs, NEW e \in VirtualTools(k)
  PROVE  /\ e \in Entry
         /\ e.scope \in Kinds /\ e.scope \notin Servers
         /\ e = [name |-> e.tool, scope |-> e.scope, tool |-> e.tool]
         /\ e.tool \in Registered(k)[e.scope]
         /\ Permits(k, e.scope, e.tool)
  <1>1. PICK kind \in Kinds \ {"gateway"} : \E n \in Registered(k)[kind] :
           /\ Permits(k, kind, n)
           /\ e = [name |-> n, scope |-> kind, tool |-> n]
    BY DEF VirtualTools
  <1>2. \A K \in Kinds : Registered(k)[K] \subseteq Names
    BY CatalogAssumption DEF Registered, Config, Kinds, Precedence
  <1> QED
    BY <1>1, <1>2, CatalogAssumption DEF Entry, Scopes
-----------------------------------------------------------------------------
(* The invariant *)

\* Whatever a listing has gathered, going on to the next server or completing the list
\* with the virtual tools keeps the invariant.
LEMMA AdvancePreserves ==
  ASSUME config \in Configs, config' = config,
         NEW j \in Nat \ {0}, NEW mine \in Seq(Servers), NEW got \in SUBSET Entry,
         agentCfg' \in [mine : Seq(Servers), logOnly : BOOLEAN], agentCfg'.mine = mine,
         since' \subseteq Configs, config \in since', failed' \in BOOLEAN,
         agentCfg'.logOnly => \E k \in since' : k.logOnly,
         \A e \in got : /\ e.scope \in Servers
                        /\ \E k \in since' : Permits(k, e.scope, e.tool) \/ k.logOnly,
         \A e, f \in got : e.name = f.name => e = f,
         Advance(j, mine, got)
  PROVE  IInv'
  <1>1. /\ at' \in Nat /\ prefix' \in Seq(Words)
        /\ \/ stage' = "asking" /\ at' \in DOMAIN mine /\ tools' = got
           \/ stage' = "listed" /\ tools' = got \cup VirtualTools(config)
    BY AdvanceEffect
  <1>2. \A e \in tools' \ got : /\ e \in Entry /\ e.scope \notin Servers
                                /\ Permits(config, e.scope, e.tool)
    BY <1>1, VirtualEntries
  <1>3. TypeOK'
    BY <1>1, <1>2 DEF TypeOK
  <1>4. ConfigSeen' /\ LogOnlySeen'
    BY DEF ConfigSeen, LogOnlySeen
  <1>5. ToolsOfStage'
    BY <1>1 DEF ToolsOfStage
  <1>6. ListedWasPermitted'
    BY <1>2 DEF ListedWasPermitted, Permits, EffectiveRules
  <1>7. OneServerPerName'
    BY <1>2 DEF OneServerPerName
  <1> QED
    BY <1>3, <1>4, <1>5, <1>6, <1>7 DEF IInv

\* What the answer of a server adds to the list.
NewEntries == Fresh({[name |-> prefix \o n, scope |-> agentCfg.mine[at], tool |-> n] :
                        n \in Offered(agentCfg.mine[at])})

\* Each of them is a permitted tool of that server, under a name not shown before.
LEMMA NewEntriesFacts ==
  ASSUME TypeOK, stage = "asking", NEW e \in NewEntries
  PROVE  /\ agentCfg.mine[at] \in Servers
         /\ e \in Entry
         /\ e.scope = agentCfg.mine[at]
         /\ e.tool \in Offers[e.scope]
         /\ e.name = prefix \o e.tool
         /\ agentCfg.logOnly \/ Permits(config, e.scope, e.tool)
         /\ e = [name |-> e.name, scope |-> e.scope, tool |-> e.tool]
         /\ \A o \in tools : o.name # e.name
  <1>1. agentCfg.mine[at] \in Servers
    BY DEF TypeOK
  <1>2. PICK n \in Offers[agentCfg.mine[at]] :
           /\ e = [name |-> prefix \o n, scope |-> agentCfg.mine[at], tool |-> n]
           /\ agentCfg.logOnly \/ Permits(config, agentCfg.mine[at], n)
    BY DEF NewEntries, Fresh, Offered
  <1>3. n \in Names
    BY <1>1, CatalogAssumption
  <1>4. prefix \o n \in Seq(Words) /\ Len(prefix \o n) = Len(prefix) + Len(n)
    BY <1>3, ConcatProperties DEF TypeOK, Names
  <1>5. Len(n) # 0 /\ Len(n) \in Nat /\ Len(prefix) \in Nat
    BY <1>3, EmptySeq, LenProperties DEF TypeOK, Names
  <1>6. prefix \o n \in Names
    BY <1>4, <1>5 DEF Names
  <1> QED
    BY <1>1, <1>2, <1>3, <1>6 DEF Entry, Scopes, NewEntries, Fresh

\* The answer of a server keeps the invariant: names cannot clash within one server,
\* since they all carry one prefix, and Fresh drops those that clash with others'.
LEMMA FetchedPreserves ==
  ASSUME IInv, Fetched
  PROVE  IInv'
  <1> DEFINE got == tools \cup NewEntries
  <1>1. /\ Advance(at + 1, agentCfg.mine, got)
        /\ stage = "asking"
        /\ UNCHANGED <<config, agentCfg, since, failed>>
    BY DEF Fetched, NewEntries
  <1>2. /\ config \in Configs /\ at + 1 \in Nat \ {0} /\ agentCfg.mine \in Seq(Servers)
        /\ agentCfg \in [mine : Seq(Servers), logOnly : BOOLEAN]
        /\ since \subseteq Configs /\ config \in since /\ failed \in BOOLEAN
        /\ agentCfg.logOnly => \E k \in since : k.logOnly
    BY <1>1 DEF IInv, TypeOK, ConfigSeen, LogOnlySeen
  <1>3. got \in SUBSET Entry
    BY <1>1, NewEntriesFacts DEF IInv, TypeOK
  <1>4. \A e \in got : /\ e.scope \in Servers
                       /\ \E k \in since : Permits(k, e.scope, e.tool) \/ k.logOnly
    BY <1>1, <1>2, NewEntriesFacts DEF IInv, ToolsOfStage, ListedWasPermitted
  <1>5. \A e, f \in got : e.name = f.name => e = f
    <2> SUFFICES ASSUME NEW e \in got, NEW f \in got, e.name = f.name
                 PROVE  e = f
      OBVIOUS
    <2>1. CASE e \in tools /\ f \in tools
      BY <1>1, <2>1 DEF IInv, ToolsOfStage, OneServerPerName
    <2>2. CASE e \in NewEntries /\ f \in NewEntries
      <3>1. /\ e.scope = f.scope
            /\ prefix \o e.tool = prefix \o f.tool
            /\ e.tool \in Seq(Words) /\ f.tool \in Seq(Words)
        BY <1>1, <2>2, NewEntriesFacts DEF IInv, Entry, Names
      <3>2. e.tool = f.tool
        BY <3>1, ConcatSimplifications DEF IInv, TypeOK
      <3> QED
        BY <1>1, <2>2, <3>1, <3>2, NewEntriesFacts DEF IInv
    <2> QED
      BY <1>1, <2>1, <2>2, NewEntriesFacts DEF IInv
  <1> HIDE DEF got
  <1> QED
    BY <1>1, <1>2, <1>3, <1>4, <1>5, AdvancePreserves

\* The invariant is preserved by every step.
LEMMA NextIInv == IInv /\ [Next]_vars => IInv'
  <1> SUFFICES ASSUME IInv, [Next]_vars PROVE IInv'
    OBVIOUS
  <1>1. CASE StartListing
    <2>1. CASE config.agent /\ Advance(1, config.mine, {})
      <3>1. /\ config \in Configs /\ config.mine \in Seq(Servers) /\ config.logOnly \in BOOLEAN
        BY CatalogAssumption DEF IInv, TypeOK, Config
      <3>2. /\ UNCHANGED config /\ since' = {config} /\ failed' = FALSE
            /\ agentCfg' = [mine |-> config.mine, logOnly |-> config.logOnly]
        BY <1>1 DEF StartListing
      <3>3. /\ agentCfg' \in [mine : Seq(Servers), logOnly : BOOLEAN]
            /\ agentCfg'.mine = config.mine /\ agentCfg'.logOnly = config.logOnly
            /\ since' \subseteq Configs /\ config \in since' /\ failed' \in BOOLEAN
            /\ agentCfg'.logOnly => \E k \in since' : k.logOnly
        BY <3>1, <3>2
      <3>4. 1 \in Nat \ {0} /\ {} \in SUBSET Entry
        OBVIOUS
      <3> HIDE DEF IInv
      <3> QED
        BY <2>1, <3>1, <3>2, <3>3, <3>4, AdvancePreserves
    <2>2. CASE ~config.agent /\ stage' = "listed" /\ at' = 0 /\ prefix' = <<>> /\ tools' = {}
      <3>1. /\ UNCHANGED config /\ since' = {config} /\ failed' = FALSE
            /\ agentCfg' = [mine |-> config.mine, logOnly |-> config.logOnly]
        BY <1>1 DEF StartListing
      <3>2. /\ config \in Configs /\ config.mine \in Seq(Servers) /\ config.logOnly \in BOOLEAN
        BY CatalogAssumption DEF IInv, TypeOK, Config
      <3>3. TypeOK'
        <4>1. /\ config' \in Configs /\ since' \subseteq Configs /\ failed' \in BOOLEAN
              /\ agentCfg' \in [mine : Seq(Servers), logOnly : BOOLEAN]
          BY <3>1, <3>2
        <4>2. /\ stage' = "listed" /\ at' \in Nat /\ prefix' \in Seq(Words)
              /\ tools' \subseteq Entry
          BY <2>2
        <4> QED
          BY <4>1, <4>2 DEF TypeOK
      <3>4. ConfigSeen' /\ LogOnlySeen' /\ ToolsOfStage' /\ ListedWasPermitted' /\ OneServerPerName'
        BY <2>2, <3>1 DEF ConfigSeen, LogOnlySeen, ToolsOfStage, ListedWasPermitted,
                          OneServerPerName
      <3> QED
        BY <3>3, <3>4 DEF IInv
    <2> QED
      BY <1>1, <2>1, <2>2 DEF StartListing
  <1>2. CASE Fetched
    BY <1>2, FetchedPreserves
  <1>3. CASE FetchFailed
    <2>1. /\ Advance(at + 1, agentCfg.mine, tools) /\ stage = "asking"
          /\ UNCHANGED <<config, agentCfg, since>> /\ failed' = TRUE
      BY <1>3 DEF FetchFailed
    <2>2. /\ config \in Configs /\ at + 1 \in Nat \ {0} /\ agentCfg.mine \in Seq(Servers)
          /\ agentCfg \in [mine : Seq(Servers), logOnly : BOOLEAN]
          /\ since \subseteq Configs /\ config \in since /\ tools \in SUBSET Entry
          /\ agentCfg.logOnly => \E k \in since : k.logOnly
      BY <2>1 DEF IInv, TypeOK, ConfigSeen, LogOnlySeen
    <2>3. /\ \A e \in tools : /\ e.scope \in Servers
                              /\ \E k \in since : Permits(k, e.scope, e.tool) \/ k.logOnly
          /\ \A e, f \in tools : e.name = f.name => e = f
      BY <2>1 DEF IInv, ToolsOfStage, ListedWasPermitted, OneServerPerName
    <2> QED
      BY <2>1, <2>2, <2>3, AdvancePreserves
  <1>4. CASE TokenFailed
    BY <1>4 DEF TokenFailed, IInv, TypeOK, ConfigSeen, LogOnlySeen, ToolsOfStage,
                ListedWasPermitted, OneServerPerName
  <1>5. CASE HotReload
    BY <1>5 DEF HotReload, IInv, TypeOK, ConfigSeen, LogOnlySeen, ToolsOfStage,
                ListedWasPermitted, OneServerPerName
  <1>6. CASE UNCHANGED vars
    BY <1>6 DEF vars, IInv, TypeOK, ConfigSeen, LogOnlySeen, ToolsOfStage,
                ListedWasPermitted, OneServerPerName, Permits, EffectiveRules
  <1> QED
    BY <1>1, <1>2, <1>3, <1>4, <1>5, <1>6 DEF Next, Answered

\* The invariant holds before any listing.
LEMMA InitIInv == Init => IInv
  <1> SUFFICES ASSUME Init PROVE IInv
    OBVIOUS
  <1>1. <<>> \in Seq(Servers) /\ <<>> \in Seq(Words)
    OBVIOUS
  <1>2. TypeOK
    BY <1>1 DEF Init, TypeOK
  <1>3. ConfigSeen /\ LogOnlySeen /\ ToolsOfStage /\ ListedWasPermitted /\ OneServerPerName
    BY DEF Init, ConfigSeen, LogOnlySeen, ToolsOfStage, ListedWasPermitted, OneServerPerName
  <1> QED
    BY <1>2, <1>3 DEF IInv

\* The invariant holds of every behaviour.
THEOREM Inductive == Spec => []IInv
  BY InitIInv, NextIInv, PTL DEF Spec

\* Type correctness of a listing.
THEOREM TypeCorrect == Spec => []TypeOK
  BY Inductive, PTL DEF IInv

\* For any rules and any reloads, no listing shows a tool that no configuration in force
\* since it began permits.
THEOREM NothingInvented == Spec => []ListedWasPermitted
  BY Inductive, PTL DEF IInv

\* For any prefixes, no two downstream tools are shown under one name.
THEOREM NoSharedNames == Spec => []OneServerPerName
  BY Inductive, PTL DEF IInv

-----------------------------------------------------------------------------
(* Resolution *)

\* IsPrefix compares part by part.
LEMMA PrefixByParts ==
  ASSUME NEW s \in Seq(Words), NEW t \in Seq(Words)
  PROVE  IsPrefix(s, t) <=> Len(s) <= Len(t) /\ \A i \in 1..Len(s) : s[i] = t[i]
  <1>1. CASE Len(s) <= Len(t)
    <2> DEFINE u == SubSeq(t, 1, Len(s))
               v == SubSeq(s, 1, Len(s))
    <2>1. /\ v \in Seq(Words) /\ Len(v) = Len(s) /\ \A i \in 1..Len(s) : v[i] = s[i]
          /\ u \in Seq(Words) /\ Len(u) = Len(s) /\ \A i \in 1..Len(s) : u[i] = t[i]
      BY <1>1, SubSeqProperties
    <2>2. v = u <=> \A i \in 1..Len(s) : s[i] = t[i]
      BY <2>1, SeqEqual
    <2> QED
      BY <1>1, <2>2 DEF IsPrefix
  <1>2. CASE ~(Len(s) <= Len(t))
    BY <1>2 DEF IsPrefix
  <1> QED
    BY <1>1, <1>2

\* Two prefixes of one name are comparable, and a qualified name strips to its tool.
LEMMA PrefixOfConcat ==
  ASSUME NEW p \in Seq(Words), NEW n \in Names
  PROVE  /\ IsStrictPrefix(p, p \o n)
         /\ \A a \in Seq(Words) : IsPrefix(a, p \o n) => IsPrefix(a, p) \/ IsPrefix(p, a)
         /\ SubSeq(p \o n, Len(p) + 1, Len(p \o n)) = n
  <1>1. n \in Seq(Words) /\ n # <<>>
    BY DEF Names
  <1>2. /\ p \o n \in Seq(Words) /\ Len(p \o n) = Len(p) + Len(n)
        /\ \A i \in 1..(Len(p) + Len(n)) : (p \o n)[i] = IF i <= Len(p) THEN p[i] ELSE n[i - Len(p)]
    BY <1>1, ConcatProperties
  <1>3. Len(p) \in Nat /\ Len(n) \in Nat /\ Len(n) # 0
    BY <1>1, LenProperties, EmptySeq
  <1>4. IsPrefix(p, p \o n)
    <2>1. Len(p) <= Len(p \o n) /\ \A i \in 1..Len(p) : p[i] = (p \o n)[i]
      BY <1>2, <1>3
    <2> QED
      BY <1>2, <2>1, PrefixByParts
  <1>5. p # p \o n
    BY <1>2, <1>3
  <1>6. ASSUME NEW a \in Seq(Words), IsPrefix(a, p \o n)
        PROVE  IsPrefix(a, p) \/ IsPrefix(p, a)
    <2>1. Len(a) <= Len(p \o n) /\ \A i \in 1..Len(a) : a[i] = (p \o n)[i]
      BY <1>2, <1>6, PrefixByParts
    <2>2. Len(a) \in Nat
      BY LenProperties
    <2>3. CASE Len(a) <= Len(p)
      BY <1>2, <1>3, <2>1, <2>2, <2>3, PrefixByParts
    <2>4. CASE ~(Len(a) <= Len(p))
      BY <1>2, <1>3, <2>1, <2>2, <2>4, PrefixByParts
    <2> QED
      BY <2>3, <2>4
  <1>7. SubSeq(p \o n, Len(p) + 1, Len(p \o n)) = n
    <2> DEFINE c == p \o n
               u == SubSeq(c, Len(p) + 1, Len(c))
    <2>1. \A i \in (Len(p) + 1)..Len(c) : c[i] \in Words
      BY <1>2, <1>3
    <2>2. /\ u \in Seq(Words)
          /\ Len(u) = Len(n)
          /\ \A i \in 1..Len(n) : u[i] = c[Len(p) + 1 + i - 1]
      <3>1. Len(p) + 1 \in Int /\ Len(c) \in Int /\ Len(c) - (Len(p) + 1) + 1 = Len(n)
        BY <1>2, <1>3
      <3> HIDE DEF c
      <3> QED
        BY <1>3, <2>1, <3>1, SubSeqProperties
    <2>3. \A i \in 1..Len(n) : u[i] = n[i]
      <3> SUFFICES ASSUME NEW i \in 1..Len(n) PROVE u[i] = n[i]
        OBVIOUS
      <3>1. Len(p) + 1 + i - 1 = Len(p) + i /\ Len(p) + i \in 1..(Len(p) + Len(n))
            /\ ~(Len(p) + i <= Len(p)) /\ Len(p) + i - Len(p) = i
        BY <1>3
      <3> QED
        BY <1>2, <2>2, <3>1
    <2>4. \A v \in Seq(Words) : Len(v) = Len(n) /\ (\A i \in 1..Len(v) : v[i] = n[i]) => v = n
      BY <1>1, SeqEqual
    <2>5. \A i \in 1..Len(u) : u[i] = n[i]
      BY <2>2, <2>3
    <2>6. u \in Seq(Words) /\ Len(u) = Len(n)
      BY <2>2
    <2> HIDE DEF u
    <2>7. u = n
      BY <2>4, <2>5, <2>6
    <2> QED
      BY <2>7 DEF u
  <1> QED
    BY <1>4, <1>5, <1>6, <1>7 DEF IsStrictPrefix

\* Where no names can be confused, a server's tool is reached by its qualified name.
LEMMA QualifiedReachesServer ==
  ASSUME NEW k \in Configs, Unambiguous(k), NEW i \in Available(k), NEW n \in Names
  PROVE  ResolveTarget(k, k.prefix[k.mine[i]] \o n) = [scope |-> k.mine[i], tool |-> n]
  <1> DEFINE p == k.prefix[k.mine[i]]
             q == p \o n
  <1>1. /\ k.mine \in Seq(Servers) /\ k.prefix \in [Servers -> Seq(Words)]
        /\ \A j \in Available(k) : k.mine[j] \in Servers
    BY CatalogAssumption DEF Config, Available
  <1>2. /\ p \in Seq(Words) /\ IsStrictPrefix(p, q) /\ IsPrefix(p, q)
        /\ SubSeq(q, Len(p) + 1, Len(q)) = n
        /\ \A a \in Seq(Words) : IsPrefix(a, q) => IsPrefix(a, p) \/ IsPrefix(p, a)
    BY <1>1, PrefixOfConcat DEF IsStrictPrefix
  <1>3. \A j \in ByPrefix(k, q) : j \in Available(k) /\ k.mine[j] = k.mine[i]
    BY <1>1, <1>2 DEF ByPrefix, IsStrictPrefix, Unambiguous
  <1>4. i \in ByPrefix(k, q) /\ ByPrefix(k, q) \in SUBSET Nat
    BY <1>1, <1>2 DEF ByPrefix, Available
  <1>5. k.mine[Min(ByPrefix(k, q))] = k.mine[i]
    BY <1>3, <1>4, MinIsLeast
  <1>6. {l \in 1..5 : q \in Registered(k)[Precedence[l]]} = {}
    BY <1>2 DEF Unambiguous, Kinds
  <1> HIDE DEF q
  <1>7. ServerForTool(k, q) = [scope |-> k.mine[i], tool |-> n]
    BY <1>2, <1>4, <1>5 DEF ServerForTool
  <1> QED
    BY <1>6, <1>7 DEF ResolveTarget, q

\* ... and a virtual tool by its own.
LEMMA VirtualReachesItself ==
  ASSUME NEW k \in Configs, Unambiguous(k), NEW K \in Kinds, NEW n \in Registered(k)[K]
  PROVE  ResolveTarget(k, n) = [scope |-> K, tool |-> n]
  <1> DEFINE hits == {l \in 1..5 : n \in Registered(k)[Precedence[l]]}
  <1>1. \A l \in hits : Precedence[l] = K
    BY DEF Unambiguous, Kinds
  <1>2. hits # {} /\ hits \in SUBSET Nat
    BY DEF Kinds
  <1>3. Min(hits) \in hits
    BY <1>2, MinIsLeast
  <1> QED
    BY <1>1, <1>2, <1>3 DEF ResolveTarget

-----------------------------------------------------------------------------
(* What is shown is what is reached *)

\* An entry that configuration k, alone, would have made for one of the agent's servers.
FromServer(k, e) ==
    \E i \in Available(k) : /\ e.scope = k.mine[i]
                            /\ e.name = k.prefix[k.mine[i]] \o e.tool
                            /\ e.tool \in Names
                            /\ k.logOnly \/ Permits(k, e.scope, e.tool)

\* While no reload has come, the listing is that of the live configuration.
Aligned ==
    stage # "idle" /\ since = {config} =>
        /\ stage = "asking" \/ tools # {} => config.agent
        /\ stage = "asking" =>
               /\ agentCfg = [mine |-> config.mine, logOnly |-> config.logOnly]
               /\ at \in Available(config)
               /\ prefix = config.prefix[config.mine[at]]
        /\ \A e \in tools : e \in VirtualTools(config) \/ FromServer(config, e)

\* Going on to the next server keeps the listing in line with the live configuration.
LEMMA AdvanceAligns ==
  ASSUME config \in Configs, UNCHANGED config, config.agent, NEW j \in Nat \ {0}, NEW got,
         agentCfg' = [mine |-> config.mine, logOnly |-> config.logOnly],
         \A e \in got : FromServer(config, e),
         Advance(j, config.mine, got)
  PROVE  Aligned'
  <1>1. config.mine \in Seq(Servers)
    BY CatalogAssumption DEF Config
  <1>2. \/ /\ stage' = "asking" /\ at' \in Available(config) /\ tools' = got
           /\ prefix' = config.prefix[config.mine[at']]
        \/ stage' = "listed" /\ tools' = got \cup VirtualTools(config)
    BY <1>1, AdvanceEffect DEF Available
  <1>3. \A e \in tools' : e \in VirtualTools(config) \/ FromServer(config, e)
    BY <1>2
  <1>4. stage' = "asking" => at' \in Available(config') /\ prefix' = config'.prefix[config'.mine[at']]
    BY <1>2
  <1> QED
    BY <1>2, <1>3, <1>4 DEF Aligned

\* Every step keeps it so; a reload that changes the configuration ends the premise.
LEMMA AlignedStep == IInv /\ Aligned /\ [Next]_vars => Aligned'
  <1> SUFFICES ASSUME IInv, Aligned, [Next]_vars PROVE Aligned'
    OBVIOUS
  <1>c. config \in Configs
    BY DEF IInv, TypeOK
  <1>1. CASE StartListing
    <2>1. CASE config.agent /\ Advance(1, config.mine, {})
      <3>1. 1 \in Nat \ {0} /\ UNCHANGED config
            /\ agentCfg' = [mine |-> config.mine, logOnly |-> config.logOnly]
        BY <1>1 DEF StartListing
      <3> QED
        BY <1>c, <2>1, <3>1, AdvanceAligns
    <2>2. CASE stage' = "listed" /\ tools' = {}
      BY <2>2 DEF Aligned
    <2> QED
      BY <1>1, <2>1, <2>2 DEF StartListing
  <1>2. CASE since' # {config'}
    BY <1>2 DEF Aligned
  <1>3. CASE (Fetched \/ FetchFailed) /\ since' = {config'}
    <2>1. /\ stage = "asking" /\ UNCHANGED <<config, agentCfg, since>>
          /\ since = {config}
          /\ \/ Advance(at + 1, agentCfg.mine, tools \cup NewEntries)
             \/ Advance(at + 1, agentCfg.mine, tools)
      BY <1>3 DEF Fetched, FetchFailed, NewEntries
    <2>2. /\ config.agent
          /\ agentCfg = [mine |-> config.mine, logOnly |-> config.logOnly]
          /\ at \in Available(config)
          /\ prefix = config.prefix[config.mine[at]]
      BY <2>1 DEF Aligned
    <2>3. \A e \in tools : FromServer(config, e)
      <3>1. \A e \in VirtualTools(config) : e.scope \notin Servers
        BY <1>c, VirtualEntries
      <3> QED
        BY <2>1, <3>1 DEF Aligned, IInv, ToolsOfStage
    <2>4. \A e \in NewEntries : FromServer(config, e)
      <3> SUFFICES ASSUME NEW e \in NewEntries PROVE FromServer(config, e)
        OBVIOUS
      <3>1. /\ e \in Entry /\ e.scope = config.mine[at] /\ e.name = prefix \o e.tool
            /\ config.logOnly \/ Permits(config, e.scope, e.tool)
        BY <2>1, <2>2, NewEntriesFacts DEF IInv
      <3>2. e.tool \in Names
        BY <3>1 DEF Entry
      <3> QED
        BY <2>2, <3>1, <3>2 DEF FromServer
    <2>5. at + 1 \in Nat \ {0}
      BY DEF IInv, TypeOK
    <2>6. \E got : /\ Advance(at + 1, config.mine, got)
                   /\ \A e \in got : FromServer(config, e)
      BY <2>1, <2>2, <2>3, <2>4
    <2> QED
      BY <1>c, <2>1, <2>2, <2>5, <2>6, AdvanceAligns
  <1>4. CASE TokenFailed
    BY <1>4 DEF TokenFailed, Aligned
  <1>5. CASE HotReload /\ since' = {config'}
    <2>1. CASE stage = "idle"
      BY <1>5, <2>1 DEF HotReload, Aligned
    <2>2. CASE stage # "idle"
      <3>1. config' = config /\ since = {config}
        BY <1>5, <2>2 DEF HotReload, IInv, ConfigSeen
      <3> QED
        BY <1>5, <2>2, <3>1 DEF HotReload, Aligned
    <2> QED
      BY <2>1, <2>2
  <1>6. CASE UNCHANGED vars
    BY <1>6 DEF vars, Aligned
  <1> QED
    BY <1>1, <1>2, <1>3, <1>4, <1>5, <1>6 DEF Next, Answered

\* For any configuration whose names cannot be confused: while it is in force, calling a
\* name a listing showed reaches the tool it was shown for, and is let through.
THEOREM ListedIsReached == Spec => []ListedReachesItsTool
  <1>1. Init => Aligned
    BY DEF Init, Aligned
  <1>2. IInv /\ Aligned => ListedReachesItsTool
    <2> SUFFICES ASSUME IInv, Aligned, stage = "listed", since = {config},
                        Unambiguous(config), NEW e \in tools
                 PROVE  /\ ResolveTarget(config, e.name) = [scope |-> e.scope, tool |-> e.tool]
                        /\ Callable(config, e.name)
      BY DEF ListedReachesItsTool
    <2>1. config \in Configs /\ config.agent
      BY DEF IInv, TypeOK, Aligned
    <2>2. CASE e \in VirtualTools(config)
      <3>1. /\ e.scope \in Kinds /\ e.name = e.tool
            /\ e.tool \in Registered(config)[e.scope]
            /\ Permits(config, e.scope, e.tool)
        BY <2>1, <2>2, VirtualEntries
      <3>2. ResolveTarget(config, e.name) = [scope |-> e.scope, tool |-> e.tool]
        BY <2>1, <3>1, VirtualReachesItself
      <3> QED
        BY <2>1, <3>1, <3>2 DEF Callable, Kinds, Precedence
    <2>3. CASE FromServer(config, e)
      <3>1. PICK i \in Available(config) :
               /\ e.scope = config.mine[i]
               /\ e.name = config.prefix[config.mine[i]] \o e.tool
               /\ e.tool \in Names
               /\ config.logOnly \/ Permits(config, e.scope, e.tool)
        BY <2>3 DEF FromServer
      <3>2. ResolveTarget(config, e.name) = [scope |-> e.scope, tool |-> e.tool]
        BY <2>1, <3>1, QualifiedReachesServer
      <3>3. e.scope \in Servers /\ e.scope # "nowhere"
        BY <2>1, <3>1, CatalogAssumption DEF Config, Available
      <3> QED
        BY <2>1, <3>1, <3>2, <3>3 DEF Callable
    <2> QED
      BY <2>2, <2>3 DEF Aligned
  <1> QED
    BY <1>1, <1>2, AlignedStep, Inductive, PTL DEF Spec

-----------------------------------------------------------------------------
(* What may be used is shown *)

\* The permitted tools of the agent's servers before the j-th have their names in got.
ShownBefore(k, j, got) ==
    \A i \in Available(k) : i < j =>
        \A n \in Offers[k.mine[i]] :
            Permits(k, k.mine[i], n) => \E e \in got : e.name = k.prefix[k.mine[i]] \o n

\* While no reload has come and no server has failed, those asked so far are shown.
Gathered ==
    since = {config} /\ config.agent /\ ~failed =>
        /\ stage = "asking" => ShownBefore(config, at, tools)
        /\ stage = "listed" => /\ ShownBefore(config, Len(config.mine) + 1, tools)
                               /\ VirtualTools(config) \subseteq tools

\* Servers that do not exist have nothing to show: going past them leaves nothing out.
LEMMA AdvanceGathers ==
  ASSUME config \in Configs, UNCHANGED config, NEW j \in Nat \ {0}, NEW got,
         ShownBefore(config, j, got), Advance(j, config.mine, got)
  PROVE  Gathered'
  <1>1. config.mine \in Seq(Servers)
    BY CatalogAssumption DEF Config
  <1>2. Len(config.mine) \in Nat /\ DOMAIN config.mine = 1..Len(config.mine)
    BY <1>1, LenProperties
  <1>3. CASE stage' = "asking"
    <2>1. /\ at' \in DOMAIN config.mine /\ tools' = got
          /\ \A i \in j..(at' - 1) : config.mine[i] \notin config.servers
      BY <1>1, <1>3, AdvanceEffect
    <2>2. \A i \in Available(config) : i < at' => i < j
      BY <1>2, <2>1 DEF Available
    <2>3. ShownBefore(config, at', got)
      BY <2>2 DEF ShownBefore
    <2> QED
      BY <1>3, <2>1, <2>3 DEF Gathered
  <1>4. CASE stage' = "listed"
    <2>1. /\ tools' = got \cup VirtualTools(config)
          /\ \A i \in j..Len(config.mine) : config.mine[i] \notin config.servers
      BY <1>1, <1>4, AdvanceEffect
    <2>2. \A i \in Available(config) : i < j
      BY <1>2, <2>1 DEF Available
    <2>3. ShownBefore(config, Len(config.mine) + 1, tools')
      BY <2>1, <2>2 DEF ShownBefore
    <2> QED
      BY <1>4, <2>1, <2>3 DEF Gathered
  <1>5. stage' \in {"asking", "listed"}
    BY <1>1, AdvanceEffect
  <1> QED
    BY <1>3, <1>4, <1>5

\* An answer adds what is permitted of its server, or its name is there already.
LEMMA FetchedGathers ==
  ASSUME IInv, Aligned, Gathered, Fetched, since' = {config'}, config'.agent, ~failed'
  PROVE  Gathered'
  <1> DEFINE got == tools \cup NewEntries
  <1>1. /\ Advance(at + 1, agentCfg.mine, got) /\ stage = "asking"
        /\ UNCHANGED <<config, agentCfg, since, failed>>
    BY DEF Fetched, NewEntries
  <1>2. since = {config} /\ config.agent /\ ~failed /\ config \in Configs
    BY <1>1 DEF IInv, TypeOK
  <1>3. /\ agentCfg = [mine |-> config.mine, logOnly |-> config.logOnly]
        /\ at \in Available(config)
        /\ prefix = config.prefix[config.mine[at]]
    BY <1>1, <1>2 DEF Aligned
  <1>4. ShownBefore(config, at, tools)
    BY <1>1, <1>2 DEF Gathered
  <1>5. \A n \in Offers[config.mine[at]] :
            Permits(config, config.mine[at], n) => \E e \in got : e.name = prefix \o n
    <2> SUFFICES ASSUME NEW n \in Offers[config.mine[at]], Permits(config, config.mine[at], n)
                 PROVE  \E e \in got : e.name = prefix \o n
      OBVIOUS
    <2> DEFINE new == [name |-> prefix \o n, scope |-> config.mine[at], tool |-> n]
    <2>1. n \in Offered(agentCfg.mine[at]) /\ agentCfg.mine[at] = config.mine[at]
      BY <1>3 DEF Offered
    <2>2. CASE \E o \in tools : o.name = prefix \o n
      BY <2>2
    <2>3. CASE ~\E o \in tools : o.name = prefix \o n
      <3>1. new \in NewEntries
        BY <2>1, <2>3 DEF NewEntries, Fresh
      <3> QED
        BY <3>1
    <2> QED
      BY <2>2, <2>3
  <1>6. at \in Nat
    BY DEF IInv, TypeOK
  <1> HIDE DEF got
  <1>7. ShownBefore(config, at + 1, got)
    <2> SUFFICES ASSUME NEW i \in Available(config), i < at + 1, NEW n \in Offers[config.mine[i]],
                        Permits(config, config.mine[i], n)
                 PROVE  \E e \in got : e.name = config.prefix[config.mine[i]] \o n
      BY DEF ShownBefore
    <2>1. i \in Nat
      BY <1>2, CatalogAssumption DEF Available, Config
    <2>2. CASE i < at
      BY <1>4, <2>2 DEF ShownBefore, got
    <2>3. CASE i = at
      BY <1>3, <1>5, <2>3
    <2> QED
      BY <1>6, <2>1, <2>2, <2>3
  <1>8. Advance(at + 1, config.mine, got) /\ config' = config /\ at + 1 \in Nat \ {0}
    BY <1>1, <1>3, <1>6
  <1> QED
    BY <1>2, <1>7, <1>8, AdvanceGathers

\* Every step keeps it; a reload or a failing server ends the premise.
LEMMA GatheredStep == IInv /\ Aligned /\ Gathered /\ [Next]_vars => Gathered'
  <1> SUFFICES ASSUME IInv, Aligned, Gathered, [Next]_vars,
                      since' = {config'}, config'.agent, ~failed'
               PROVE  Gathered'
    BY DEF Gathered
  <1>1. CASE StartListing
    <2>1. /\ config \in Configs /\ UNCHANGED config /\ config.agent
          /\ Advance(1, config.mine, {})
      BY <1>1 DEF StartListing, IInv, TypeOK
    <2>2. ShownBefore(config, 1, {})
      <3>1. \A i \in Available(config) : i \in Nat /\ ~(i < 1)
        <4>1. config.mine \in Seq(Servers)
          BY <2>1, CatalogAssumption DEF Config
        <4>2. DOMAIN config.mine = 1..Len(config.mine) /\ Len(config.mine) \in Nat
          BY <4>1, LenProperties
        <4> QED
          BY <4>2 DEF Available
      <3> QED
        BY <3>1 DEF ShownBefore
    <2> QED
      BY <2>1, <2>2, AdvanceGathers
  <1>2. CASE Fetched
    BY <1>2, FetchedGathers
  <1>3. CASE FetchFailed
    BY <1>3 DEF FetchFailed
  <1>4. CASE TokenFailed
    BY <1>4 DEF TokenFailed, Gathered
  <1>5. CASE HotReload
    <2>1. CASE stage = "idle"
      BY <1>5, <2>1 DEF HotReload, Gathered
    <2>2. CASE stage # "idle"
      <3>1. config' = config /\ since = {config}
        BY <1>5, <2>2 DEF HotReload, IInv, ConfigSeen
      <3> QED
        BY <1>5, <2>2, <3>1 DEF HotReload, Gathered
    <2> QED
      BY <2>1, <2>2
  <1>6. CASE UNCHANGED vars
    BY <1>6 DEF vars, Gathered
  <1> QED
    BY <1>1, <1>2, <1>3, <1>4, <1>5, <1>6 DEF Next, Answered

\* With no reload since and no failing server, no tool that the agent may use is missing,
\* unless another one is shown under its name.
THEOREM PermittedAreShown == Spec => []PermittedIsListed
  <1>1. Init => Aligned /\ Gathered
    BY DEF Init, Aligned, Gathered
  <1>2. IInv /\ Gathered => PermittedIsListed
    <2> SUFFICES ASSUME IInv, Gathered, stage = "listed", since = {config}, config.agent, ~failed
                 PROVE  /\ \A i \in Available(config) : \A n \in Offers[config.mine[i]] :
                               Permits(config, config.mine[i], n) =>
                                   \E e \in tools : e.name = config.prefix[config.mine[i]] \o n
                        /\ \A kind \in Kinds \ {"gateway"} : \A n \in Registered(config)[kind] :
                               Permits(config, kind, n) =>
                                   [name |-> n, scope |-> kind, tool |-> n] \in tools
      BY DEF PermittedIsListed
    <2>1. ShownBefore(config, Len(config.mine) + 1, tools) /\ VirtualTools(config) \subseteq tools
      BY DEF Gathered
    <2>2. \A i \in Available(config) : i < Len(config.mine) + 1
      <3>1. config.mine \in Seq(Servers)
        BY CatalogAssumption DEF IInv, TypeOK, Config
      <3>2. DOMAIN config.mine = 1..Len(config.mine) /\ Len(config.mine) \in Nat
        BY <3>1, LenProperties
      <3> QED
        BY <3>2 DEF Available
    <2>3. \A i \in Available(config) : \A n \in Offers[config.mine[i]] :
              Permits(config, config.mine[i], n) =>
                  \E e \in tools : e.name = config.prefix[config.mine[i]] \o n
      BY <2>1, <2>2 DEF ShownBefore
    <2>4. \A kind \in Kinds \ {"gateway"} : \A n \in Registered(config)[kind] :
              Permits(config, kind, n) => [name |-> n, scope |-> kind, tool |-> n] \in tools
      BY <2>1 DEF VirtualTools
    <2> QED
      BY <2>3, <2>4
  <1> QED
    BY <1>1, <1>2, AlignedStep, GatheredStep, Inductive, PTL DEF Spec
=============================================================================
