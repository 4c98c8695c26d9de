---------------------------- MODULE TargetProofs ----------------------------
(***************************************************************************)
(* Proofs about what a call is sent to: the registries of the wrapper's    *)
(* own tools (ToolRegistries), for every set of names and calls and every  *)
(* set of configurations that reloads can install; and one request to a    *)
(* downstream server (McpClientSse), for all waits, redirects and servers. *)
(***************************************************************************)
EXTENDS ToolRegistries, McpClientSse, SequenceTheorems, TLAPS

\* What holds of the registries and the calls in every reachable state: a call that has
\* left "idle" has a real target, nothing that failed to load is in a registry, and a
\* call that has not run anything has no code.
IInv ==
    /\ TypeOK
    /\ WorkflowsFollow
    /\ BrokenNeverRuns
    /\ \A c \in Calls : pc[c] # "idle" => target[c] \in Target
    /\ \A c \in Calls : pc[c] = "idle" => code[c] = NoSource
    /\ \A kind \in Loading : \A n \in Names : loaded[kind][n] \notin Broken

\* The order of precedence names four kinds.
LEMMA FourKinds == Kinds = {"native", "plugin", "gateway", "workflow"}
<1>1. \A i \in 1..4 : i = 1 \/ i = 2 \/ i = 3 \/ i = 4
  BY SMT
<1>2. /\ Precedence[1] = "native" /\ Precedence[2] = "plugin"
      /\ Precedence[3] = "gateway" /\ Precedence[4] = "workflow"
  BY DEF Precedence
<1>3. 1 \in 1..4 /\ 2 \in 1..4 /\ 3 \in 1..4 /\ 4 \in 1..4
  BY SMT
<1> QED
  BY <1>1, <1>2, <1>3 DEF Kinds

\* A configuration names a source, or nothing, for every kind and name.
LEMMA ConfigEntries ==
    ASSUME NEW k \in Configs, NEW kind \in Kinds, NEW n \in Names
    PROVE  k[kind][n] \in Sources \cup {NoSource}
  BY RegistryAssumption DEF Config

\* Loading gives the source that was asked for or nothing, and never a broken one.
LEMMA LoadGives ==
    ASSUME NEW kind, NEW source \in Sources \cup {NoSource}
    PROVE  /\ Load(kind, source) \in {source, NoSource}
           /\ Load(kind, source) \in Sources \cup {NoSource}
           /\ Load(kind, source) \notin Broken
  BY RegistryAssumption DEF Load

\* A freshly built registry holds sources, none of them broken.
LEMMA BuiltLoads ==
    ASSUME NEW k \in Configs, NEW kind \in Loading
    PROVE  /\ Built(kind, k) \in [Names -> Sources \cup {NoSource}]
           /\ \A n \in Names : Built(kind, k)[n] \notin Broken
           /\ \A n \in Names : Built(kind, k)[n] \in {NoSource, k[kind][n]}
<1>1. kind \in Kinds
  BY FourKinds DEF Loading
<1>2. \A n \in Names : k[kind][n] \in Sources \cup {NoSource}
  BY <1>1, ConfigEntries
<1>3. \A n \in Names : /\ Load(kind, k[kind][n]) \in Sources \cup {NoSource}
                       /\ Load(kind, k[kind][n]) \notin Broken
                       /\ Load(kind, k[kind][n]) \in {NoSource, k[kind][n]}
  BY <1>2, LoadGives
<1> QED
  BY <1>3 DEF Built

\* A reload in place leaves sources, none of them broken, if there was none before.
LEMMA ReloadedLoads ==
    ASSUME NEW k \in Configs, NEW kind \in Loading,
           NEW modules \in [Names -> Sources \cup {NoSource}],
           \A n \in Names : modules[n] \notin Broken
    PROVE  /\ Reloaded(kind, k[kind], modules, k[kind]) \in [Names -> Sources \cup {NoSource}]
           /\ \A n \in Names : Reloaded(kind, k[kind], modules, k[kind])[n] \notin Broken
<1>1. kind \in Kinds
  BY FourKinds DEF Loading
<1>2. \A n \in Names : k[kind][n] \in Sources \cup {NoSource}
  BY <1>1, ConfigEntries
<1>3. \A n \in Names : /\ Load(kind, k[kind][n]) \in Sources \cup {NoSource}
                       /\ Load(kind, k[kind][n]) \notin Broken
  BY <1>2, LoadGives
<1> QED
  BY <1>3, RegistryAssumption DEF Reloaded

\* The invariant holds before anything is called.
LEMMA InitIInv == Init => IInv
<1> SUFFICES ASSUME Init PROVE IInv
  OBVIOUS
<1>1. configs \in Configs
  BY DEF Init
<1>2. \A kind \in Loading : loaded[kind] = Built(kind, configs)
  BY DEF Init
<1>3. /\ \A kind \in Loading : loaded[kind] \in [Names -> Sources \cup {NoSource}]
      /\ \A kind \in Loading : \A n \in Names : loaded[kind][n] \notin Broken
      /\ \A kind \in Loading : \A n \in Names : loaded[kind][n] \in {NoSource, configs[kind][n]}
  BY <1>1, <1>2, BuiltLoads
<1>4. TypeOK
  BY <1>1, <1>3, RegistryAssumption DEF Init, TypeOK
<1>5. WorkflowsFollow
  BY <1>3 DEF WorkflowsFollow, Loading
<1>6. BrokenNeverRuns
  BY RegistryAssumption DEF Init, BrokenNeverRuns
<1> QED
  BY <1>3, <1>4, <1>5, <1>6 DEF IInv, Init

\* What execute() runs comes from the configuration, or from what was loaded; and an
\* entry that the configuration does not have does not run.
LEMMA RunsGives ==
    ASSUME IInv, NEW kind \in Kinds, NEW n \in Names, Runs(kind, n) # NoSource
    PROVE  /\ Runs(kind, n) \in Sources
           /\ configs[kind][n] # NoSource
           /\ Runs(kind, n) \in Broken =>
                  kind = "native" \/ (kind = "gateway" /\ Runs(kind, n) \notin Python)
<1>1. configs \in Configs /\ configs[kind][n] \in Sources \cup {NoSource}
  BY ConfigEntries DEF IInv, TypeOK
<1>2. kind \in {"native", "plugin", "gateway", "workflow"}
  BY FourKinds
<1>3. \A l \in Loading : loaded[l][n] \in Sources \cup {NoSource} /\ loaded[l][n] \notin Broken
  BY DEF IInv, TypeOK
<1>4. loaded["workflow"][n] \in {NoSource, configs["workflow"][n]}
  BY DEF IInv, WorkflowsFollow
<1>5. CASE kind = "native"
  BY <1>1, <1>5 DEF Runs
<1>6. CASE kind = "plugin"
  BY <1>1, <1>3, <1>6 DEF Runs, Loading
<1>7. CASE kind = "gateway"
  BY <1>1, <1>3, <1>7, RegistryAssumption DEF Runs, Loading
<1>8. CASE kind = "workflow"
  BY <1>1, <1>3, <1>4, <1>8 DEF Runs, Loading
<1> QED
  BY <1>2, <1>5, <1>6, <1>7, <1>8

\* The invariant is kept by every step.
LEMMA NextIInv == IInv /\ [Next]_vars => IInv'
<1> SUFFICES ASSUME IInv, [Next]_vars PROVE IInv'
  OBVIOUS
<1> USE DEF IInv
<1>1. CASE HotReload
  <2>1. PICK new \in Configs :
           /\ configs' = new
           /\ loaded' = [plugin   |-> Reloaded("plugin", new["plugin"], loaded["plugin"], new["plugin"]),
                         gateway  |-> Reloaded("gateway", new["gateway"], loaded["gateway"], new["gateway"]),
                         workflow |-> Built("workflow", new)]
    BY <1>1 DEF HotReload
  <2>2. UNCHANGED <<pc, target, code, outcome>>
    BY <1>1 DEF HotReload
  <2>3. /\ loaded["plugin"] \in [Names -> Sources \cup {NoSource}]
        /\ loaded["gateway"] \in [Names -> Sources \cup {NoSource}]
        /\ \A n \in Names : loaded["plugin"][n] \notin Broken /\ loaded["gateway"][n] \notin Broken
    BY DEF TypeOK, Loading
  <2>4. /\ loaded'["plugin"] \in [Names -> Sources \cup {NoSource}]
        /\ \A n \in Names : loaded'["plugin"][n] \notin Broken
    BY <2>1, <2>3, ReloadedLoads DEF Loading
  <2>5. /\ loaded'["gateway"] \in [Names -> Sources \cup {NoSource}]
        /\ \A n \in Names : loaded'["gateway"][n] \notin Broken
    BY <2>1, <2>3, ReloadedLoads DEF Loading
  <2>6. /\ loaded'["workflow"] \in [Names -> Sources \cup {NoSource}]
        /\ \A n \in Names : loaded'["workflow"][n] \notin Broken
        /\ \A n \in Names : loaded'["workflow"][n] \in {NoSource, configs'["workflow"][n]}
    BY <2>1, BuiltLoads DEF Loading
  <2>7. loaded' \in [Loading -> [Names -> Sources \cup {NoSource}]]
    BY <2>1, <2>4, <2>5, <2>6 DEF Loading
  <2>8. TypeOK'
    BY <2>1, <2>2, <2>7 DEF TypeOK
  <2>9. BrokenNeverRuns'
    BY <2>2 DEF BrokenNeverRuns
  <2> QED
    BY <2>2, <2>4, <2>5, <2>6, <2>8, <2>9 DEF WorkflowsFollow, Loading
<1>2. ASSUME NEW c \in Calls, Resolve(c) PROVE IInv'
  <2>1. \E n \in Names, i \in 1..4 :
           target' = [target EXCEPT ![c] = [kind |-> Precedence[i], name |-> n]]
    BY <1>2 DEF Resolve
  <2>2. PICK to \in Target : target' = [target EXCEPT ![c] = to]
    BY <2>1 DEF Target, Kinds
  <2>3. TypeOK'
    BY <1>2, <2>2 DEF Resolve, TypeOK
  <2>4. BrokenNeverRuns'
    BY <1>2, <2>2, RegistryAssumption DEF Resolve, TypeOK, BrokenNeverRuns
  <2> QED
    BY <1>2, <2>2, <2>3, <2>4 DEF Resolve, TypeOK, WorkflowsFollow
<1>3. ASSUME NEW c \in Calls, Execute(c) PROVE IInv'
  <2> DEFINE source == Runs(target[c].kind, target[c].name)
  <2>1. /\ pc[c] = "resolved" /\ source # NoSource
        /\ pc' = [pc EXCEPT ![c] = "running"]
        /\ code' = [code EXCEPT ![c] = source]
        /\ UNCHANGED <<configs, loaded, target, outcome>>
    BY <1>3 DEF Execute
  <2>2. target[c].kind \in Kinds /\ target[c].name \in Names
    BY <2>1 DEF Target
  <2>3. /\ source \in Sources
        /\ source \in Broken =>
               target[c].kind = "native" \/ (target[c].kind = "gateway" /\ source \notin Python)
    BY <2>1, <2>2, RunsGives
  <2> HIDE DEF source
  <2>4. TypeOK'
    BY <2>1, <2>3 DEF TypeOK
  <2>5. BrokenNeverRuns'
    BY <2>1, <2>3 DEF TypeOK, BrokenNeverRuns
  <2> QED
    BY <2>1, <2>4, <2>5 DEF TypeOK, WorkflowsFollow
<1>4. ASSUME NEW c \in Calls, CannotExecute(c) \/ Answer(c) PROVE IInv'
  <2>1. /\ pc[c] # "idle"
        /\ pc' = [pc EXCEPT ![c] = "ended"]
        /\ \E how \in {"result", "error"} : outcome' = [outcome EXCEPT ![c] = how]
        /\ UNCHANGED <<configs, loaded, target, code>>
    BY <1>4 DEF CannotExecute, Answer
  <2>2. TypeOK'
    BY <2>1 DEF TypeOK
  <2>3. BrokenNeverRuns'
    BY <2>1 DEF BrokenNeverRuns
  <2>4. WorkflowsFollow'
    BY <2>1 DEF WorkflowsFollow
  <2>5. /\ \A d \in Calls : pc'[d] # "idle" => target'[d] \in Target
        /\ \A d \in Calls : pc'[d] = "idle" => code'[d] = NoSource
    BY <2>1 DEF TypeOK
  <2> QED
    BY <2>1, <2>2, <2>3, <2>4, <2>5
<1>5. CASE UNCHANGED vars
  BY <1>5 DEF vars, TypeOK, WorkflowsFollow, BrokenNeverRuns
<1> QED
  BY <1>1, <1>2, <1>3, <1>4, <1>5 DEF Next, Conclude

\* The strengthened invariant holds in every reachable state.
THEOREM Inductive == Spec => []IInv
<1>1. Init => IInv
  BY InitIInv
<1>2. IInv /\ [Next]_vars => IInv'
  BY NextIInv
<1> QED
  BY <1>1, <1>2, PTL DEF Spec

\* Type correctness of the registries and of the calls.
THEOREM TypeCorrect == Spec => []TypeOK
<1>1. IInv => TypeOK
  BY DEF IInv
<1> QED
  BY <1>1, Inductive, PTL

\* A workflow name never runs the definition of an earlier configuration (workflow.py
\* reload starts over).
THEOREM WorkflowsAreCurrent == Spec => []WorkflowsFollow
<1>1. IInv => WorkflowsFollow
  BY DEF IInv
<1> QED
  BY <1>1, Inductive, PTL

\* What failed to load is never run in process.
THEOREM BrokenStaysOut == Spec => []BrokenNeverRuns
<1>1. IInv => BrokenNeverRuns
  BY DEF IInv
<1> QED
  BY <1>1, Inductive, PTL

\* A tool whose entry a reload removed is not started any more, by whatever call.
THEOREM RemovedIsGone == Spec => RemovedNeverRuns
<1> DEFINE Started == \A c \in Calls : pc[c] = "resolved" /\ pc'[c] = "running" =>
                          configs[target[c].kind][target[c].name] # NoSource
<1>1. IInv /\ [Next]_vars => [Started]_vars
  <2> SUFFICES ASSUME IInv, Next, NEW c \in Calls, pc[c] = "resolved", pc'[c] = "running"
               PROVE  configs[target[c].kind][target[c].name] # NoSource
    BY DEF Started
  <2>1. target[c].kind \in Kinds /\ target[c].name \in Names
    BY DEF IInv, Target
  <2>2. Runs(target[c].kind, target[c].name) # NoSource
    <3>1. CASE HotReload
      BY <3>1 DEF HotReload
    <3>2. ASSUME NEW d \in Calls, Resolve(d) PROVE FALSE
      BY <3>2 DEF Resolve, IInv, TypeOK
    <3>3. ASSUME NEW d \in Calls, CannotExecute(d) \/ Answer(d) PROVE FALSE
      BY <3>3 DEF CannotExecute, Answer, IInv, TypeOK
    <3>4. ASSUME NEW d \in Calls, Execute(d) PROVE d = c
      BY <3>4 DEF Execute, IInv, TypeOK
    <3>5. ASSUME Execute(c) PROVE Runs(target[c].kind, target[c].name) # NoSource
      BY <3>5 DEF Execute
    <3> QED
      BY <3>1, <3>2, <3>3, <3>4, <3>5 DEF Next, Conclude
  <2> QED
    BY <2>1, <2>2, RunsGives
<1>2. Spec => [][Started]_vars
  BY <1>1, Inductive, PTL DEF Spec
<1> QED
  BY <1>2 DEF RemovedNeverRuns

-----------------------------------------------------------------------------
(* The SSE request: McpClientSse *)

\* What holds whenever the request or its reader has taken a step: the types, a reader that
\* probes has redirects left, the wait for the answer ends before its deadline, and what is
\* taken for the answer is one.
SseInv ==
    /\ SseTypeOK
    /\ reader = "probing" => hops < MaxHops
    /\ stage = "answer" => elapsed + wait < Timeout + MinWait
    /\ \A i \in DOMAIN queue : queue[i] = "answer" => answered
    /\ result = "answer" => answered

LEMMA SseConstants ==
    /\ Timeout \in Nat \ {0} /\ EndpointWait \in Nat \ {0} /\ MinWait \in Nat \ {0}
    /\ MaxHops \in Nat \ {0}
  BY SseAssumption

LEMMA InitSse == SseInit => SseInv
<1> SUFFICES ASSUME SseInit PROVE SseInv
  OBVIOUS
<1>1. queue \in Seq(Events \cup {"end"}) /\ \A i \in DOMAIN queue : queue[i] = "answer" => answered
  BY EmptySeq DEF SseInit
<1>2. hops \in 0..MaxHops /\ hops < MaxHops /\ wait \in Nat /\ elapsed \in Nat
  BY SseConstants DEF SseInit
<1>3. SseTypeOK
  BY <1>1, <1>2 DEF SseInit, SseTypeOK
<1>4. stage # "answer" /\ result # "answer"
  BY DEF SseInit
<1> QED
  BY <1>1, <1>2, <1>3, <1>4, Zenon DEF SseInv

\* A new event at the end of the queue.
LEMMA AppendSse ==
    ASSUME SseInv, NEW e \in Events \cup {"end"}, queue' = Append(queue, e),
           answered => answered', e = "answer" => answered'
    PROVE  /\ queue' \in Seq(Events \cup {"end"})
           /\ \A i \in DOMAIN queue' : queue'[i] = "answer" => answered'
<1>1. queue \in Seq(Events \cup {"end"})
  BY DEF SseInv, SseTypeOK
<1>2. Len(queue) \in Nat /\ DOMAIN queue = 1..Len(queue)
  BY <1>1, LenProperties
<1>3. /\ queue' \in Seq(Events \cup {"end"}) /\ Len(queue') = Len(queue) + 1
      /\ \A i \in 1..Len(queue) : queue'[i] = queue[i]
      /\ queue'[Len(queue) + 1] = e
  BY <1>1, AppendProperties
<1>4. DOMAIN queue' = 1..(Len(queue) + 1)
  BY <1>3, LenProperties
<1>5. ASSUME NEW i \in DOMAIN queue', queue'[i] = "answer" PROVE answered'
  <2>1. CASE i = Len(queue) + 1
    BY <1>3, <1>5, <2>1
  <2>2. CASE i # Len(queue) + 1
    <3>1. i \in 1..Len(queue)
      BY <1>2, <1>4, <2>2
    <3>2. queue[i] = "answer"
      BY <1>3, <1>5, <3>1
    <3>3. answered
      BY <1>2, <3>1, <3>2 DEF SseInv
    <3> QED  BY <3>3
  <2> QED  BY <2>1, <2>2
<1> QED
  BY <1>3, <1>5

\* The oldest event is taken from the queue.
LEMMA TailSse ==
    ASSUME SseInv, queue # <<>>, queue' = Tail(queue), answered' = answered
    PROVE  /\ queue' \in Seq(Events \cup {"end"})
           /\ \A i \in DOMAIN queue' : queue'[i] = "answer" => answered'
           /\ Head(queue) = "answer" => answered'
<1>1. queue \in Seq(Events \cup {"end"})
  BY DEF SseInv, SseTypeOK
<1>2. Len(queue) \in Nat /\ DOMAIN queue = 1..Len(queue) /\ Len(queue) # 0
  BY <1>1, EmptySeq, LenProperties
<1>3. /\ queue' \in Seq(Events \cup {"end"}) /\ Len(queue') = Len(queue) - 1
      /\ Head(queue) = queue[1]
      /\ \A i \in 1..Len(queue') : queue'[i] = queue[i + 1]
  BY <1>1, HeadTailProperties
<1>4. DOMAIN queue' = 1..(Len(queue) - 1)
  BY <1>3, LenProperties
<1>5. ASSUME NEW i \in DOMAIN queue', queue'[i] = "answer" PROVE answered'
  <2>1. i + 1 \in DOMAIN queue /\ queue[i + 1] = "answer"
    BY <1>2, <1>3, <1>4, <1>5
  <2> QED  BY <2>1 DEF SseInv
<1>6. Head(queue) = "answer" => answered'
  BY <1>2, <1>3 DEF SseInv
<1> QED
  BY <1>3, <1>5, <1>6

LEMMA NothingLeft == ~(0 > 0) /\ 0 \in Nat
  OBVIOUS

\* The way out of the try block, whatever has become of the queue.
LEMMA LeaveSse ==
    ASSUME SseInv, queue' \in Seq(Events \cup {"end"}),
           \A i \in DOMAIN queue' : queue'[i] = "answer" => answered',
           NEW how \in {"answer", "no endpoint", "no answer", "closed", "error", "cancelled"},
           Leave(how), how = "answer" => answered
    PROVE  SseInv'
<1>1. SseTypeOK'
  <2>1. /\ stage' = "closing" /\ result' = how /\ wait' = 0
        /\ reader' = IF reader = "done" THEN "done" ELSE "cancelled"
        /\ UNCHANGED <<elapsed, hops, offered, answered>>
    BY Zenon DEF Leave
  <2>2. hops' \in 0..MaxHops /\ elapsed' \in Nat /\ offered' \in BOOLEAN /\ answered' \in BOOLEAN
    BY <2>1, Zenon DEF SseInv, SseTypeOK
  <2>3. ~(wait' > 0) /\ wait' \in Nat
    <3>1. wait' = 0
      BY Zenon DEF Leave
    <3> QED  BY <3>1, NothingLeft, Zenon
  <2>4. reader' \in {"probing", "draining", "connecting", "streaming", "cancelled", "done"}
        /\ stage' \in {"endpoint", "posting", "answer", "closing", "ended"}
        /\ result' \in {"none", "answer", "no endpoint", "no answer", "closed", "error", "cancelled"}
    BY <2>1
  <2> QED  BY <2>2, <2>3, <2>4, Zenon DEF SseTypeOK
<1>2. (reader = "probing" => hops < MaxHops)' /\ stage' = "closing" /\ (result' = "answer" => answered')
  BY DEF Leave
<1> QED
  BY <1>1, <1>2 DEF SseInv

\* The reader and the server.
LEMMA ReaderSse ==
    ASSUME SseInv, ProbeAnswered \/ Server \/ StreamOver
    PROVE  SseInv'
<1>1. CASE ProbeAnswered
  <2>1. UNCHANGED <<queue, stage, elapsed, wait, result, offered, answered>>
    BY <1>1 DEF ProbeAnswered, request
  <2>2. /\ hops' \in 0..MaxHops
        /\ reader' \in {"probing", "draining", "connecting"}
        /\ reader' = "probing" => hops' < MaxHops
    <3>1. PICK a \in ProbeAnswers :
              CASE a = "redirect" -> /\ hops' = hops + 1
                                     /\ reader' = IF hops' = MaxHops THEN "connecting" ELSE "probing"
                [] a = "open"     -> reader' = "draining" /\ UNCHANGED hops
                [] OTHER          -> reader' = "connecting" /\ UNCHANGED hops
      BY <1>1 DEF ProbeAnswered
    <3>2. hops \in 0..MaxHops /\ hops < MaxHops
      BY <1>1 DEF ProbeAnswered, SseInv, SseTypeOK
    <3>3. CASE a = "redirect"
      <4>1. hops' = hops + 1 /\ reader' = IF hops' = MaxHops THEN "connecting" ELSE "probing"
        BY <3>1, <3>3
      <4> QED  BY <3>2, <4>1, SseConstants
    <3>4. CASE a # "redirect"
      <4>1. hops' = hops /\ reader' \in {"draining", "connecting"}
        BY <3>1, <3>4
      <4> QED  BY <3>2, <4>1
    <3> QED  BY <3>3, <3>4
  <2> QED  BY <2>1, <2>2 DEF SseInv, SseTypeOK
<1>2. CASE OfferEndpoint \/ ProbeEnds \/ Connected
  BY <1>2 DEF OfferEndpoint, ProbeEnds, Connected, request, SseInv, SseTypeOK
<1>3. ASSUME NEW e \in Events, Receive(e) PROVE SseInv'
  <2>1. /\ queue' = Append(queue, e) /\ answered' = (answered \/ e = "answer")
        /\ UNCHANGED <<reader, hops, stage, elapsed, wait, result, offered>>
    BY <1>3 DEF Receive, request
  <2>2. /\ queue' \in Seq(Events \cup {"end"})
        /\ \A i \in DOMAIN queue' : queue'[i] = "answer" => answered'
    BY <2>1, AppendSse
  <2>3. answered' \in BOOLEAN /\ (answered => answered')
    BY <2>1
  <2> QED  BY <2>1, <2>2, <2>3 DEF SseInv, SseTypeOK
<1>4. CASE StreamOver
  <2>1. queue' = Append(queue, "end") /\ reader' = "done"
        /\ UNCHANGED <<hops, stage, elapsed, wait, result, offered, answered>>
    BY <1>4 DEF StreamOver, request
  <2>2. /\ queue' \in Seq(Events \cup {"end"})
        /\ \A i \in DOMAIN queue' : queue'[i] = "answer" => answered'
    BY <2>1, AppendSse
  <2> QED  BY <2>1, <2>2 DEF SseInv, SseTypeOK
<1> QED
  BY <1>1, <1>2, <1>3, <1>4 DEF Server

\* The waits and what they find in the queue.
LEMMA WaitsSse ==
    ASSUME SseInv, Skip \/ Take
    PROVE  SseInv'
<1>1. CASE SkipBeforeEndpoint \/ TakeEndpoint
  <2>1. queue # <<>> /\ queue' = Tail(queue)
        /\ UNCHANGED <<reader, hops, elapsed, result, offered, answered>>
    BY <1>1 DEF SkipBeforeEndpoint, TakeEndpoint, HeadIs
  <2>2. /\ queue' \in Seq(Events \cup {"end"})
        /\ \A i \in DOMAIN queue' : queue'[i] = "answer" => answered'
    BY <2>1, TailSse
  <2>3. stage' \in {"endpoint", "posting"} /\ wait' \in Nat /\ (wait' > 0 => stage' = "endpoint")
    BY <1>1, SseConstants DEF SkipBeforeEndpoint, TakeEndpoint
  <2> QED  BY <2>1, <2>2, <2>3 DEF SseInv, SseTypeOK
<1>2. CASE SkipBeforeAnswer
  <2>1. stage = "answer" /\ queue # <<>> /\ queue' = Tail(queue) /\ answered' = answered
    BY <1>2 DEF SkipBeforeAnswer, HeadIs, Leave
  <2>2. /\ queue' \in Seq(Events \cup {"end"})
        /\ \A i \in DOMAIN queue' : queue'[i] = "answer" => answered'
    BY <2>1, TailSse
  <2>3. CASE elapsed >= Timeout
    <3>1. Leave("no answer")
      BY <1>2, <2>3 DEF SkipBeforeAnswer
    <3> QED  BY <2>2, <3>1, LeaveSse
  <2>4. CASE ~(elapsed >= Timeout)
    <3>1. /\ wait' = Longer(MinWait, Timeout - elapsed)
          /\ UNCHANGED <<reader, hops, stage, elapsed, result, offered, answered>>
      BY <1>2, <2>4 DEF SkipBeforeAnswer
    <3>2. elapsed \in Nat /\ elapsed < Timeout
      <4>1. elapsed \in Nat
        BY Zenon DEF SseInv, SseTypeOK
      <4> QED  BY <2>4, <4>1, SseConstants
    <3>3. wait' \in Nat /\ elapsed + wait' < Timeout + MinWait
      BY <3>1, <3>2, SseConstants DEF Longer
    <3>4. SseTypeOK'
      BY <2>1, <2>2, <3>1, <3>3 DEF SseInv, SseTypeOK
    <3>5. reader' = reader /\ hops' = hops /\ elapsed' = elapsed /\ result' = result /\ answered' = answered
      BY <3>1
    <3>6. (reader = "probing" => hops < MaxHops)' /\ (result' = "answer" => answered')
      BY <3>5, Zenon DEF SseInv
    <3>7. elapsed' + wait' < Timeout + MinWait
      BY <3>3, <3>5, Zenon
    <3> QED  BY <2>2, <3>4, <3>6, <3>7, Zenon DEF SseInv
  <2> QED  BY <2>3, <2>4
<1>3. CASE TakeAnswer \/ StreamClosed
  <2>1. queue # <<>> /\ queue' = Tail(queue) /\ answered' = answered
    BY <1>3 DEF TakeAnswer, StreamClosed, HeadIs, Leave
  <2>2. /\ queue' \in Seq(Events \cup {"end"})
        /\ \A i \in DOMAIN queue' : queue'[i] = "answer" => answered'
        /\ Head(queue) = "answer" => answered'
    BY <2>1, TailSse
  <2>3. CASE TakeAnswer
    <3>1. Leave("answer") /\ answered
      BY <2>1, <2>2, <2>3 DEF TakeAnswer, HeadIs
    <3> QED  BY <2>2, <3>1, LeaveSse
  <2>4. CASE StreamClosed
    <3>1. Leave("closed")
      BY <2>4 DEF StreamClosed
    <3> QED  BY <2>2, <3>1, LeaveSse
  <2> QED  BY <1>3, <2>3, <2>4
<1> QED
  BY <1>1, <1>2, <1>3 DEF Skip, Take

\* The post, the clock and the ends.
LEMMA RestSse ==
    ASSUME SseInv, Post \/ WaitExpires \/ Cancel \/ Closed \/ Tick
    PROVE  SseInv'
<1>1. CASE Posted
  <2>1. /\ stage' = "answer" /\ elapsed' = 0 /\ wait' = Longer(MinWait, Timeout)
        /\ UNCHANGED <<reader, hops, queue, result, offered, answered>>
    BY <1>1 DEF Posted
  <2>2. wait' \in Nat /\ elapsed' + wait' < Timeout + MinWait
    BY <2>1, SseConstants DEF Longer
  <2> QED  BY <2>1, <2>2 DEF SseInv, SseTypeOK
<1>2. CASE PostFails \/ WaitExpires \/ Cancel
  <2>1. queue' = queue /\ answered' = answered
    BY <1>2 DEF PostFails, WaitExpires, Cancel, Leave
  <2>2. PICK how \in {"no endpoint", "no answer", "error", "cancelled"} : Leave(how)
    BY <1>2 DEF PostFails, WaitExpires, Cancel
  <2>3. /\ queue' \in Seq(Events \cup {"end"})
        /\ \A i \in DOMAIN queue' : queue'[i] = "answer" => answered'
    BY <2>1 DEF SseInv, SseTypeOK
  <2> QED  BY <2>2, <2>3, LeaveSse
<1>3. CASE Closed
  <2>1. /\ stage = "closing" /\ stage' = "ended"
        /\ UNCHANGED <<reader, hops, queue, elapsed, wait, result, offered, answered>>
    BY <1>3 DEF Closed
  <2> QED  BY <2>1 DEF SseInv, SseTypeOK
<1>4. CASE Tick
  <2>1. /\ stage \in {"endpoint", "answer"} /\ wait > 0 /\ wait' = wait - 1
        /\ elapsed' = IF stage = "answer" THEN elapsed + 1 ELSE 0
        /\ UNCHANGED <<reader, hops, queue, stage, result, offered, answered>>
    BY <1>4 DEF Tick
  <2>2. wait \in Nat /\ elapsed \in Nat
    BY DEF SseInv, SseTypeOK
  <2>3. wait' \in Nat /\ elapsed' \in Nat
    BY <2>1, <2>2
  <2>4. stage = "answer" => elapsed' + wait' = elapsed + wait
    BY <2>1, <2>2
  <2> QED  BY <2>1, <2>3, <2>4 DEF SseInv, SseTypeOK
<1>5. CASE PostStreams
  <2>1. /\ stage = "posting" /\ stage' = "reading"
        /\ UNCHANGED <<reader, hops, queue, elapsed, wait, result, offered, answered>>
    BY <1>5 DEF PostStreams
  <2> QED  BY <2>1 DEF SseInv, SseTypeOK
<1> QED
  BY <1>1, <1>2, <1>3, <1>4, <1>5 DEF Post

LEMMA SseInductive == SseSpec => []SseInv
<1>1. SseInit => SseInv
  BY InitSse
<1>2. SseInv /\ [SseNext]_sseVars => SseInv'
  <2> SUFFICES ASSUME SseInv, [SseNext]_sseVars PROVE SseInv'
    OBVIOUS
  <2>1. CASE UNCHANGED sseVars
    BY <2>1 DEF sseVars, SseInv, SseTypeOK
  <2>2. CASE SseNext
    BY <2>2, ReaderSse, WaitsSse, RestSse DEF SseNext
  <2> QED  BY <2>1, <2>2
<1> QED
  BY <1>1, <1>2, PTL DEF SseSpec, SseSafeSpec

\* The types; and no wait goes on when nothing is waited for.
THEOREM SseTypeCorrect == SseSpec => []SseTypeOK
<1>1. SseInv => SseTypeOK
  BY DEF SseInv
<1> QED
  BY <1>1, SseInductive, PTL

\* Whatever else the server sends, the wait for the answer is over less than MinWait after the
\* deadline.
THEOREM DeadlinesHold == SseSpec => []DeadlineHolds
<1>1. SseInv => DeadlineHolds
  <2> SUFFICES ASSUME SseInv, stage = "answer" PROVE elapsed < Timeout + MinWait
    BY DEF DeadlineHolds
  <2>1. elapsed \in Nat /\ wait \in Nat
    BY Zenon DEF SseInv, SseTypeOK
  <2>2. elapsed + wait < Timeout + MinWait
    BY Zenon DEF SseInv
  <2> QED  BY <2>1, <2>2, SseConstants
<1> QED
  BY <1>1, SseInductive, PTL

\* What is returned is the server's answer to this request.
THEOREM AnswersAreOwn == SseSpec => []AnswerIsOwn
<1>1. SseInv => AnswerIsOwn
  BY DEF SseInv, AnswerIsOwn
<1> QED
  BY <1>1, SseInductive, PTL
=============================================================================
