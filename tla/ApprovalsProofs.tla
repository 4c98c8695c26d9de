-------------------------- MODULE ApprovalsProofs --------------------------
(***************************************************************************)
(* Theorems about Approvals, for every set of requests, both providers or  *)
(* fewer, and every bound on the queued updates.                           *)
(***************************************************************************)
EXTENDS Approvals, TLAPS

AnswersAccepted == \A r \in Requests : answer[r] # "none" => answer[r] \in accepted[r]

UpdatesAccepted ==
    \A p \in Configured, r \in Requests :
        \A i \in 1..Len(updates[p][r]) : updates[p][r][i] \in accepted[r]

\* The inductive invariant.  PendingExact is what makes the rest inductive: an
\* answer can only change while the request is live or abandoned.
IInv == /\ TypeOK
        /\ PendingExact
        /\ AnswersAccepted
        /\ UpdatesAccepted
        /\ ScreenShowsAcceptedAnswer
        /\ ReleasedByStandingApproval

\* A manager that has just started satisfies the invariant.
LEMMA InitIInv == Init => IInv
  <1> SUFFICES ASSUME Init PROVE IInv
    OBVIOUS
  <1>1. TypeOK
    BY DEF Init, TypeOK, Decisions
  <1>2. PendingExact
    BY DEF Init, PendingExact, Live, Notifying, Waiting
  <1>3. AnswersAccepted /\ UpdatesAccepted
    BY DEF Init, AnswersAccepted, UpdatesAccepted
  <1>4. ScreenShowsAcceptedAnswer /\ ReleasedByStandingApproval
    BY DEF Init, ScreenShowsAcceptedAnswer, ReleasedByStandingApproval, Decisions
  <1> QED
    BY <1>1, <1>2, <1>3, <1>4 DEF IInv

\* The phases are pairwise disjoint sets of names.
LEMMA Phases == /\ Live = {"sending", "webhook", "waiting", "expired"}
                /\ "new" \notin Live /\ "abandoned" \notin Live
                /\ Live \cap Ended = {}
  BY DEF Live, Notifying, Waiting, Ended

\* Replacing one entry of a table of provider and request.
LEMMA PairUpdate ==
  ASSUME NEW S, NEW f \in [Configured -> [Requests -> S]], NEW p \in Configured,
         NEW r \in Requests, NEW v \in S
  PROVE  /\ [f EXCEPT ![p][r] = v] \in [Configured -> [Requests -> S]]
         /\ \A q \in Configured, s \in Requests :
               [f EXCEPT ![p][r] = v][q][s] = IF q = p /\ s = r THEN v ELSE f[q][s]
  <1> DEFINE row == [f[p] EXCEPT ![r] = v]
  <1>1. row \in [Requests -> S]
    OBVIOUS
  <1>2. [f EXCEPT ![p][r] = v] = [f EXCEPT ![p] = row]
    OBVIOUS
  <1>3. \A q \in Configured : [f EXCEPT ![p] = row][q] = IF q = p THEN row ELSE f[q]
    OBVIOUS
  <1>4. \A s \in Requests : row[s] = IF s = r THEN v ELSE f[p][s]
    OBVIOUS
  <1>5. [f EXCEPT ![p] = row] \in [Configured -> [Requests -> S]]
    BY <1>1
  <1> HIDE DEF row
  <1> QED
    BY <1>2, <1>3, <1>4, <1>5

-----------------------------------------------------------------------------
(* The two shapes of step.  A step of the coroutine or of a provider that   *)
(* leaves the answers alone, and an accepted answer.                        *)

\* An accepted answer of a request that has begun preserves the invariant, whatever
\* happens to the other variables it does not mention.
LEMMA ResolvePreserves ==
  ASSUME IInv, NEW r \in Requests, NEW d \in Decisions, Resolve(r, d),
         UNCHANGED <<pc, pending, sending, sent, screen>>,
         answering' \subseteq Requests \X Decisions
  PROVE  IInv'
  <1>1. CASE r \notin pending /\ UNCHANGED <<answer, updates, accepted>>
    BY <1>1 DEF IInv, TypeOK, PendingExact, AnswersAccepted, UpdatesAccepted,
                ScreenShowsAcceptedAnswer, ReleasedByStandingApproval
  <1>2. CASE r \in pending /\ Accept(r, d)
    <2> USE <1>2 DEF Accept
    <2>1. pc[r] \in Live \cup {"abandoned"}
      BY DEF IInv, PendingExact
    <2>2. TypeOK'
      BY DEF IInv, TypeOK, Decisions
    <2>3. PendingExact'
      BY DEF IInv, PendingExact
    <2>4. /\ accepted'[r] = accepted[r] \cup {d}
          /\ \A q \in Requests : accepted[q] \subseteq accepted'[q]
      BY DEF IInv, TypeOK
    <2>5. AnswersAccepted'
      BY <2>4 DEF IInv, TypeOK, AnswersAccepted
    <2>6. UpdatesAccepted'
      <3> SUFFICES ASSUME NEW p \in Configured, NEW q \in Requests,
                          NEW i \in 1..Len(updates'[p][q])
                   PROVE  updates'[p][q][i] \in accepted'[q]
        BY DEF UpdatesAccepted
      <3>1. updates[p][q] \in Seq(Decisions)
        BY DEF IInv, TypeOK
      <3>2. CASE q # r
        BY <3>1, <3>2, <2>4 DEF IInv, TypeOK, UpdatesAccepted
      <3>3. CASE q = r
        <4>1. updates'[p][q] = Append(updates[p][q], d)
          BY <3>3 DEF IInv, TypeOK
        <4>2. /\ Len(updates'[p][q]) = Len(updates[p][q]) + 1
              /\ updates'[p][q][i] = IF i \in 1..Len(updates[p][q])
                                     THEN updates[p][q][i] ELSE d
          BY <4>1, <3>1
        <4> QED
          BY <4>2, <3>3, <2>4 DEF IInv, UpdatesAccepted
      <3> QED
        BY <3>2, <3>3
    <2>7. ScreenShowsAcceptedAnswer'
      BY <2>4 DEF IInv, TypeOK, ScreenShowsAcceptedAnswer
    <2>8. ReleasedByStandingApproval'
      BY <2>1, <2>4, Phases DEF IInv, TypeOK, ReleasedByStandingApproval
    <2> QED
      BY <2>2, <2>3, <2>5, <2>6, <2>7, <2>8 DEF IInv
  <1> QED
    BY <1>1, <1>2 DEF Resolve

\* The finally clause of request(), on every way out of wait_for.
LEMMA LeavePreserves ==
  ASSUME IInv, NEW r \in Requests, NEW how \in Ended \ {"abandoned"}, Leave(r, how),
         how = "approved" => answer[r] = "approve"
  PROVE  IInv'
  <1> USE DEF Leave
  <1>1. TypeOK'
    BY DEF IInv, TypeOK
  <1>2. how \notin Live \cup {"abandoned"}
    BY Phases
  <1>3. PendingExact'
    BY <1>2 DEF IInv, TypeOK, PendingExact
  <1>4. ReleasedByStandingApproval'
    BY DEF IInv, TypeOK, AnswersAccepted, ReleasedByStandingApproval
  <1>5. AnswersAccepted' /\ UpdatesAccepted' /\ ScreenShowsAcceptedAnswer'
    BY DEF IInv, AnswersAccepted, UpdatesAccepted, ScreenShowsAcceptedAnswer
  <1> QED
    BY <1>1, <1>3, <1>4, <1>5 DEF IInv

\* A move of the coroutine that stays live or is abandoned keeps its entry.
LEMMA MovePreserves ==
  ASSUME IInv, NEW r \in Requests, NEW to \in Live \cup {"abandoned"},
         pc[r] \in Live, pc' = [pc EXCEPT ![r] = to],
         UNCHANGED <<pending, answer, sent, screen, answering, updates, accepted>>,
         sending' \in [Configured -> [Requests -> {"off", "posting", "delivered", "done"}]]
  PROVE  IInv'
  <1>1. TypeOK'
    BY Phases DEF IInv, TypeOK, Ended
  <1>2. PendingExact'
    BY DEF IInv, TypeOK, PendingExact
  <1>3. ReleasedByStandingApproval'
    BY Phases DEF IInv, TypeOK, ReleasedByStandingApproval
  <1>4. AnswersAccepted' /\ UpdatesAccepted' /\ ScreenShowsAcceptedAnswer'
    BY DEF IInv, AnswersAccepted, UpdatesAccepted, ScreenShowsAcceptedAnswer
  <1> QED
    BY <1>1, <1>2, <1>3, <1>4 DEF IInv

-----------------------------------------------------------------------------
\* Every step of request() itself.
LEMMA CoroutinePreserves ==
  ASSUME IInv, NEW r \in Requests, Coroutine(r)
  PROVE  IInv'
  <1>1. CASE Ask(r)
    <2> USE <1>1 DEF Ask, AfterProviders
    <2>1. TypeOK'
      BY Phases DEF IInv, TypeOK
    <2>2. pc'[r] \in Live
      BY Phases DEF IInv, TypeOK
    <2>3. PendingExact'
      BY <2>2 DEF IInv, TypeOK, PendingExact
    <2>4. ReleasedByStandingApproval'
      BY <2>2, Phases DEF IInv, TypeOK, ReleasedByStandingApproval
    <2>5. AnswersAccepted' /\ UpdatesAccepted' /\ ScreenShowsAcceptedAnswer'
      BY DEF IInv, AnswersAccepted, UpdatesAccepted, ScreenShowsAcceptedAnswer
    <2> QED
      BY <2>1, <2>3, <2>4, <2>5 DEF IInv
  <1>2. CASE ProvidersTold(r) \/ WebhookDone(r) \/ Expire(r) \/ CancelNotify(r)
    <2>1. sending' \in [Configured -> [Requests -> {"off", "posting", "delivered", "done"}]]
      BY <1>2 DEF IInv, TypeOK, ProvidersTold, WebhookDone, Expire, CancelNotify
    <2>2. PICK to \in Live \cup {"abandoned"} :
             pc[r] \in Live /\ pc' = [pc EXCEPT ![r] = to]
      BY <1>2, Phases DEF ProvidersTold, WebhookDone, Expire, CancelNotify,
                          AfterProviders, Notifying
    <2>3. UNCHANGED <<pending, answer, sent, screen, answering, updates, accepted>>
      BY <1>2 DEF ProvidersTold, WebhookDone, Expire, CancelNotify
    <2> QED
      BY <2>1, <2>2, <2>3, MovePreserves
  <1>3. CASE Wake(r)
    <2>1. Leave(r, IF answer[r] = "approve" THEN "approved" ELSE "denied")
      BY <1>3 DEF Wake
    <2> QED
      BY <2>1, LeavePreserves DEF Ended
  <1>4. CASE TimeOut(r)
    BY <1>4, LeavePreserves DEF TimeOut, Ended
  <1>5. CASE CancelWait(r)
    BY <1>5, LeavePreserves DEF CancelWait, Ended
  <1> QED
    BY <1>1, <1>2, <1>3, <1>4, <1>5 DEF Coroutine

\* Every step of a provider: the delivery of a message, its answer, on_resolved.
LEMMA ProviderPreserves ==
  ASSUME IInv, NEW r \in Requests, NEW p \in Configured, Provider(p, r)
  PROVE  IInv'
  <1>1. CASE Deliver(p, r) \/ SendOk(p, r) \/ SendFailed(p, r)
    <2> USE <1>1 DEF Deliver, SendOk, SendFailed
    <2>a. sending' \in [Configured -> [Requests -> {"off", "posting", "delivered", "done"}]]
      <3>1. \A to \in {"delivered", "done"} :
              [sending EXCEPT ![p][r] = to]
                \in [Configured -> [Requests -> {"off", "posting", "delivered", "done"}]]
        BY DEF IInv, TypeOK
      <3> QED
        BY <3>1
    <2>b. /\ screen' \in [Configured -> [Requests -> {"none", "buttons"} \cup Decisions]]
          /\ \A q \in Configured, s \in Requests :
                screen'[q][s] = screen[q][s] \/ screen'[q][s] = "buttons"
      <3>1. CASE UNCHANGED screen
        BY <3>1 DEF IInv, TypeOK
      <3>2. CASE screen' = [screen EXCEPT ![p][r] = "buttons"]
        BY <3>2, PairUpdate DEF IInv, TypeOK
      <3> QED
        BY <3>1, <3>2
    <2>c. sent' \subseteq Configured \X Requests
      BY DEF IInv, TypeOK
    <2>1. TypeOK'
      BY <2>a, <2>b, <2>c DEF IInv, TypeOK
    <2>2. PendingExact' /\ AnswersAccepted' /\ UpdatesAccepted' /\ ReleasedByStandingApproval'
      BY DEF IInv, PendingExact, AnswersAccepted, UpdatesAccepted, ReleasedByStandingApproval
    <2>3. ScreenShowsAcceptedAnswer'
      BY <2>b DEF IInv, TypeOK, ScreenShowsAcceptedAnswer, Decisions
    <2> QED
      BY <2>1, <2>2, <2>3 DEF IInv
  <1>2. CASE Update(p, r)
    <2> USE <1>2 DEF Update
    <2>1. updates[p][r] \in Seq(Decisions) /\ updates[p][r] # <<>>
      BY DEF IInv, TypeOK
    <2>2. /\ Head(updates[p][r]) = updates[p][r][1]
          /\ Tail(updates[p][r]) \in Seq(Decisions)
          /\ Len(Tail(updates[p][r])) = Len(updates[p][r]) - 1
          /\ 1 \in 1..Len(updates[p][r])
          /\ \A i \in 1..Len(Tail(updates[p][r])) :
                i + 1 \in 1..Len(updates[p][r]) /\ Tail(updates[p][r])[i] = updates[p][r][i + 1]
      BY <2>1
    <2>3. Head(updates[p][r]) \in Decisions /\ Head(updates[p][r]) \in accepted[r]
      BY <2>1, <2>2 DEF IInv, UpdatesAccepted
    <2>a. /\ updates' \in [Configured -> [Requests -> Seq(Decisions)]]
          /\ \A q \in Configured, s \in Requests :
                updates'[q][s] = IF q = p /\ s = r THEN Tail(updates[p][r]) ELSE updates[q][s]
      BY <2>2, PairUpdate DEF IInv, TypeOK
    <2>b. /\ screen' \in [Configured -> [Requests -> {"none", "buttons"} \cup Decisions]]
          /\ \A q \in Configured, s \in Requests :
                \/ screen'[q][s] = screen[q][s]
                \/ s = r /\ screen'[q][s] = Head(updates[p][r])
      <3>1. CASE UNCHANGED screen
        BY <3>1 DEF IInv, TypeOK
      <3>2. CASE screen' = [screen EXCEPT ![p][r] = Head(updates[p][r])]
        BY <3>2, <2>3, PairUpdate DEF IInv, TypeOK
      <3> QED
        BY <3>1, <3>2
    <2>4. TypeOK'
      BY <2>a, <2>b DEF IInv, TypeOK
    <2>5. PendingExact' /\ AnswersAccepted' /\ ReleasedByStandingApproval'
      BY DEF IInv, PendingExact, AnswersAccepted, ReleasedByStandingApproval
    <2>6. UpdatesAccepted'
      BY <2>2, <2>a DEF IInv, TypeOK, UpdatesAccepted
    <2>7. ScreenShowsAcceptedAnswer'
      BY <2>3, <2>b DEF IInv, TypeOK, ScreenShowsAcceptedAnswer
    <2> QED
      BY <2>4, <2>5, <2>6, <2>7 DEF IInv
  <1> QED
    BY <1>1, <1>2 DEF Provider

\* Every press and every REST decision.
LEMMA HumanPreserves ==
  ASSUME IInv, NEW r \in Requests, NEW d \in Decisions, Human(r, d)
  PROVE  IInv'
  <1>1. CASE PostDecision(r, d) \/ SlackPress(r, d) \/ TelegramResolve(r, d)
    <2>1. /\ Resolve(r, d)
          /\ UNCHANGED <<pc, pending, sending, sent, screen>>
          /\ answering' \subseteq Requests \X Decisions
      BY <1>1 DEF IInv, TypeOK, PostDecision, SlackPress, TelegramResolve
    <2> QED
      BY <2>1, ResolvePreserves
  <1>2. CASE TelegramPress(r, d)
    BY <1>2 DEF IInv, TypeOK, PendingExact, AnswersAccepted, UpdatesAccepted,
                ScreenShowsAcceptedAnswer, ReleasedByStandingApproval, TelegramPress
  <1> QED
    BY <1>1, <1>2 DEF Human

\* After a restart nobody waits, nothing is pending, and the history stands.
LEMMA RestartPreserves ==
  ASSUME IInv, Restart
  PROVE  IInv'
  <1> USE DEF Restart
  <1>1. \A r \in Requests : pc'[r] \notin Live \cup {"abandoned"}
    BY Phases DEF IInv, TypeOK, Ended
  <1>2. TypeOK'
    <2>1. pc' \in [Requests -> {"new"} \cup Live \cup Ended]
      BY DEF IInv, TypeOK, Ended
    <2>2. <<>> \in Seq(Decisions)
      OBVIOUS
    <2> QED
      BY <2>1, <2>2 DEF IInv, TypeOK
  <1>3. PendingExact'
    BY <1>1 DEF PendingExact
  <1>4. ReleasedByStandingApproval'
    BY DEF IInv, TypeOK, ReleasedByStandingApproval
  <1>5. AnswersAccepted' /\ ScreenShowsAcceptedAnswer'
    BY DEF IInv, AnswersAccepted, ScreenShowsAcceptedAnswer
  <1>6. UpdatesAccepted'
    BY DEF UpdatesAccepted
  <1> QED
    BY <1>2, <1>3, <1>4, <1>5, <1>6 DEF IInv

\* The invariant is inductive.
LEMMA NextIInv == IInv /\ [Next]_vars => IInv'
  <1> SUFFICES ASSUME IInv, [Next]_vars PROVE IInv'
    OBVIOUS
  <1>1. CASE Next
    BY <1>1, CoroutinePreserves, ProviderPreserves, HumanPreserves, RestartPreserves
       DEF Next
  <1>2. CASE UNCHANGED vars
    BY <1>2 DEF vars, IInv, TypeOK, PendingExact, AnswersAccepted, UpdatesAccepted,
                ScreenShowsAcceptedAnswer, ReleasedByStandingApproval
  <1> QED
    BY <1>1, <1>2

\* The invariant holds of every behaviour of the manager.
THEOREM Inductive == Spec => []IInv
  BY InitIInv, NextIInv, PTL DEF Spec, SafeSpec

\* Type correctness of ApprovalManager and the notifiers' tables.
THEOREM TypeCorrect == Spec => []TypeOK
  BY Inductive, PTL DEF IInv

\* _pending holds the live requests and those cancelled while notifying, no others.
THEOREM PendingIsExact == Spec => []PendingExact
  BY Inductive, PTL DEF IInv

\* No tool call is released except by an approval that resolve() accepted.
THEOREM ReleaseNeedsApproval == Spec => []ReleasedByStandingApproval
  BY Inductive, PTL DEF IInv

\* No chat message shows an outcome that resolve() refused.
THEOREM ScreensAreHonest == Spec => []ScreenShowsAcceptedAnswer
  BY Inductive, PTL DEF IInv

-----------------------------------------------------------------------------
(* An answer after the wait is refused *)

\* Nobody changes the answer of a request that is not in _pending.
LEMMA AnswerFrame ==
  ASSUME IInv, Next, NEW q \in Requests, q \notin pending
  PROVE  UNCHANGED <<answer[q], accepted[q]>>
  <1>1. ASSUME NEW r \in Requests, Coroutine(r)
        PROVE  UNCHANGED <<answer[q], accepted[q]>>
    BY <1>1 DEF Coroutine, Ask, ProvidersTold, WebhookDone, Wake, Expire, TimeOut,
                CancelWait, CancelNotify, Leave
  <1>2. ASSUME NEW r \in Requests, NEW p \in Configured, Provider(p, r)
        PROVE  UNCHANGED <<answer[q], accepted[q]>>
    BY <1>2 DEF Provider, Deliver, SendOk, SendFailed, Update
  <1>3. ASSUME NEW r \in Requests, NEW d \in Decisions, Human(r, d)
        PROVE  UNCHANGED <<answer[q], accepted[q]>>
    BY <1>3 DEF IInv, TypeOK, Human, PostDecision, SlackPress, TelegramPress,
                TelegramResolve, Resolve, Accept
  <1>4. CASE Restart
    BY <1>4 DEF Restart
  <1> QED
    BY <1>1, <1>2, <1>3, <1>4 DEF Next

\* Once a wait is over (but for a client that left during the notifications),
\* resolve() changes nothing about that request any more.
THEOREM LateAnswersRefused == Spec => NoAnswerAfterTheWait
  <1> DEFINE Frozen == \A r \in Requests : pc[r] \in Ended \ {"abandoned"} =>
                          UNCHANGED <<answer[r], accepted[r]>>
  <1>1. IInv /\ [Next]_vars => [Frozen]_vars
    <2> SUFFICES ASSUME IInv, Next PROVE Frozen
      OBVIOUS
    <2>1. \A r \in Requests : pc[r] \in Ended \ {"abandoned"} => r \notin pending
      BY Phases DEF IInv, PendingExact
    <2> QED
      BY <2>1, AnswerFrame
  <1> QED
    BY <1>1, Inductive, PTL DEF Spec, SafeSpec, NoAnswerAfterTheWait

-----------------------------------------------------------------------------
(* The manager implements the gate *)

stageBar == [r \in Requests |-> Stage(r)]
standingBar == [r \in Requests |-> Standing(r)]

\* A question that was not asked has no answer (so that opening it changes nothing
\* but its stage).
Unasked == \A r \in Requests : pc[r] = "new" => answer[r] = "none"

\* No step answers a request before it is asked.
LEMMA UnaskedInvariant == Spec => []Unasked
  <1>1. Init => Unasked
    BY DEF Init, Unasked
  <1>2. IInv /\ Unasked /\ [Next]_vars => Unasked'
    <2> SUFFICES ASSUME IInv, Unasked, [Next]_vars, NEW q \in Requests, pc'[q] = "new"
                 PROVE  answer'[q] = "none"
      BY DEF Unasked
    <2>1. CASE UNCHANGED vars
      BY <2>1 DEF vars, Unasked
    <2>2. CASE Next
      <3>1. pc[q] = "new"
        <4>1. ASSUME NEW r \in Requests, Coroutine(r)
              PROVE  pc[q] = "new"
          BY <4>1 DEF IInv, TypeOK, Coroutine, Ask, AfterProviders, ProvidersTold,
                      WebhookDone, Wake, Expire, TimeOut, CancelWait, CancelNotify, Leave
        <4>2. ASSUME NEW r \in Requests, NEW p \in Configured, Provider(p, r)
              PROVE  pc[q] = "new"
          BY <4>2 DEF Provider, Deliver, SendOk, SendFailed, Update
        <4>3. ASSUME NEW r \in Requests, NEW d \in Decisions, Human(r, d)
              PROVE  pc[q] = "new"
          BY <4>3 DEF Human, PostDecision, SlackPress, TelegramPress, TelegramResolve
        <4>4. CASE Restart
          BY <4>4 DEF IInv, TypeOK, Restart
        <4> QED
          BY <2>2, <4>1, <4>2, <4>3, <4>4 DEF Next
      <3>2. q \notin pending
        BY <3>1, Phases DEF IInv, PendingExact
      <3> QED
        BY <2>2, <3>1, <3>2, AnswerFrame DEF Unasked
    <2> QED
      BY <2>1, <2>2
  <1> QED
    BY <1>1, <1>2, Inductive, PTL DEF Spec, SafeSpec

\* An empty manager is an unopened gate.
LEMMA GateInitially == Init => Gate!GateInit
  BY DEF Init, Gate!GateInit, Stage, Standing, Live, Notifying, Waiting

\* What one step does to the abstract stage and standing answer of request r when it
\* leaves all the other requests alone.
LEMMA OnlyOne ==
  ASSUME IInv, NEW r \in Requests,
         \A q \in Requests \ {r} : pc'[q] = pc[q] /\ answer'[q] = answer[q]
  PROVE  /\ stageBar' = [stageBar EXCEPT ![r] = Stage(r)']
         /\ standingBar' = [standingBar EXCEPT ![r] = Standing(r)']
  <1>1. \A q \in Requests \ {r} : Stage(q)' = Stage(q) /\ Standing(q)' = Standing(q)
    BY DEF Stage, Standing
  <1> QED
    BY <1>1 DEF stageBar, standingBar

\* Each step opens, answers, releases or refuses, or leaves the gate as it is.
LEMMA GateStep == IInv /\ Unasked /\ [Next]_vars => [Gate!GateNext]_(Gate!gateVars)
  <1> SUFFICES ASSUME IInv, Unasked, Next
               PROVE  Gate!GateNext \/ UNCHANGED Gate!gateVars
    BY DEF vars, Gate!gateVars, Stage, Standing
  <1> DEFINE Steps(r) == \/ Gate!Open(r) \/ Gate!Answer(r) \/ Gate!Release(r)
                         \/ Gate!Refuse({r}) \/ UNCHANGED Gate!gateVars
  <1>s. \A r \in Requests : Steps(r) => Gate!GateNext \/ UNCHANGED Gate!gateVars
    BY DEF Gate!GateNext
  <1>1. ASSUME NEW r \in Requests, Coroutine(r)
        PROVE  Steps(r)
    <2>1. /\ stageBar' = [stageBar EXCEPT ![r] = Stage(r)']
          /\ standingBar' = [standingBar EXCEPT ![r] = Standing(r)']
      <3>1. \A q \in Requests \ {r} : pc'[q] = pc[q] /\ answer'[q] = answer[q]
        BY <1>1 DEF IInv, TypeOK, Coroutine, Ask, ProvidersTold, WebhookDone, Wake,
                    Expire, TimeOut, CancelWait, CancelNotify, Leave
      <3> QED
        BY <3>1, OnlyOne
    <2>2. CASE Ask(r)
      <3>1. /\ Stage(r) = "idle" /\ Stage(r)' = "open"
            /\ Standing(r) = "none" /\ Standing(r)' = "none"
        BY <2>2, Phases DEF IInv, TypeOK, Unasked, Ask, AfterProviders, Stage, Standing
      <3> QED
        BY <2>1, <3>1 DEF Gate!Open, stageBar, standingBar
    <2>3. CASE ProvidersTold(r) \/ WebhookDone(r) \/ Expire(r)
      <3>1. /\ Stage(r) = "open" /\ Stage(r)' = "open"
            /\ Standing(r)' = Standing(r)
        BY <2>3, Phases DEF IInv, TypeOK, ProvidersTold, WebhookDone, Expire,
                            AfterProviders, Stage, Standing
      <3> QED
        BY <2>1, <3>1 DEF Gate!gateVars, stageBar, standingBar
    <2>4. CASE Wake(r) /\ answer[r] = "approve"
      <3>1. /\ Stage(r) = "open" /\ Stage(r)' = "released"
            /\ Standing(r) = "approve" /\ Standing(r)' = "none"
        BY <2>4, Phases DEF IInv, TypeOK, Wake, Leave, Stage, Standing
      <3> QED
        BY <2>1, <3>1 DEF Gate!Release, stageBar, standingBar
    <2>5. CASE \/ Wake(r) /\ answer[r] # "approve"
               \/ TimeOut(r) \/ CancelWait(r) \/ CancelNotify(r)
      <3>1. /\ Stage(r) = "open" /\ Stage(r)' = "refused"
            /\ Standing(r)' = "none"
        BY <2>5, Phases DEF IInv, TypeOK, Wake, TimeOut, CancelWait, CancelNotify, Leave,
                            Notifying, Waiting, Stage, Standing
      <3> QED
        BY <2>1, <3>1 DEF Gate!Refuse, stageBar, standingBar
    <2> QED
      BY <1>1, <2>2, <2>3, <2>4, <2>5 DEF Coroutine
  <1>2. ASSUME NEW r \in Requests, NEW p \in Configured, Provider(p, r)
        PROVE  Steps(r)
    BY <1>2 DEF Provider, Deliver, SendOk, SendFailed, Update, Gate!gateVars, Stage, Standing
  <1>3. ASSUME NEW r \in Requests, NEW d \in Decisions, Human(r, d)
        PROVE  Steps(r)
    <2>1. CASE answer' = answer
      BY <1>3, <2>1 DEF Human, PostDecision, SlackPress, TelegramPress, TelegramResolve,
                        Gate!gateVars, Stage, Standing
    <2>2. CASE r \in pending /\ answer' = [answer EXCEPT ![r] = d] /\ UNCHANGED pc
      <3>1. /\ stageBar' = [stageBar EXCEPT ![r] = Stage(r)']
            /\ standingBar' = [standingBar EXCEPT ![r] = Standing(r)']
        <4>1. \A q \in Requests \ {r} : pc'[q] = pc[q] /\ answer'[q] = answer[q]
          BY <2>2 DEF IInv, TypeOK
        <4> QED
          BY <4>1, OnlyOne
      <3>2. CASE pc[r] \in Live
        <4>1. /\ Stage(r) = "open" /\ Stage(r)' = "open"
              /\ Standing(r)' = d
          BY <2>2, <3>2, Phases DEF IInv, TypeOK, Stage, Standing
        <4> QED
          BY <3>1, <4>1 DEF Gate!Answer, Gate!Decisions, Decisions, stageBar, standingBar
      <3>3. CASE pc[r] = "abandoned"
        <4>1. Stage(r)' = Stage(r) /\ Standing(r)' = Standing(r)
          BY <2>2, <3>3, Phases DEF Stage, Standing
        <4> QED
          BY <3>1, <4>1 DEF Gate!gateVars, stageBar, standingBar
      <3> QED
        BY <2>2, <3>2, <3>3 DEF IInv, PendingExact
    <2> QED
      BY <1>3, <2>1, <2>2 DEF Human, PostDecision, SlackPress, TelegramPress,
                              TelegramResolve, Resolve, Accept
  <1>4. CASE Restart
    <2> DEFINE open == {r \in Requests : Stage(r) = "open"}
    <2>1. \A r \in Requests : pc[r] \in Live <=> r \in open
      BY Phases DEF IInv, TypeOK, Stage
    <2>2. \A r \in Requests : /\ Stage(r)' = IF r \in open THEN "refused" ELSE Stage(r)
                              /\ Standing(r)' = IF r \in open THEN "none" ELSE Standing(r)
      BY <1>4, <2>1, Phases DEF IInv, TypeOK, Restart, Stage, Standing
    <2>3. /\ stageBar' = [r \in Requests |-> IF r \in open THEN "refused" ELSE stageBar[r]]
          /\ standingBar' = [r \in Requests |-> IF r \in open THEN "none" ELSE standingBar[r]]
      BY <2>2 DEF stageBar, standingBar
    <2>4. \A r \in open : stageBar[r] = "open"
      BY DEF stageBar
    <2>5. Gate!Refuse(open)
      BY <2>3, <2>4 DEF Gate!Refuse, stageBar, standingBar
    <2> QED
      BY <2>5 DEF Gate!GateNext
  <1> QED
    BY <1>1, <1>2, <1>3, <1>4, <1>s DEF Next

\* Every step of the manager is a step of the gate or leaves it as it is: the safety
\* half of ImplementsGate (its fairness stays with TLC).
THEOREM ManagerImplementsGate == Spec => Gate!GateSafe
  BY GateInitially, GateStep, Inductive, UnaskedInvariant, PTL
     DEF Spec, SafeSpec, Gate!GateSafe
=============================================================================
