----------------------------- MODULE Approvals -----------------------------
(***************************************************************************)
(* ApprovalManager (approvals.py) with the Slack and Telegram notifiers    *)
(* and their CompositeNotifier (notifications.py).                         *)
(*                                                                         *)
(* One approval id per element of Requests.  Everything runs on one        *)
(* asyncio loop, so an action is the code between two suspension points.   *)
(* The coroutine of request() is pc[r]:                                    *)
(*   new -> sending -> webhook -> waiting -> approved | denied             *)
(*                                       \-> expired -> timedout           *)
(* and a cancelled client ends it in "abandoned" (while it was notifying,  *)
(* outside the try/finally) or in "cancelled" (inside wait_for).  A        *)
(* restart of the process loses it ("lost"): nothing is persisted.         *)
(***************************************************************************)
EXTENDS Naturals, Sequences

CONSTANTS Requests,      \* approval ids
          Slack, Telegram,  \* the two providers
          Configured,    \* those build_notifiers() was given: the composite's list
          Webhook,       \* is approval.webhook_url set?
          MaxUpdates     \* bound: on_resolved tasks queued per message

ASSUME ApprovalsAssumption ==
    /\ Slack # Telegram
    /\ Configured \subseteq {Slack, Telegram}
    /\ Webhook \in BOOLEAN
    /\ MaxUpdates \in Nat \ {0}

VARIABLES pc,        \* the coroutine of request(), per request
          pending,   \* the keys of ApprovalManager._pending
          answer,    \* PendingApproval.approved and .event: "none" until event.set()
          sending,   \* provider.send(): off, posting, delivered, done
          sent,      \* <<provider, request>> pairs in the providers' _sent
          screen,    \* the chat message: none, buttons, or the outcome it shows
          answering, \* Telegram presses inside _answer_callback
          updates,   \* on_resolved tasks not yet run, per provider and request
          accepted   \* history: every answer resolve() accepted

vars == <<pc, pending, answer, sending, sent, screen, answering, updates, accepted>>

Decisions == {"approve", "deny"}
Notifying == {"sending", "webhook"}
Waiting   == {"waiting", "expired"}
Live      == Notifying \cup Waiting
Ended     == {"approved", "denied", "timedout", "cancelled", "abandoned", "lost"}

TypeOK ==
    /\ pc \in [Requests -> {"new"} \cup Live \cup Ended]
    /\ pending \subseteq Requests
    /\ answer \in [Requests -> {"none"} \cup Decisions]
    /\ sending \in [Configured -> [Requests -> {"off", "posting", "delivered", "done"}]]
    /\ sent \subseteq Configured \X Requests
    /\ screen \in [Configured -> [Requests -> {"none", "buttons"} \cup Decisions]]
    /\ answering \subseteq Requests \X Decisions
    /\ updates \in [Configured -> [Requests -> Seq(Decisions)]]
    /\ accepted \in [Requests -> SUBSET Decisions]

Init ==
    /\ pc = [r \in Requests |-> "new"]
    /\ pending = {}
    /\ answer = [r \in Requests |-> "none"]
    /\ sending = [p \in Configured |-> [r \in Requests |-> "off"]]
    /\ sent = {}
    /\ screen = [p \in Configured |-> [r \in Requests |-> "none"]]
    /\ answering = {}
    /\ updates = [p \in Configured |-> [r \in Requests |-> <<>>]]
    /\ accepted = [r \in Requests |-> {}]

-----------------------------------------------------------------------------
(* request() and _notify() *)

\* Where _notify goes once the providers have been told.
AfterProviders == IF Webhook THEN "webhook" ELSE "waiting"

Ask(r) ==
    /\ pc[r] = "new"
    /\ pending' = pending \cup {r}
    /\ pc' = [pc EXCEPT ![r] = IF Configured = {} THEN AfterProviders ELSE "sending"]
    /\ sending' = [p \in Configured |-> [sending[p] EXCEPT ![r] = "posting"]]
    /\ UNCHANGED <<answer, sent, screen, answering, updates, accepted>>

\* The chat service shows the message; its HTTP answer is still on the way.
Deliver(p, r) ==
    /\ sending[p][r] = "posting"
    /\ sending' = [sending EXCEPT ![p][r] = "delivered"]
    /\ screen' = [screen EXCEPT ![p][r] = "buttons"]
    /\ UNCHANGED <<pc, pending, answer, sent, answering, updates, accepted>>

\* The answer arrives and the message is remembered in _sent.
SendOk(p, r) ==
    /\ sending[p][r] = "delivered"
    /\ sending' = [sending EXCEPT ![p][r] = "done"]
    /\ sent' = sent \cup {<<p, r>>}
    /\ UNCHANGED <<pc, pending, answer, screen, answering, updates, accepted>>

\* (mutant) no timeout on the POST: only an error answer ends it.
SendFailedNoTimeout(p, r) ==
    /\ sending[p][r] \in {"posting", "delivered"}
    /\ pc[r] = "abandoned"
    /\ sending' = [sending EXCEPT ![p][r] = "done"]
    /\ UNCHANGED <<pc, pending, answer, sent, screen, answering, updates, accepted>>

\* An error answer, an exception or 10 s of silence: logged, nothing remembered.
SendFailed(p, r) ==
    /\ sending[p][r] \in {"posting", "delivered"}
    /\ sending' = [sending EXCEPT ![p][r] = "done"]
    /\ UNCHANGED <<pc, pending, answer, sent, screen, answering, updates, accepted>>

\* CompositeNotifier's gather returns once every provider has.
ProvidersTold(r) ==
    /\ pc[r] = "sending"
    /\ \A p \in Configured : sending[p][r] = "done"
    /\ pc' = [pc EXCEPT ![r] = AfterProviders]
    /\ UNCHANGED <<pending, answer, sending, sent, screen, answering, updates, accepted>>

\* The webhook POST ended, well or badly (any Exception is logged and dropped).
WebhookDone(r) ==
    /\ pc[r] = "webhook"
    /\ pc' = [pc EXCEPT ![r] = "waiting"]
    /\ UNCHANGED <<pending, answer, sending, sent, screen, answering, updates, accepted>>

\* (mutant) the entry is popped only after a decision.
LeaveOnDecisionOnly(r, how) ==
    /\ pc' = [pc EXCEPT ![r] = how]
    /\ pending' = IF how \in {"approved", "denied"} THEN pending \ {r} ELSE pending
    /\ UNCHANGED <<answer, sending, sent, screen, answering, updates, accepted>>

\* The finally clause: the entry leaves _pending on every exit from wait_for.
Leave(r, how) ==
    /\ pc' = [pc EXCEPT ![r] = how]
    /\ pending' = pending \ {r}
    /\ UNCHANGED <<answer, sending, sent, screen, answering, updates, accepted>>

\* (mutant) whoever set the event is taken to have approved.
WakeAsApproved(r) ==
    /\ pc[r] = "waiting"
    /\ answer[r] # "none"
    /\ Leave(r, "approved")

\* wait_for returns: the decision is read only now.
Wake(r) ==
    /\ pc[r] = "waiting"
    /\ answer[r] # "none"
    /\ Leave(r, IF answer[r] = "approve" THEN "approved" ELSE "denied")

\* wait_for's timer fires before the event is set.  The coroutine has yet to
\* cancel the inner wait, and the entry is still in _pending.
Expire(r) ==
    /\ pc[r] = "waiting"
    /\ answer[r] = "none"
    /\ pc' = [pc EXCEPT ![r] = "expired"]
    /\ UNCHANGED <<pending, answer, sending, sent, screen, answering, updates, accepted>>

\* The inner wait is cancelled even if an answer came in since the timer fired.
TimeOut(r) ==
    /\ pc[r] = "expired"
    /\ Leave(r, "timedout")

\* The client goes away inside wait_for.  When the inner wait had completed,
\* Python 3.11's wait_for returns its result instead: that is Wake.
CancelWait(r) ==
    /\ pc[r] \in Waiting
    /\ Leave(r, "cancelled")

\* The client goes away during `await self._notify`, which is before the try:
\* the sends are cancelled and the entry stays in _pending.
CancelNotify(r) ==
    /\ pc[r] \in Notifying
    /\ pc' = [pc EXCEPT ![r] = "abandoned"]
    /\ sending' = [p \in Configured |-> [sending[p] EXCEPT ![r] = "off"]]
    /\ UNCHANGED <<pending, answer, sent, screen, answering, updates, accepted>>

-----------------------------------------------------------------------------
(* resolve() and its three callers *)

\* What resolve() does for an id it knows; it starts one on_resolved task.
Accept(r, d) ==
    /\ \A p \in Configured : Len(updates[p][r]) < MaxUpdates
    /\ answer' = [answer EXCEPT ![r] = d]
    /\ updates' = [p \in Configured |-> [updates[p] EXCEPT ![r] = Append(@, d)]]
    /\ accepted' = [accepted EXCEPT ![r] = @ \cup {d}]

\* (mutant) on_resolved is started before the id is looked up.
ResolveNotifiesFirst(r, d) ==
    IF r \in pending
    THEN Accept(r, d)
    ELSE /\ \A p \in Configured : Len(updates[p][r]) < MaxUpdates
         /\ updates' = [p \in Configured |-> [updates[p] EXCEPT ![r] = Append(@, d)]]
         /\ UNCHANGED <<answer, accepted>>

Resolve(r, d) ==
    \/ /\ r \in pending
       /\ Accept(r, d)
    \/ /\ r \notin pending          \* unknown or expired: False
       /\ UNCHANGED <<answer, updates, accepted>>

\* POST /approval/{id}: the id is in the log as soon as request() starts.
PostDecision(r, d) ==
    /\ pc[r] # "new"
    /\ Resolve(r, d)
    /\ UNCHANGED <<pc, pending, sending, sent, screen, answering>>

\* A button press in Slack: handle_interact resolves at once.
SlackPress(r, d) ==
    /\ Slack \in Configured
    /\ screen[Slack][r] = "buttons"
    /\ Resolve(r, d)
    /\ UNCHANGED <<pc, pending, sending, sent, screen, answering>>

\* A button press in Telegram: handle_update first awaits _answer_callback ...
TelegramPress(r, d) ==
    /\ Telegram \in Configured
    /\ screen[Telegram][r] = "buttons"
    /\ answering' = answering \cup {<<r, d>>}
    /\ UNCHANGED <<pc, pending, answer, sending, sent, screen, updates, accepted>>

\* ... and resolves when that HTTP call is over, in whatever order they end.
TelegramResolve(r, d) ==
    /\ <<r, d>> \in answering
    /\ answering' = answering \ {<<r, d>>}
    /\ Resolve(r, d)
    /\ UNCHANGED <<pc, pending, sending, sent, screen>>

\* on_resolved of one provider: pop _sent, and edit the message if it was there.
\* The edit may fail, which leaves the buttons.
Update(p, r) ==
    /\ updates[p][r] # <<>>
    /\ updates' = [updates EXCEPT ![p][r] = Tail(@)]
    /\ sent' = sent \ {<<p, r>>}
    /\ \/ /\ <<p, r>> \in sent
          /\ screen' = [screen EXCEPT ![p][r] = Head(updates[p][r])]
       \/ UNCHANGED screen
    /\ UNCHANGED <<pc, pending, answer, sending, answering, accepted>>

\* The process stops and starts again: a new ApprovalManager with an empty _pending,
\* new notifiers with an empty _sent.  What the chat services show stays as it is.
Restart ==
    /\ pc' = [r \in Requests |-> IF pc[r] \in Live \cup {"abandoned"} THEN "lost" ELSE pc[r]]
    /\ pending' = {}
    /\ sending' = [p \in Configured |-> [r \in Requests |-> "off"]]
    /\ sent' = {}
    /\ answering' = {}
    /\ updates' = [p \in Configured |-> [r \in Requests |-> <<>>]]
    /\ UNCHANGED <<answer, screen, accepted>>
-----------------------------------------------------------------------------
Provider(p, r) == Deliver(p, r) \/ SendOk(p, r) \/ SendFailed(p, r) \/ Update(p, r)

Coroutine(r) == \/ Ask(r) \/ ProvidersTold(r) \/ WebhookDone(r)
                \/ Wake(r) \/ Expire(r) \/ TimeOut(r)
                \/ CancelWait(r) \/ CancelNotify(r)

Human(r, d) == \/ PostDecision(r, d) \/ SlackPress(r, d)
               \/ TelegramPress(r, d) \/ TelegramResolve(r, d)

Next == \/ \E r \in Requests : \/ Coroutine(r)
                               \/ \E p \in Configured : Provider(p, r)
                               \/ \E d \in Decisions : Human(r, d)
        \/ Restart

SafeSpec == Init /\ [][Next]_vars

\* The loop runs what is ready, HTTP calls end (each read of them has a 10 s timeout, and a
\* chat service is taken not to keep one answer coming for ever) and the timer of wait_for
\* fires.  Nobody has to press a button, and no client has to leave.
Fairness ==
    \A r \in Requests :
        /\ WF_vars(ProvidersTold(r) \/ WebhookDone(r))
        /\ WF_vars(Wake(r) \/ Expire(r) \/ TimeOut(r))
        /\ \A p \in Configured : WF_vars(SendOk(p, r) \/ SendFailed(p, r))
        /\ \A p \in Configured : WF_vars(Update(p, r))
        /\ \A d \in Decisions : WF_vars(TelegramResolve(r, d))

Spec == SafeSpec /\ Fairness
-----------------------------------------------------------------------------
(* Properties *)

\* The keys of _pending are exactly the requests somebody still waits for, plus
\* those whose client left during _notify: every exit of wait_for (answer, timer,
\* cancellation) removes its entry, and no exit removes another's.
PendingExact == pending = {r \in Requests : pc[r] \in Live \cup {"abandoned"}}

\* A request comes back approved only on an approval resolve() accepted, and that
\* approval was not revoked before, nor is it after, the coroutine resumed.
ReleasedByStandingApproval ==
    \A r \in Requests :
        pc[r] = "approved" => answer[r] = "approve" /\ "approve" \in accepted[r]

\* resolve() tells nobody "True" about a request whose wait is over (answered,
\* timed out or cancelled in wait_for): the late press is refused.
NoAnswerAfterTheWait ==
    [][\A r \in Requests : pc[r] \in Ended \ {"abandoned"} =>
            UNCHANGED <<answer[r], accepted[r]>>]_vars

\* A chat message shows an outcome only if resolve() accepted that outcome, for all
\* orders of send, press and on_resolved: a refused press never repaints it.
ScreenShowsAcceptedAnswer ==
    \A p \in Configured, r \in Requests :
        screen[p][r] \in Decisions => screen[p][r] \in accepted[r]

\* request() always returns: providers that fail or hang, and humans who never
\* answer, hold a tool call only for a bounded time.
EveryRequestEnds == \A r \in Requests : pc[r] = "sending" ~> pc[r] \in Ended

\* The manager implements the abstract gate: an open question is a live request,
\* the standing answer is what its event carries.
Stage(r) == CASE pc[r] = "new" -> "idle"
              [] pc[r] \in Live -> "open"
              [] pc[r] = "approved" -> "released"
              [] OTHER -> "refused"
Standing(r) == IF pc[r] \in Live THEN answer[r] ELSE "none"

Gate == INSTANCE HumanGate WITH stage <- [r \in Requests |-> Stage(r)],
                                standing <- [r \in Requests |-> Standing(r)]
ImplementsGate == Gate!GateSpec
=============================================================================
