---------------------------- MODULE McpClientSse ----------------------------
(***************************************************************************)
(* _sse_request (mcp_client.py): one request to a downstream MCP server    *)
(* over the SSE transport.  The request opens a task that reads the event  *)
(* stream into a queue, waits there for the endpoint event, posts, and     *)
(* waits there again for the answer.  Reader, server, timers and the       *)
(* caller, who may cancel, run concurrently; two requests share nothing.   *)
(*                                                                         *)
(* The server (external) may redirect, send any events in any order, stop, *)
(* or never stop.  Time passes in ticks, and timers fire when due.         *)
(***************************************************************************)
EXTENDS Naturals, Sequences

CONSTANTS Timeout,       \* how long the caller waits for the answer
          EndpointWait,  \* each wait for the endpoint event: 10 s
          MinWait,       \* the shortest wait for an event: 0.5 s
          MaxHops,       \* redirects followed: 5
          ProbeAnswers,  \* what the server may answer to the probing GET
          MaxQueue       \* bound: events waiting in the queue

ASSUME SseAssumption ==
    /\ {Timeout, EndpointWait, MinWait, MaxHops, MaxQueue} \subseteq Nat \ {0}
    /\ ProbeAnswers \subseteq {"redirect", "elsewhere", "whole", "open"}

VARIABLES reader,    \* where _stream stands
          hops,      \* redirects it has followed
          queue,     \* the asyncio.Queue; "end" stands for None
          stage,     \* where _sse_request stands
          elapsed,   \* ticks since the post, for the deadline
          wait,      \* ticks until the wait for the next event gives up
          result,    \* how it leaves its try block
          offered,   \* history: the server has sent its endpoint on the probed stream
          answered   \* history: the server has answered this request

sseVars == <<reader, hops, queue, stage, elapsed, wait, result, offered, answered>>

\* Kinds of events: the endpoint; a message with the id of this request; another message,
\* notification or text that is no JSON.
Events == {"endpoint", "answer", "other"}

Longer(m, n) == IF m >= n THEN m ELSE n

\* The types; and no wait goes on when nothing is waited for.
SseTypeOK ==
    /\ reader \in {"probing", "draining", "connecting", "streaming", "cancelled", "done"}
    /\ hops \in 0..MaxHops
    /\ queue \in Seq(Events \cup {"end"})
    /\ stage \in {"endpoint", "posting", "reading", "answer", "closing", "ended"}
    /\ elapsed \in Nat
    /\ wait \in Nat
    /\ result \in {"none", "answer", "no endpoint", "no answer", "closed", "error", "cancelled"}
    /\ offered \in BOOLEAN
    /\ answered \in BOOLEAN
    /\ wait > 0 => stage \in {"endpoint", "answer"}

SseInit ==
    /\ reader = "probing"
    /\ hops = 0
    /\ queue = <<>>
    /\ stage = "endpoint"
    /\ elapsed = 0
    /\ wait = EndpointWait
    /\ result = "none"
    /\ offered = FALSE
    /\ answered = FALSE

-----------------------------------------------------------------------------
(* The reader task, and the server it reads from *)

request == <<stage, elapsed, wait, result>>

\* The probing GET: a redirect to the same host is followed, another is not; any other
\* answer ends the probing, but the GET returns only with the whole of its body.
ProbeAnswered ==
    /\ reader = "probing"
    /\ \E a \in ProbeAnswers :
           CASE a = "redirect" -> /\ hops' = hops + 1
                                  /\ reader' = IF hops' = MaxHops THEN "connecting" ELSE "probing"
             [] a = "open"     -> reader' = "draining" /\ UNCHANGED hops
             [] OTHER          -> reader' = "connecting" /\ UNCHANGED hops
    /\ UNCHANGED <<queue, request, offered, answered>>

\* The body is an event stream: what it brings is not looked at until it ends.
OfferEndpoint ==
    /\ reader = "draining"
    /\ offered' = TRUE
    /\ UNCHANGED <<reader, hops, queue, request, answered>>

ProbeEnds ==
    /\ reader = "draining"
    /\ reader' = "connecting"
    /\ UNCHANGED <<hops, queue, request, offered, answered>>

Connected ==
    /\ reader = "connecting"
    /\ reader' = "streaming"
    /\ UNCHANGED <<hops, queue, request, offered, answered>>

\* The server can answer only what has been posted; it may do so more than once.
Receive(e) ==
    /\ reader = "streaming"
    /\ Len(queue) < MaxQueue
    /\ e = "answer" => stage \in {"posting", "reading", "answer"}
    /\ queue' = Append(queue, e)
    /\ answered' = (answered \/ e = "answer")
    /\ UNCHANGED <<reader, hops, request, offered>>

\* The stream ends or fails, or the cancelled task has unwound: finally puts None.
StreamOver ==
    /\ reader # "done"
    /\ reader' = "done"
    /\ queue' = Append(queue, "end")
    /\ UNCHANGED <<hops, request, offered, answered>>

-----------------------------------------------------------------------------
(* The request *)

\* Out of the try block, whatever the reason: the reader is cancelled.
Leave(how) ==
    /\ stage' = "closing"
    /\ result' = how
    /\ wait' = 0
    /\ reader' = IF reader = "done" THEN "done" ELSE "cancelled"
    /\ UNCHANGED <<elapsed, hops, offered, answered>>

HeadIs(e) == queue # <<>> /\ Head(queue) = e

\* (mutant) the wait for the endpoint goes on during the post.
TakeEndpointStillWaits ==
    /\ stage = "endpoint"
    /\ HeadIs("endpoint")
    /\ queue' = Tail(queue)
    /\ stage' = "posting"
    /\ UNCHANGED <<reader, hops, wait, elapsed, result, offered, answered>>

TakeEndpoint ==
    /\ stage = "endpoint"
    /\ HeadIs("endpoint")
    /\ queue' = Tail(queue)
    /\ stage' = "posting"
    /\ wait' = 0
    /\ UNCHANGED <<reader, hops, elapsed, result, offered, answered>>

\* Any other event is dropped, and the wait starts again.
SkipBeforeEndpoint ==
    /\ stage = "endpoint"
    /\ HeadIs("other")
    /\ queue' = Tail(queue)
    /\ wait' = EndpointWait
    /\ UNCHANGED <<reader, hops, stage, elapsed, result, offered, answered>>

\* The POST is answered with a body that the server keeps open and never leaves silent for
\* the 10 s of the timeout, which bounds each read of it.
PostStreams ==
    /\ stage = "posting"
    /\ stage' = "reading"
    /\ UNCHANGED <<reader, hops, queue, elapsed, wait, result, offered, answered>>

\* Any 2xx, and the body is over.  The deadline counts from here; the first wait is all of it.
Posted ==
    /\ stage \in {"posting", "reading"}
    /\ stage' = "answer"
    /\ elapsed' = 0
    /\ wait' = Longer(MinWait, Timeout)
    /\ UNCHANGED <<reader, hops, queue, result, offered, answered>>

\* Another status, a connection that breaks, or nothing to read in time.
PostFails == stage \in {"posting", "reading"} /\ Leave("error") /\ UNCHANGED queue

\* (mutant) any message is taken for the answer.
TakeAnyMessage ==
    /\ stage = "answer"
    /\ HeadIs("answer") \/ HeadIs("other")
    /\ queue' = Tail(queue)
    /\ Leave("answer")

TakeAnswer ==
    /\ stage = "answer"
    /\ HeadIs("answer")
    /\ queue' = Tail(queue)
    /\ Leave("answer")

\* (mutant) every event renews the wait.
SkipBeforeAnswerRenewed ==
    /\ stage = "answer"
    /\ HeadIs("other") \/ HeadIs("endpoint")
    /\ queue' = Tail(queue)
    /\ wait' = Timeout
    /\ elapsed' = 0
    /\ UNCHANGED <<reader, hops, stage, result, offered, answered>>

\* (mutant) the shortest wait is added to what remains.
SkipBeforeAnswerLonger ==
    /\ stage = "answer"
    /\ HeadIs("other") \/ HeadIs("endpoint")
    /\ queue' = Tail(queue)
    /\ IF elapsed >= Timeout THEN Leave("no answer")
       ELSE /\ wait' = MinWait + (Timeout - elapsed)
            /\ UNCHANGED <<reader, hops, stage, elapsed, result, offered, answered>>

\* Any other event is dropped, and the loop looks at the clock: past the deadline it ends,
\* before it the next wait is for what remains, though not for less than MinWait.
SkipBeforeAnswer ==
    /\ stage = "answer"
    /\ HeadIs("other") \/ HeadIs("endpoint")
    /\ queue' = Tail(queue)
    /\ IF elapsed >= Timeout THEN Leave("no answer")
       ELSE /\ wait' = Longer(MinWait, Timeout - elapsed)
            /\ UNCHANGED <<reader, hops, stage, elapsed, result, offered, answered>>

StreamClosed ==
    /\ stage \in {"endpoint", "answer"}
    /\ HeadIs("end")
    /\ queue' = Tail(queue)
    /\ Leave("closed")

\* wait_for gives up; when an event has come at the same moment either may win.
WaitExpires ==
    /\ stage \in {"endpoint", "answer"}
    /\ wait = 0
    /\ Leave(IF stage = "endpoint" THEN "no endpoint" ELSE "no answer")
    /\ UNCHANGED queue

\* The caller is cancelled.  While closing, the except clause swallows it: no action.
Cancel ==
    /\ stage \in {"endpoint", "posting", "reading", "answer"}
    /\ Leave("cancelled")
    /\ UNCHANGED queue

\* Closing waits for the task: after 2 s wait_for cancels it again and waits on.
Closed ==
    /\ stage = "closing"
    /\ reader = "done"
    /\ stage' = "ended"
    /\ UNCHANGED <<reader, hops, queue, elapsed, wait, result, offered, answered>>

Tick ==
    /\ stage \in {"endpoint", "answer"}
    /\ wait > 0
    /\ wait' = wait - 1
    /\ elapsed' = IF stage = "answer" THEN elapsed + 1 ELSE 0
    /\ UNCHANGED <<reader, hops, queue, stage, result, offered, answered>>
-----------------------------------------------------------------------------
Server == OfferEndpoint \/ ProbeEnds \/ Connected \/ \E e \in Events : Receive(e)
Skip   == SkipBeforeEndpoint \/ SkipBeforeAnswer
Take   == TakeEndpoint \/ TakeAnswer \/ StreamClosed
Post   == Posted \/ PostFails \/ PostStreams

SseNext == ProbeAnswered \/ Server \/ StreamOver \/ Skip \/ Take \/ Post
           \/ WaitExpires \/ Cancel \/ Closed \/ Tick

SseSafeSpec == SseInit /\ [][SseNext]_sseVars

\* The loop runs what is ready, time passes, the post has an answer or a timeout, but nothing
\* makes the body of that answer end, and a cancelled task unwinds.  The server owes nothing,
\* and nobody has to cancel.
Fairness == /\ WF_sseVars(Skip \/ Take \/ WaitExpires)
            /\ WF_sseVars(Tick)
            /\ WF_sseVars(stage = "posting" /\ Post)
            /\ WF_sseVars(reader = "cancelled" /\ StreamOver)
            /\ WF_sseVars(Closed)

SseSpec == SseSafeSpec /\ Fairness
-----------------------------------------------------------------------------
(* Properties *)

\* However many other events come, the wait for the answer is over less than MinWait after
\* the deadline.
DeadlineHolds == stage = "answer" => elapsed < Timeout + MinWait

\* What is returned is the server's answer to this very request: no event the server sent
\* before or besides it is taken for it.
AnswerIsOwn == result = "answer" => answered

\* A request ends, and leaves no task and no stream open, even if the server never stops
\* sending or the stream stays silent.  Two things can hold it up: events that keep coming
\* before the endpoint event, because each of them renews the wait, and a body of the POST's
\* answer that keeps coming, because the deadline counts only from its end.
RequestEnds ==
    \/ <>(stage = "ended" /\ reader = "done")
    \/ []<><<SkipBeforeEndpoint>>_sseVars
    \/ <>[](stage = "reading")

\* mcp_client.py:7 "sse   - persistent GET stream + session-scoped POST" and :62 "First
\* event: type=endpoint": a server that opens its stream and announces its endpoint gets
\* the request.  It does not when the stream persists, because the probing GET, which
\* comes first, reads it as a body that must end.
ServedIsPosted == result = "no endpoint" => ~offered
=============================================================================
