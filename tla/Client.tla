------------------------------- MODULE Client -------------------------------
(***************************************************************************)
(* The http client (client.hpp): on_http queues requests, connect() starts *)
(* a session on the client's io_context and runs it until nothing is left  *)
(* to do.  The session resolves, connects, shakes hands if it uses ssl,    *)
(* and then writes the request at the front of the queue and reads its     *)
(* response until the queue is empty.                                      *)
(*                                                                         *)
(* One thread runs everything, so a handler with the callback it calls is  *)
(* one action.  The handler of a cancelled wait is queued when the session *)
(* starts to resolve and so runs before every other handler of the         *)
(* session.  A callback may queue one more request, and may throw          *)
(* (on_http_error does so when it was never set: bad_function_call); an    *)
(* exception leaves io_context::run and connect().  connect() on an empty  *)
(* queue returns 0 and changes nothing.  Calls of connect() from a         *)
(* callback are not modelled, nor is what follows front() on an empty      *)
(* queue, which is undefined.                                              *)
(***************************************************************************)
EXTENDS AsioTimer, Integers, Sequences

CONSTANTS
    Ssl,          \* the values of Attr::ssl considered
    Throwing,     \* whether callbacks may throw: a set of booleans
    TimeoutMax,   \* whether _timeout_max is set
    MaxRequests,  \* bound: requests that are queued in all
    MaxConnects,  \* bound: calls of connect()
    SizeModulus   \* 2^w for std::size_t, small

ASSUME SslAssumption == Ssl \subseteq BOOLEAN
ASSUME ThrowingAssumption == Throwing \subseteq BOOLEAN /\ FALSE \in Throwing
ASSUME TimeoutMaxAssumption == TimeoutMax \in BOOLEAN
ASSUME MaxRequestsAssumption == MaxRequests \in Nat
ASSUME MaxConnectsAssumption == MaxConnects \in Nat
ASSUME SizeModulusAssumption == SizeModulus \in Nat /\ SizeModulus > MaxRequests

VARIABLES
    ssl,         \* _attr->ssl
    que,         \* _attr->que: the numbers of the requests, in the order queued
    issued,      \* requests queued so far
    serialized,  \* how often params_serialize ran on each request
    sess,        \* the session of each call of connect(), see Session
    connects,    \* calls of connect() so far
    running,     \* connect() is inside io_context::run
    stopped,     \* the io_context is stopped: its run returns at once
    sizeBegin,   \* size_begin of the last connect()
    completed,   \* requests answered and removed during the last connect()
    returned,    \* the value the last connect() returned
    calls,       \* the on_http callbacks that ran: whose response, whose callback
    cut,         \* some connect() ended by an exception or by _timeout_max
    overlapped   \* some connect() began while an older session was alive

queueVars == <<que, issued, serialized>>
callVars  == <<sizeBegin, completed, returned>>
runVars   == <<running, stopped, cut>>
vars == <<ssl, queueVars, sess, connects, runVars, callVars, calls, overlapped>>

Numbers == 1..MaxRequests

Ops == {"resolve", "connect", "handshake", "write", "read", "shutdown"}

\* ops: operations pending; ctx: the request _ctx.req points at, 0 for none;
\* close: _close, which only Https uses.
Session == [ops : SUBSET Ops, timer : Timers, ctx : 0..MaxRequests, close : BOOLEAN]

NoSession == [ops |-> {}, timer |-> NewTimer, ctx |-> 0, close |-> FALSE]

Alive(s) == s.ops # {} \/ s.timer.wait # "none"

Quiet(sessions) == \A c \in 1..MaxConnects : ~Alive(sessions[c])

Init ==
    /\ ssl \in Ssl
    /\ que = <<>> /\ issued = 0 /\ serialized = [r \in Numbers |-> 0]
    /\ sess = [c \in 1..MaxConnects |-> NoSession]
    /\ connects = 0
    /\ running = FALSE /\ stopped = FALSE
    /\ sizeBegin = 0 /\ completed = 0 /\ returned = 0
    /\ calls = <<>>
    /\ cut = FALSE /\ overlapped = FALSE
-----------------------------------------------------------------------------
(* The steps the handlers share. *)

\* Faulty variant: the newest request is removed.
PoppedBack(q) == SubSeq(q, 1, Len(q) - 1)

\* pop_front.
Popped(q) == Tail(q)

\* on_http k times: emplace_back on q.
Queued(q, k) ==
    /\ issued + k <= MaxRequests
    /\ issued' = issued + k
    /\ que' = q \o [i \in 1..k |-> issued + i]

\* The end of a handler of session c, of which s is left: an exception leaves run(),
\* and the io_context is stopped when no work is left.
Return(c, s, throws) ==
    /\ sess' = [sess EXCEPT ![c] = s]
    /\ IF throws
       THEN running' = FALSE /\ cut' = TRUE /\ stopped' = Quiet(sess')
       ELSE UNCHANGED runVars

\* on_http_error, called last by every handler that calls it, with the queue at q.
OnHttpError(c, s, q) ==
    \E k \in 0..1, throws \in Throwing : Queued(q, k) /\ Return(c, s, throws)

\* Without op, the timer being set to expire immediately.
Failed(s, op) ==
    [s EXCEPT !.ops = @ \ {op}, !.timer = ExpiresAt(@, "min")]

\* Faulty variant: the request is not prepared, the last one is written again.
WriteAgain(s, q) ==
    [s EXCEPT !.ops = @ \cup {"write"}, !.timer = ExpiresAt(@, "later"),
              !.ctx = IF @ = 0 THEN Head(q) ELSE @]

\* do_write with the queue at q: prepare_request, restart the deadline, async_write.
DoWrite(s, q) ==
    [s EXCEPT !.ops = @ \cup {"write"}, !.timer = ExpiresAt(@, "later"), !.ctx = Head(q)]

\* prepare_request: params_serialize appends the parameters to the target.
Prepared(q) == serialized' = [serialized EXCEPT ![Head(q)] = @ + 1]

\* do_close: closes the socket of Http; Https begins a shutdown unless _close.
DoClose(s) ==
    IF ssl /\ ~s.close
    THEN [s EXCEPT !.close = TRUE, !.ops = @ \cup {"shutdown"}]
    ELSE s

\* Operation op of session c is pending and its handler can run.
Completes(c, op) ==
    /\ running /\ ~stopped
    /\ sess[c].timer.wait # "due"
    /\ op \in sess[c].ops

\* Faulty variant: run() ends when the queue is empty.
RunEndsWhenDrained == stopped \/ que = <<>>

\* io_context::run returns.
RunEnds == stopped \/ Quiet(sess)
-----------------------------------------------------------------------------
(* The caller of the client. *)

\* on_http between two calls of connect().
OnHttp ==
    /\ ~running
    /\ Queued(que, 1)
    /\ UNCHANGED <<ssl, serialized, sess, connects, runVars, callVars, calls, overlapped>>

\* connect() begins: run of the new session waits on the timer and resolves.
Connect ==
    LET s == [NoSession EXCEPT !.timer = ExpiresAt(AsyncWait(@), "later"),
                               !.ops = {"resolve"}, !.close = ssl]
    IN
    /\ ~running /\ que # <<>> /\ connects < MaxConnects
    /\ connects' = connects + 1
    /\ sess' = [sess EXCEPT ![connects + 1] = s]
    /\ overlapped' = (overlapped \/ ~Quiet(sess))
    /\ running' = TRUE
    /\ sizeBegin' = Len(que) /\ completed' = 0
    /\ UNCHANGED <<ssl, queueVars, stopped, cut, returned, calls>>

\* The same when Https::run cannot set the server's name: on_http_error at once,
\* before size_begin is read and outside of run().
ConnectNoName ==
    LET s == [NoSession EXCEPT !.timer = ExpiresAt(AsyncWait(@), "min"), !.close = TRUE]
    IN
    /\ ssl /\ ~running /\ que # <<>> /\ connects < MaxConnects
    /\ connects' = connects + 1
    /\ sess' = [sess EXCEPT ![connects + 1] = s]
    /\ overlapped' = (overlapped \/ ~Quiet(sess))
    /\ completed' = 0
    /\ \E k \in 0..1, throws \in Throwing :
            /\ Queued(que, k)
            /\ running' = ~throws /\ cut' = (cut \/ throws)
            /\ sizeBegin' = IF throws THEN sizeBegin ELSE Len(que')
    /\ UNCHANGED <<ssl, serialized, stopped, returned, calls>>

\* Faulty variant: the difference is a signed number.
SignedDifference(begin, end) == begin - end

\* size_begin - size_end.
Difference(begin, end) == (begin - end) % SizeModulus

\* run() is over: restart the io_context and return.
ConnectReturn ==
    /\ running /\ RunEnds
    /\ running' = FALSE /\ stopped' = FALSE
    /\ returned' = Difference(sizeBegin, Len(que))
    /\ UNCHANGED <<ssl, queueVars, sess, connects, cut, sizeBegin, completed, calls,
                   overlapped>>

\* run_until: _timeout_max has passed, whatever is pending stays so.
ConnectTimeout ==
    /\ TimeoutMax
    /\ running /\ ~RunEnds
    /\ running' = FALSE /\ cut' = TRUE
    /\ returned' = Difference(sizeBegin, Len(que))
    /\ UNCHANGED <<ssl, queueVars, sess, connects, stopped, sizeBegin, completed, calls,
                   overlapped>>
-----------------------------------------------------------------------------
(* The handlers of session c. *)

\* The deadline of a pending operation passes.
Elapse(c) ==
    /\ sess[c].ops # {} /\ sess[c].timer.expiry = "later"
    /\ sess' = [sess EXCEPT ![c].timer = Elapsed(@)]
    /\ UNCHANGED <<ssl, queueVars, connects, runVars, callVars, calls, overlapped>>

\* on_timer, whether the wait fired or was cancelled; it does not wait again.
OnTimer(c) ==
    LET s == [sess[c] EXCEPT !.timer = HandlerTaken(@)] IN
    /\ running /\ ~stopped /\ sess[c].timer.wait = "due"
    /\ sess' = [sess EXCEPT ![c] =
                    IF s.timer.expiry # "min" /\ HasExpired(s.timer) THEN DoClose(s) ELSE s]
    /\ UNCHANGED <<ssl, queueVars, connects, runVars, callVars, calls, overlapped>>

\* on_resolve, on_connect, on_handshake, on_write, on_read with an error.
OnFail(c) ==
    /\ \E op \in Ops \ {"shutdown"} :
            /\ Completes(c, op)
            /\ OnHttpError(c, Failed(sess[c], op), que)
    /\ UNCHANGED <<ssl, serialized, connects, callVars, calls, overlapped>>

\* on_resolve; on_connect of Https; on_write: the next operation.
OnStep(c) ==
    /\ \E step \in {<<"resolve", "connect">>, <<"write", "read">>}
                \cup (IF ssl THEN {<<"connect", "handshake">>} ELSE {}) :
            /\ Completes(c, step[1])
            /\ sess' = [sess EXCEPT ![c].ops = (@ \ {step[1]}) \cup {step[2]}]
    /\ UNCHANGED <<ssl, queueVars, connects, runVars, callVars, calls, overlapped>>

\* on_connect of Http; on_handshake of Https: the first request.
OnConnected(c) ==
    LET op == IF ssl THEN "handshake" ELSE "connect"
        s  == [sess[c] EXCEPT !.ops = @ \ {op}, !.close = FALSE]
    IN
    /\ Completes(c, op) /\ que # <<>>
    /\ sess' = [sess EXCEPT ![c] = DoWrite(s, que)]
    /\ Prepared(que)
    /\ UNCHANGED <<ssl, que, issued, connects, runVars, callVars, calls, overlapped>>

\* The callback of the request at the front runs on the response of request r.
Call(r) == calls' = Append(calls, [response |-> r, callback |-> Head(que)])

\* on_read: the callback throws, and its request stays in the queue.
OnReadThrow(c) ==
    /\ Completes(c, "read") /\ que # <<>>
    /\ TRUE \in Throwing
    /\ Call(sess[c].ctx)
    /\ \E k \in 0..1 : Queued(que, k)
    /\ Return(c, [sess[c] EXCEPT !.ops = @ \ {"read"}], TRUE)
    /\ UNCHANGED <<ssl, serialized, connects, callVars, overlapped>>

\* on_read: the request is removed after its callback; the next one is written.
OnReadNext(c) ==
    LET s == [sess[c] EXCEPT !.ops = @ \ {"read"}] IN
    /\ Completes(c, "read") /\ que # <<>>
    /\ Call(s.ctx)
    /\ \E k \in 0..1 : Queued(Popped(que), k)
    /\ que' # <<>>
    /\ sess' = [sess EXCEPT ![c] = DoWrite(s, que')]
    /\ Prepared(que')
    /\ completed' = completed + 1
    /\ UNCHANGED <<ssl, connects, runVars, sizeBegin, returned, overlapped>>

\* on_read: the last request is removed and the connection closed; if closing the
\* socket of Http fails, on_http_error is called.
OnReadLast(c) ==
    LET s == [sess[c] EXCEPT !.ops = @ \ {"read"}] IN
    /\ Completes(c, "read") /\ que # <<>>
    /\ Popped(que) = <<>>
    /\ Call(s.ctx)
    /\ \/ Queued(<<>>, 0) /\ Return(c, DoClose(s), FALSE)
       \/ ~ssl /\ OnHttpError(c, Failed(s, "read"), <<>>)
    /\ completed' = completed + 1
    /\ UNCHANGED <<ssl, serialized, connects, sizeBegin, returned, overlapped>>

\* Https::on_shutdown, with or without an error.
OnShutdown(c) ==
    /\ Completes(c, "shutdown")
    /\ sess' = [sess EXCEPT ![c] = Failed(@, "shutdown")]
    /\ UNCHANGED <<ssl, queueVars, connects, runVars, callVars, calls, overlapped>>

\* An operation of session c is over.
OnOperation(c) ==
    \/ OnFail(c) \/ OnStep(c) \/ OnConnected(c)
    \/ OnReadThrow(c) \/ OnReadNext(c) \/ OnReadLast(c)
    \/ OnShutdown(c)

Next ==
    \/ OnHttp \/ Connect \/ ConnectNoName \/ ConnectReturn \/ ConnectTimeout
    \/ \E c \in 1..MaxConnects : Elapse(c) \/ OnTimer(c) \/ OnOperation(c)

Spec == Init /\ [][Next]_vars

\* The io_context runs queued handlers and returns when there is nothing to do; the
\* clock advances.
LoopFairness ==
    /\ WF_vars(ConnectReturn)
    /\ \A c \in 1..MaxConnects : WF_vars(Elapse(c)) /\ WF_vars(OnTimer(c))

\* Every operation is completed by the network or the server, or fails.  The client
\* waits on no deadline, so this is an assumption on the environment.
ServerFairness == \A c \in 1..MaxConnects : WF_vars(OnOperation(c))

LoopSpec == Spec /\ LoopFairness
FairSpec == LoopSpec /\ ServerFairness
-----------------------------------------------------------------------------
\* Every variable holds a value of its kind.
TypeOK ==
    /\ ssl \in BOOLEAN
    /\ que \in Seq(Numbers) /\ issued \in 0..MaxRequests
    /\ serialized \in [Numbers -> Nat]
    /\ sess \in [1..MaxConnects -> Session]
    /\ connects \in 0..MaxConnects
    /\ running \in BOOLEAN /\ stopped \in BOOLEAN
    /\ cut \in BOOLEAN /\ overlapped \in BOOLEAN
    /\ sizeBegin \in 0..MaxRequests /\ completed \in Nat
    /\ returned \in 0..(SizeModulus - 1)
    /\ calls \in Seq([response : 0..MaxRequests, callback : Numbers])

\* A response is given to the callback of the request it answers, whatever callbacks
\* queue and throw, as long as no two sessions ever shared the queue (on_read runs
\* the callback of the front, not of the request it wrote).
RightCallback ==
    ~overlapped => \A i \in DOMAIN calls : calls[i].response = calls[i].callback

\* While a request is written or its response read it is the front of the queue:
\* _ctx.req does not dangle and front() is not called on an empty queue, though
\* callbacks add to the queue and on_read removes from it.
CtxIsFront ==
    ~overlapped =>
        \A c \in 1..MaxConnects : sess[c].ops \cap {"write", "read"} # {} =>
            que # <<>> /\ sess[c].ctx = Head(que)

\* Until some connect() is cut short, every request is answered once and in the
\* order queued, across as many calls of connect() as that takes.
AnsweredInOrder ==
    ~cut => /\ \A i \in DOMAIN calls : calls[i].callback = i
            /\ Len(calls) + Len(que) = issued

\* Between two calls of connect() nothing is pending and the io_context is ready to
\* run again, unless an exception or _timeout_max has cut a connect() short; so only
\* then can two sessions share the queue.
QuietBetween ==
    ~cut => ~overlapped /\ ~stopped /\ (running \/ Quiet(sess))

\* connect() returns, if every operation is completed in the end.
ConnectReturns == running ~> (~running \/ overlapped)

\* "save the number of completed requests": what connect() returns.
ReturnCountsCompleted == ~running /\ ~cut /\ connects > 0 => returned = completed

\* "serialize path and query parameters to the target": the target of a request is
\* its path with the parameters, so they are appended to it once.
SerializedOnce == \A r \in Numbers : serialized[r] <= 1
=============================================================================
