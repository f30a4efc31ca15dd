---------------------------- MODULE HttpSession ----------------------------
(***************************************************************************)
(* One http session of the server (server.hpp, class Http_Base and its two *)
(* derived classes, Http and Https): a chain of asynchronous operations on *)
(* one socket, each holding a shared_ptr to the session, whose handlers a  *)
(* strand runs one at a time.  A handler is one action, with everything it *)
(* calls.  The session is destroyed when no pending operation refers to it *)
(* any longer.  attr.ssl says which of the two classes the session has;    *)
(* what they override (run, do_timeout, do_shutdown) branches on it.       *)
(***************************************************************************)
EXTENDS AsioTimer, Routing

CONSTANTS
    Attrs,        \* the server configurations considered (struct Attr)
    Requests,     \* the requests a client may send
    Callbacks,    \* how the user's callbacks may end
    MaxRequests   \* bound: requests a client sends on one connection

ASSUME AttrsAssumption == \A a \in Attrs : a.ssl \in BOOLEAN
ASSUME MaxRequestsAssumption == MaxRequests \in Nat

VARIABLES
    attr,       \* the shared attributes, constant during the session
    started,    \* run() has been called
    timer,      \* _timer
    reads,      \* async_read operations pending
    writes,     \* async_write operations pending
    handshakes, \* Https: async_handshake operations pending
    shutdowns,  \* Https: async_shutdown operations pending
    closing,    \* _close: no handshake yet, or shutting down; Https only
    close,      \* need_eof of the response being written
    doomed,     \* the response was handed to a socket already shut down for sending
    sock,       \* _socket: "open", "shut" (for sending) or "moved" (to a Websocket)
    connects,   \* calls of on_http_connect, one per request handled
    answered,   \* responses written completely
    down        \* an exception left io_context::run: the server is gone

shutVars == <<sock, closing, shutdowns>>

httpVars == <<attr, started, timer, reads, writes, handshakes, shutVars, close, doomed,
          connects, answered, down>>

HttpInit ==
    /\ attr \in Attrs
    /\ started = FALSE /\ timer = NewTimer
    /\ reads = 0 /\ writes = 0 /\ handshakes = 0 /\ shutdowns = 0
    /\ closing = attr.ssl
    /\ close = FALSE /\ doomed = FALSE
    /\ sock = "open"
    /\ connects = 0 /\ answered = 0
    /\ down = FALSE

Alive == reads + writes + handshakes + shutdowns > 0 \/ timer.wait # "none"

Destroyed == started /\ ~Alive

\* Faulty variant: the timer is left alone.
NotCancelled(t) == t

\* cancel_timer on timer t.
CancelTimer(t) == ExpiresAt(t, "min")

\* do_read with the timer at t: restart the deadline, then read a request.
DoRead(t) ==
    /\ timer' = ExpiresAt(t, "later")
    /\ reads' = reads + 1

\* Faulty variant: the socket is closed altogether.
DoClose(t) ==
    /\ sock' = "closed"
    /\ timer' = CancelTimer(t)
    /\ UNCHANGED <<closing, shutdowns>>

\* do_shutdown with the timer at t: Http shuts the socket down, which fails on one
\* that was moved away; Https restarts the deadline and shuts the ssl stream down.
DoShutdown(t) ==
    /\ sock' = IF sock = "open" THEN "shut" ELSE sock
    /\ IF attr.ssl
       THEN timer' = ExpiresAt(t, "later") /\ closing' = TRUE /\ shutdowns' = shutdowns + 1
       ELSE timer' = CancelTimer(t) /\ UNCHANGED <<closing, shutdowns>>

\* do_timeout with the timer at t: Https gives up if it is "timed out on handshake or
\* shutdown", and else waits again, on a timer whose wait do_shutdown then cancels.
DoTimeout(t) ==
    IF ~attr.ssl THEN DoShutdown(t)
    ELSE IF closing THEN timer' = t /\ UNCHANGED shutVars
    ELSE DoShutdown(AsyncWait(ExpiresAt(t, "max")))

\* run: do_timer, then do_read or do_handshake, which cancels the wait just armed.
Run ==
    /\ ~started /\ ~down
    /\ started' = TRUE
    /\ IF attr.ssl
       THEN /\ timer' = ExpiresAt(AsyncWait(timer), "later")
            /\ handshakes' = handshakes + 1
            /\ UNCHANGED reads
       ELSE DoRead(AsyncWait(timer)) /\ UNCHANGED handshakes
    /\ UNCHANGED <<attr, writes, shutVars, close, doomed, connects, answered, down>>

\* Time passes the deadline.
Elapse ==
    /\ ~down /\ timer.expiry = "later"
    /\ timer' = Elapsed(timer)
    /\ UNCHANGED <<attr, started, reads, writes, handshakes, shutVars, close, doomed,
                   connects, answered, down>>

\* Faulty variant: the handler waits on the timer again, whatever its expiry.
OnTimerRearmed ==
    /\ ~down /\ timer.wait = "due"
    /\ timer' = AsyncWait(timer)
    /\ UNCHANGED <<attr, started, reads, writes, handshakes, shutVars, close, doomed,
                   connects, answered, down>>

\* on_timer, whether the wait fired or was cancelled; it does not wait again.
OnTimer ==
    /\ ~down /\ timer.wait = "due"
    /\ IF timer.expiry # "min" /\ HasExpired(timer)
       THEN DoTimeout(HandlerTaken(timer))
       ELSE timer' = HandlerTaken(timer) /\ UNCHANGED shutVars
    /\ UNCHANGED <<attr, started, reads, writes, handshakes, close, doomed, connects,
                   answered, down>>

\* Https::on_handshake: the first read.
OnHandshakeOk ==
    /\ ~down /\ handshakes > 0
    /\ handshakes' = handshakes - 1
    /\ closing' = FALSE
    /\ DoRead(timer)
    /\ UNCHANGED <<attr, started, writes, shutdowns, sock, close, doomed, connects,
                   answered, down>>

\* Https::on_handshake: any error; the session lets go.
OnHandshakeFail ==
    /\ ~down /\ handshakes > 0
    /\ handshakes' = handshakes - 1
    /\ UNCHANGED <<attr, started, timer, reads, writes, shutVars, close, doomed,
                   connects, answered, down>>

\* Https::on_shutdown, with or without an error.
OnShutdown ==
    /\ ~down /\ shutdowns > 0
    /\ shutdowns' = shutdowns - 1
    /\ timer' = CancelTimer(timer)
    /\ UNCHANGED <<attr, started, reads, writes, handshakes, sock, closing, close,
                   doomed, connects, answered, down>>

\* on_read: end_of_stream, the client has closed its side.
OnReadEnd ==
    /\ ~down /\ reads > 0
    /\ reads' = reads - 1
    /\ DoShutdown(timer)
    /\ UNCHANGED <<attr, started, writes, handshakes, close, doomed, connects, answered,
                   down>>

\* on_read: any other error, operation_aborted included.
OnReadError ==
    /\ ~down /\ reads > 0
    /\ reads' = reads - 1
    /\ UNCHANGED <<attr, started, timer, writes, handshakes, shutVars, close, doomed,
                   connects, answered, down>>

\* on_read of a websocket upgrade: the socket goes to the websocket, or is shut down.
OnReadUpgrade(req) ==
    /\ ~down /\ reads > 0
    /\ req.upgrade
    /\ reads' = reads - 1
    /\ IF UpgradeAccepted(attr, req)
       THEN /\ sock' = "moved" /\ timer' = CancelTimer(timer)
            /\ UNCHANGED <<closing, shutdowns>>
       ELSE DoShutdown(timer)
    /\ UNCHANGED <<attr, started, writes, handshakes, close, doomed, connects, answered,
                   down>>

\* send: every response handed to it starts an async_write.
SendResponse(outcome, req) ==
    /\ writes' = writes + outcome.sends
    /\ IF outcome.sends > 0
       THEN close' = ~req.keep_alive /\ doomed' = (sock # "open")
       ELSE UNCHANGED <<close, doomed>>

\* on_read of any other request: on_http_connect, handle_request, on_http_disconnect.
\* An exception that leaves handle_request leaves the event loop as well.
OnReadRequest(req, cb, ecb) ==
    LET outcome == HandleRequest(attr, req, cb, ecb) IN
    /\ ~down /\ reads > 0 /\ connects < MaxRequests
    /\ ~req.upgrade
    /\ reads' = reads - 1
    /\ connects' = connects + 1
    /\ SendResponse(outcome, req)
    /\ down' = outcome.escaped
    /\ UNCHANGED <<attr, started, timer, handshakes, shutVars, answered>>

\* Faulty variant: the end of the stream is not tested.
AfterWriteReads(t) == DoRead(t) /\ UNCHANGED shutVars

\* on_write with close_ set, else "read another request".
AfterWrite(t) ==
    IF close
    THEN DoShutdown(t) /\ UNCHANGED reads
    ELSE DoRead(t) /\ UNCHANGED shutVars

\* on_write: the response is out.
OnWriteOk ==
    /\ ~down /\ writes > 0 /\ ~doomed
    /\ writes' = writes - 1
    /\ answered' = answered + 1
    /\ AfterWrite(timer)
    /\ UNCHANGED <<attr, started, handshakes, close, doomed, connects, down>>

\* on_write: any error; the session lets go.
OnWriteError ==
    /\ ~down /\ writes > 0
    /\ writes' = writes - 1
    /\ UNCHANGED <<attr, started, timer, reads, handshakes, shutVars, close, doomed,
                   connects, answered, down>>

OnHttpRead ==
    \/ OnReadEnd
    \/ OnReadError
    \/ \E req \in Requests : OnReadUpgrade(req)
    \/ \E req \in Requests, cb, ecb \in Callbacks : OnReadRequest(req, cb, ecb)

OnHttpWrite == OnWriteOk \/ OnWriteError

OnHandshake == OnHandshakeOk \/ OnHandshakeFail

HttpNext == Run \/ Elapse \/ OnTimer \/ OnHandshake \/ OnHttpRead \/ OnHttpWrite \/ OnShutdown

HttpSpec == HttpInit /\ [][HttpNext]_httpVars

\* The io_context runs queued handlers; the clock advances.
TimerFairness == WF_httpVars(OnTimer) /\ WF_httpVars(Elapse)
HttpLoopFairness == WF_httpVars(Run) /\ TimerFairness

\* The peer, or the network on its behalf, does not stall a write or a shutdown for
\* ever.  The code sets no deadline on them: this is assumed of the environment.
HttpPeerFairness == WF_httpVars(OnHttpWrite) /\ WF_httpVars(OnShutdown)

HttpLoopSpec == HttpSpec /\ HttpLoopFairness
HttpFairSpec == HttpLoopSpec /\ HttpPeerFairness
-----------------------------------------------------------------------------
\* Every variable holds a value of its kind.
HttpTypeOK ==
    /\ attr \in Attrs
    /\ started \in BOOLEAN /\ close \in BOOLEAN /\ doomed \in BOOLEAN /\ down \in BOOLEAN
    /\ closing \in BOOLEAN
    /\ timer \in Timers
    /\ reads \in Nat /\ writes \in Nat /\ handshakes \in Nat /\ shutdowns \in Nat
    /\ sock \in {"open", "shut", "moved"}
    /\ connects \in 0..MaxRequests /\ answered \in Nat

\* The request object, the read buffer and the response are single members that
\* do_read resets, so at most one operation may be using them: a read or a write,
\* never both and never two, nor one of them during the handshake (do_read, send,
\* on_write, on_handshake).
OneOperation == reads + writes + handshakes <= 1

\* While a request is being read every earlier one has been answered; while a
\* response is being written exactly one request waits for it.  No request is
\* skipped, none is answered twice and none overtakes another on the connection.
Lockstep ==
    /\ reads > 0 => answered = connects
    /\ writes > 0 => connects = answered + 1

\* A session whose socket was moved to a websocket is finished with it: it has no
\* operation of its own pending on the connection, and a timer that can no longer lead
\* to do_timeout, however late its handler runs.  "check if socket has been upgraded or
\* closed" (on_timer), "the timer has closed the socket" (on_read): the code takes a
\* session for either upgraded or timed out, but an ssl session that timed out may still
\* be upgraded, with its async_shutdown pending on the stream that is moved.
UpgradeHandsOver ==
    sock = "moved" =>
        reads + writes + handshakes + shutdowns = 0 /\ timer.expiry = "min"

\* What holds of it: no read, write or handshake and no live timer is left behind with
\* ssl either, and a plain session has nothing at all pending (handle_websocket,
\* cancel_timer, do_shutdown).
UpgradeLeavesNoReader ==
    sock = "moved" =>
        /\ reads + writes + handshakes = 0 /\ timer.expiry = "min"
        /\ ~attr.ssl => shutdowns = 0

\* After a response that needs the end of the stream no request is read: not while
\* it is written, not when it is out, not when writing it failed (on_write, close_).
LastResponseIsLast == close => reads = 0

\* The detailed session implements the promise of HttpExchange.
stage == IF down THEN "closed"
         ELSE IF ~started \/ reads > 0 \/ handshakes > 0 THEN "idle"
         ELSE IF writes > 0 THEN "busy" ELSE "closed"

Exchange == INSTANCE HttpExchange WITH received <- connects

\* The connection takes and answers requests as HttpExchange allows.
ImplementsExchange == Exchange!ExchangeSpec

\* Every request a session has taken is answered, or the session ends: none is
\* kept for ever without either (given a peer that does not stall its writes).
RequestSettles == (connects > answered) ~> (connects = answered \/ Destroyed \/ down)

\* "socket timeout" (struct Attr), "the timer has closed the socket" (on_read and
\* on_handshake): a deadline that passes while a request or a handshake is awaited
\* does not leave the socket as it is.
Overdue == timer.expiry = "passed" /\ (reads > 0 \/ handshakes > 0) /\ sock = "open"

IdleTimesOut == Overdue ~> ~Overdue
=============================================================================
