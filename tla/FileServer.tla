----------------------------- MODULE FileServer -----------------------------
(***************************************************************************)
(* The file server of file_server.hpp: listen(), which opens the listener  *)
(* and runs the io_context on a pool of threads, the accept loop, the wait *)
(* for a signal, and the sessions (Http_Base, Http, Https), whose          *)
(* serve_error writes every error page to one and the same file.           *)
(*                                                                         *)
(* A handler is one action, but for on_read when it comes to an error page:*)
(* other threads may run between serve_error's steps on the file, which    *)
(* are actions of the thread that runs it.  What a session does alone, its *)
(* timer included, is the subject of HttpSession; here a timer's only      *)
(* effect, a socket shut for sending, is one more reason a write may fail. *)
(***************************************************************************)
EXTENDS FiniteSets

CONSTANTS
    Threads,   \* threads that may run the io_context
    Main,      \* the thread that calls listen()
    NoThread,
    Sessions,  \* connections that may be accepted
    Statuses,  \* status codes an error page may name; all pages are of one length
    Ssl        \* whether the server may be Https

ASSUME ThreadsAssumption == Main \in Threads /\ NoThread \notin Threads
ASSUME StatusesAssumption ==
    Statuses \cap {"ok", "none", "empty", "whole", "short"} = {}
ASSUME SslAssumption == Ssl \subseteq BOOLEAN

VARIABLES
    ssl,       \* attr->ssl
    main,      \* listen(): "idle", "running", "returned", "threw", or the
               \* process is "terminated"
    pool,      \* the threads of this call of listen()
    inside,    \* those of them that are in io_context::run
    stopped,   \* the io_context: "no", stopped by a "signal"'s callback, or "idle"
    acceptor,  \* "closed", "listening", or "unbound": open, but a later call failed
    accepting, \* an async_accept is pending
    waiting,   \* _signals.async_wait is pending
    at,        \* of each session, the operation pending or serve_error's next step
    worker,    \* the thread inside serve_error for the session
    close,     \* need_eof of the response being written
    status,    \* _ctx.res.result(): "ok" or the error the page has to name
    body,      \* the page: "none", the size at open() ("empty" or "whole"), what was sent
    clean,     \* history: nothing has interfered with the page since it was begun
    page       \* the file err_file: "none" (no such file), "empty" or the status it names

listenVars == <<main, pool, inside, acceptor, accepting, waiting>>
pageVars   == <<worker, close, status, body, clean, page>>

vars == <<ssl, listenVars, stopped, at, pageVars>>

\* Steps of serve_error in the order they are taken, from the ofstream on.
PageSteps == {"truncate", "fill", "open", "send"}

Pending == {"handshake", "read", "write", "shutdown"}

Init ==
    /\ ssl \in Ssl
    /\ main = "idle" /\ pool = {} /\ inside = {} /\ stopped = "no"
    /\ acceptor = "closed" /\ accepting = FALSE
    /\ waiting \in BOOLEAN
    /\ at = [s \in Sessions |-> "new"]
    /\ worker = [s \in Sessions |-> NoThread]
    /\ close = [s \in Sessions |-> FALSE]
    /\ status = [s \in Sessions |-> "ok"]
    /\ body = [s \in Sessions |-> "none"]
    /\ clean = [s \in Sessions |-> FALSE]
    /\ page \in Statuses \cup {"none"}

\* A thread that is waiting for a handler to run.
Free(t) == t \in inside /\ \A s \in Sessions : worker[s] # t

\* The io_context starts handlers.
Dispatching == main = "running" /\ stopped = "no" /\ \E t \in Threads : Free(t)

\* The io_context has nothing to wait for.
NoWork == /\ ~accepting /\ ~waiting
          /\ \A s \in Sessions : at[s] \in {"new", "gone"}
-----------------------------------------------------------------------------
\* listen: the listener's constructor may fail at any of its calls, and only a
\* failed open leaves the acceptor closed, which is what run() looks at.
Listen ==
    /\ main = "idle" /\ main' = "running"
    /\ pool' \in {p \in SUBSET Threads : Main \in p}
    /\ inside' = pool'
    /\ acceptor' \in {"closed", "unbound", "listening"}
    /\ accepting' = (acceptor' # "closed")
    /\ UNCHANGED <<ssl, waiting, stopped, at, pageVars>>

\* The first operation of Http::run and Https::run.
Run == IF ssl THEN "handshake" ELSE "read"

\* Faulty variant: an error ends the accept loop.
DoAcceptUnlessFailed(accepted) == accepting' = accepted

\* do_accept, after a connection and after an error alike.
DoAccept(accepted) == accepting' = TRUE

\* Listener::on_accept.
OnAccept ==
    /\ Dispatching /\ accepting
    /\ \/ /\ acceptor = "listening"
          /\ \E s \in Sessions : at[s] = "new" /\ at' = [at EXCEPT ![s] = Run]
          /\ DoAccept(TRUE)
       \/ /\ UNCHANGED at
          /\ DoAccept(FALSE)
    /\ UNCHANGED <<ssl, main, pool, inside, acceptor, waiting, stopped, pageVars>>

\* The wait of on_signal; the callback may stop the io_context, as the examples do.
OnSignal ==
    /\ Dispatching /\ waiting
    /\ waiting' = FALSE
    /\ stopped' \in {"signal", "no"}
    /\ UNCHANGED <<ssl, main, pool, inside, acceptor, accepting, at, pageVars>>

\* io_context::run returns on a thread when it is stopped or out of work, which
\* stops it for the other threads.
Leave(t) ==
    /\ main = "running" /\ Free(t)
    /\ stopped # "no" \/ NoWork
    /\ inside' = inside \ {t}
    /\ stopped' = IF stopped = "no" THEN "idle" ELSE stopped
    /\ UNCHANGED <<ssl, main, pool, acceptor, accepting, waiting, at, pageVars>>

\* Faulty variant: the threads of the pool are not joined.
JoinedMain == Main \notin inside

\* Every thread has left run(), so that each join() returns.
Joined == inside = {}

\* The end of listen.
Return ==
    /\ main = "running" /\ Joined
    /\ main' = "returned"
    /\ UNCHANGED <<ssl, pool, inside, acceptor, accepting, waiting, stopped, at, pageVars>>

\* The response is gone: do_read starts from an empty _ctx, or the session has ended.
Forget(s) ==
    /\ close' = [close EXCEPT ![s] = FALSE]
    /\ status' = [status EXCEPT ![s] = "ok"]
    /\ body' = [body EXCEPT ![s] = "none"]
    /\ clean' = [clean EXCEPT ![s] = FALSE]

\* An exception leaves io_context::run on thread t with the handler of session s:
\* nothing catches it on a thread of the pool, and on the thread of listen() the
\* unwinding destroys threads that are not joined.
Escape(t, s) ==
    /\ main' = IF pool = {Main} THEN "threw" ELSE "terminated"
    /\ inside' = inside \ {t}
    /\ at' = [at EXCEPT ![s] = "gone"]
    /\ worker' = [worker EXCEPT ![s] = NoThread]
    /\ Forget(s)
    /\ UNCHANGED <<ssl, pool, acceptor, accepting, waiting, stopped, page>>
-----------------------------------------------------------------------------
\* do_shutdown: only Https waits for an operation.
DoShutdown == IF ssl THEN "shutdown" ELSE "gone"

\* A handler that only moves its session on to the next operation.
Moves(s, from, to) ==
    /\ Dispatching /\ at[s] = from
    /\ at' = [at EXCEPT ![s] = to]
    /\ UNCHANGED <<ssl, listenVars, stopped, pageVars>>

OnHandshake(s) == Moves(s, "handshake", "read") \/ Moves(s, "handshake", "gone")

OnShutdown(s) == Moves(s, "shutdown", "gone")

\* The end of the stream, or an error.
OnReadEnd(s) == Moves(s, "read", DoShutdown) \/ Moves(s, "read", "gone")

\* The callback threw 0: handle_request takes the response for sent.
OnReadSilent(s) == Moves(s, "read", "gone")

\* A route, a file or on_http_error has a response, which is sent at once.
OnReadServed(s) ==
    /\ Dispatching /\ at[s] = "read"
    /\ at' = [at EXCEPT ![s] = "write"]
    /\ \E eof \in BOOLEAN : close' = [close EXCEPT ![s] = eof]
    /\ UNCHANGED <<ssl, listenVars, stopped, worker, status, body, clean, page>>

\* serve_error goes on to the page, with the code it was called with or the one
\* on_http_error threw.
OnReadError(t, s) ==
    /\ main = "running" /\ stopped = "no" /\ Free(t) /\ at[s] = "read"
    /\ at' = [at EXCEPT ![s] = "truncate"]
    /\ worker' = [worker EXCEPT ![s] = t]
    /\ \E eof \in BOOLEAN : close' = [close EXCEPT ![s] = eof]
    /\ \E e \in Statuses : status' = [status EXCEPT ![s] = e]
    /\ UNCHANGED <<ssl, listenVars, stopped, body, clean, page>>

\* response::result throws for the code that a callback threw.
OnReadThrow(t, s) ==
    /\ main = "running" /\ stopped = "no" /\ Free(t) /\ at[s] = "read"
    /\ Escape(t, s)

\* Session s has changed the file: the pages others are making are spoilt.
Touched(s) ==
    [q \in Sessions |-> IF q = s THEN at[s] = "truncate" \/ clean[s]
                        ELSE clean[q] /\ at[q] \notin PageSteps]

\* Thread t takes the step of serve_error for session s and comes to the next one.
Step(t, s, from, to) ==
    /\ main = "running" /\ worker[s] = t /\ at[s] = from
    /\ at' = [at EXCEPT ![s] = to]

\* The ofstream is constructed, which empties the file.  Nobody looks at whether it
\* could be opened: then nothing is written, and an older page stays.
Truncate(t, s) ==
    /\ \/ /\ Step(t, s, "truncate", "fill")
          /\ page' = "empty" /\ clean' = Touched(s)
       \/ /\ Step(t, s, "truncate", "open")
          /\ clean' = [clean EXCEPT ![s] = FALSE] /\ UNCHANGED page
    /\ UNCHANGED <<ssl, listenVars, stopped, worker, close, status, body>>

\* Faulty variant: the ofstream is not closed, its text is still in its buffer.
WrittenNever(s) == page

\* Faulty variant: the page is written before result() has the code.
WrittenEarly(s) == "ok"

\* What close() leaves in the file.
Written(s) == status[s]

\* The text is written when the ofstream is closed, if the file system can.
Fill(t, s) ==
    /\ Step(t, s, "fill", "open")
    /\ \/ page' = Written(s) /\ clean' = Touched(s)
       \/ UNCHANGED page /\ clean' = [clean EXCEPT ![s] = FALSE]
    /\ UNCHANGED <<ssl, listenVars, stopped, worker, close, status, body>>

\* file_body's open() finds out the size.
Open(t, s) ==
    /\ page # "none"
    /\ Step(t, s, "open", "send")
    /\ body' = [body EXCEPT ![s] = IF page = "empty" THEN "empty" ELSE "whole"]
    /\ UNCHANGED <<ssl, listenVars, stopped, worker, close, status, clean, page>>

\* Faulty variant: without a file, serve_error does not give up.
NoPageWaits(s) == at[s] = "truncate"

\* There may be no temporary directory; there may be no file to open, and one that
\* is there may not let itself be opened.
NoPage(s) == at[s] \in {"truncate", "open"}

\* serve_error throws, and nothing in on_read catches it.
PageThrow(t, s) ==
    /\ main = "running" /\ worker[s] = t /\ NoPage(s)
    /\ Escape(t, s)

\* send: async_write reads as many bytes as were counted when the file was opened.
SendPage(t, s) ==
    /\ Step(t, s, "send", "write")
    /\ body' = [body EXCEPT ![s] = IF @ = "empty" THEN "empty"
                                   ELSE IF page = "empty" THEN "short" ELSE page]
    /\ worker' = [worker EXCEPT ![s] = NoThread]
    /\ UNCHANGED <<ssl, listenVars, stopped, close, status, clean, page>>

\* on_write; a page that is shorter than promised cannot be written.
OnWrite(s) ==
    /\ Dispatching /\ at[s] = "write"
    /\ \/ /\ body[s] # "short"
          /\ at' = [at EXCEPT ![s] = IF close[s] THEN DoShutdown ELSE "read"]
       \/ at' = [at EXCEPT ![s] = "gone"]
    /\ Forget(s)
    /\ UNCHANGED <<ssl, listenVars, stopped, worker, page>>
-----------------------------------------------------------------------------
\* The thread goes on with the handler it runs.
Continue(t) ==
    \E s \in Sessions :
        \/ Truncate(t, s) \/ Fill(t, s) \/ Open(t, s) \/ SendPage(t, s)
        \/ PageThrow(t, s)

Next ==
    \/ Listen \/ Return
    \/ OnAccept \/ OnSignal
    \/ \E s \in Sessions :
           \/ OnHandshake(s) \/ OnShutdown(s)
           \/ OnReadEnd(s) \/ OnReadSilent(s) \/ OnReadServed(s)
           \/ OnWrite(s)
    \/ \E t \in Threads :
           \/ Leave(t) \/ Continue(t)
           \/ \E s \in Sessions : OnReadError(t, s) \/ OnReadThrow(t, s)

Spec == Init /\ [][Next]_vars

\* Threads run: a handler that has begun goes on, and run() and join() return when
\* they can.  Nothing is assumed of clients, connections or signals.
ThreadFairness ==
    /\ \A t \in Threads : WF_vars(Continue(t)) /\ WF_vars(Leave(t))
    /\ WF_vars(Return)

FairSpec == Spec /\ ThreadFairness
-----------------------------------------------------------------------------
\* Type correctness.
TypeOK ==
    /\ ssl \in BOOLEAN
    /\ main \in {"idle", "running", "returned", "threw", "terminated"}
    /\ pool \subseteq Threads /\ inside \subseteq pool
    /\ stopped \in {"no", "signal", "idle"}
    /\ acceptor \in {"closed", "unbound", "listening"}
    /\ accepting \in BOOLEAN /\ waiting \in BOOLEAN
    /\ at \in [Sessions -> {"new", "gone"} \cup Pending \cup PageSteps]
    /\ worker \in [Sessions -> Threads \cup {NoThread}]
    /\ close \in [Sessions -> BOOLEAN]
    /\ status \in [Sessions -> Statuses \cup {"ok"}]
    /\ body \in [Sessions -> Statuses \cup {"none", "empty", "whole", "short"}]
    /\ clean \in [Sessions -> BOOLEAN]
    /\ page \in Statuses \cup {"none", "empty"}

\* An error page that goes out names its own response's status, unless another
\* thread's error page or the file system came between: serve_error writes, closes
\* and opens err_file in an order in which its own page is there when it is counted
\* and when it is read.
PageNamesStatus ==
    \A s \in Sessions :
        at[s] = "write" /\ clean[s] /\ body[s] # "none" => body[s] = status[s]

\* When listen() comes back to its caller, by returning or by throwing, no thread is
\* left inside run() or in the middle of a handler: the server may be destroyed.
QuietReturn ==
    main \in {"returned", "threw"} =>
        inside = {} /\ \A s \in Sessions : worker[s] = NoThread

\* listen() returns only after a signal's callback stopped the io_context, whatever
\* connections and errors do, unless the acceptor could not even be opened.
BlocksUntilSignal ==
    main = "returned" => stopped = "signal" \/ acceptor = "closed"

\* After a signal's callback stopped the io_context, listen() ends, also when the
\* threads are in the middle of handlers and connections are open.
StopEndsListen == stopped = "signal" ~> main # "running"
=============================================================================
