------------------------------ MODULE Routing ------------------------------
(***************************************************************************)
(* How an http session of server.hpp answers one request: the dynamic      *)
(* routes, then the files of the public directory, then the error page     *)
(* (Http_Base::handle_request and the serve_ functions it calls).          *)
(*                                                                         *)
(* Everything here is an operator on                                       *)
(*   attr  the server's attributes: [http_dynamic, http_static, websocket, *)
(*         on_http_error : BOOLEAN, http_routes : a sequence of routes in  *)
(*         insertion order, websocket_routes : a sequence of sets of paths,*)
(*         files : the paths that open as files]                           *)
(*         a route is [paths : the paths its regex matches,                *)
(*                     methods : the methods with a callback, "any" for 0] *)
(*   req   the request: [method, path, query, wellformed, keep_alive,      *)
(*         upgrade]; query says whether the target carries "?...", and     *)
(*         wellformed whether it starts with "/" and has no ".."           *)
(*   cb    how the user's callback ends: it returns, throws a status       *)
(*         (int, unsigned or Status) or throws anything else               *)
(*   ecb   the same for on_http_error                                      *)
(* and the result is an outcome: the number of responses handed to send,   *)
(* the status of the last one, the route and the method entry whose        *)
(* callback ran, how often on_http_error ran, whether a file was sent and  *)
(* whether an exception escapes from the handler.                          *)
(***************************************************************************)
EXTENDS Integers, Sequences

Returns   == [ends |-> "returns", value |-> 0]
Throws(v) == [ends |-> "status", value |-> v]
Fails     == [ends |-> "exception", value |-> 0]

\* Faulty variant: an unknown exception has no status.
CaughtUnknown(cb) == IF cb.ends = "status" THEN cb.value ELSE -1

\* The value the chain of catch clauses turns an exception into.
Caught(cb) == IF cb.ends = "status" THEN cb.value ELSE 500

\* response::result(unsigned) throws std::invalid_argument above 999, and a
\* negative int becomes a large unsigned.
ValidStatus(v) == v \in 0..999

\* Nothing has been done with the request yet.
NoOutcome == [sends |-> 0, status |-> 0, route |-> 0, entry |-> "none",
              errors |-> 0, file |-> FALSE, escaped |-> FALSE]

\* The entry of a route's method table the request selects: 0 before its own method.
Entry(route, method) ==
    IF "any" \in route.methods THEN "any"
    ELSE IF method \in route.methods THEN method ELSE "none"

\* The routes that would take the request.
Matching(attr, req) ==
    {i \in 1..Len(attr.http_routes) :
        /\ Entry(attr.http_routes[i], req.method) # "none"
        /\ req.path \in attr.http_routes[i].paths}

\* Faulty variant: the last route registered wins.
LastOf(S) == CHOOSE i \in S : \A j \in S : j <= i

\* The routes are tried in the order they were registered in.
FirstOf(S) == CHOOSE i \in S : \A j \in S : i <= j

\* serve_dynamic: code is the function's return value, 0 when it has sent a response.
ServeDynamic(attr, req, cb) ==
    LET matching == Matching(attr, req)
        first    == FirstOf(matching)
        called   == [NoOutcome EXCEPT !.route = first,
                                      !.entry = Entry(attr.http_routes[first], req.method)]
    IN  IF ~attr.http_dynamic \/ matching = {}
        THEN [code |-> 404, outcome |-> NoOutcome]
        ELSE IF cb.ends = "returns"
        THEN [code |-> 0, outcome |-> [called EXCEPT !.sends = 1, !.status = 200]]
        ELSE [code |-> Caught(cb), outcome |-> called]

\* serve_static continues with the outcome so far; the file name is the whole
\* target, the query included, and no file's name has one.
ServeStatic(attr, req, outcome) ==
    IF /\ attr.http_static
       /\ req.method \in {"get", "head"}
       /\ req.path \in attr.files
       /\ ~req.query
    THEN [code |-> 0, outcome |-> [outcome EXCEPT !.sends = @ + 1, !.status = 200,
                                                  !.file = TRUE]]
    ELSE [code |-> 404, outcome |-> outcome]

\* serve_error: res.result(err) stands outside the try block, and the catch
\* clauses call it again with what on_http_error threw.
ServeError(attr, err, ecb, outcome) ==
    LET calls  == IF attr.on_http_error THEN 1 ELSE 0
        status == IF attr.on_http_error /\ ecb.ends # "returns" THEN Caught(ecb) ELSE err
    IN  IF ~ValidStatus(err)
        THEN [outcome EXCEPT !.escaped = TRUE]
        ELSE IF ~ValidStatus(status)
        THEN [outcome EXCEPT !.escaped = TRUE, !.errors = calls]
        ELSE [outcome EXCEPT !.sends = @ + 1, !.status = status, !.errors = calls]

\* Faulty variant: the return after serve_dynamic's success is missing.
HandleRequestNoReturn(attr, req, cb, ecb) ==
    LET dyna == ServeDynamic(attr, req, cb)
    IN  IF dyna.code # 404 THEN ServeError(attr, dyna.code, ecb, dyna.outcome)
        ELSE ServeStatic(attr, req, dyna.outcome).outcome

\* Faulty variant: a file hides every error of the route's callback.
HandleRequestFileFirst(attr, req, cb, ecb) ==
    LET dyna == ServeDynamic(attr, req, cb)
        stat == ServeStatic(attr, req, dyna.outcome)
    IN  IF dyna.code = 0 THEN dyna.outcome
        ELSE IF stat.code = 0 THEN stat.outcome
        ELSE ServeError(attr, dyna.code, ecb, stat.outcome)

\* handle_request: only a 404 of serve_dynamic leads on to serve_static.
HandleRequest(attr, req, cb, ecb) ==
    LET dyna == ServeDynamic(attr, req, cb)
        stat == ServeStatic(attr, req, dyna.outcome)
    IN  IF ~req.wellformed    THEN ServeError(attr, 404, ecb, NoOutcome)
        ELSE IF dyna.code = 0 THEN dyna.outcome
        ELSE IF dyna.code # 404 THEN ServeError(attr, dyna.code, ecb, dyna.outcome)
        ELSE IF stat.code = 0 THEN stat.outcome
        ELSE ServeError(attr, stat.code, ecb, stat.outcome)

\* The test in on_read and the loop of handle_websocket.
UpgradeAccepted(attr, req) ==
    /\ attr.websocket
    /\ \E i \in 1..Len(attr.websocket_routes) : req.path \in attr.websocket_routes[i]
=============================================================================
