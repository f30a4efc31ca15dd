---------------------------- MODULE RoutedServer ----------------------------
(***************************************************************************)
(* Routing, RouteTable and OrderedMap together: routes are given to the    *)
(* server and erased again, in any order, then one request is handled,     *)
(* however the callbacks end.                                              *)
(***************************************************************************)
EXTENDS Routing, RouteTable

CONSTANTS
    Patterns,        \* the routes that may be given, without their methods
    Methods,         \* the methods a callback may be given for, "any" for all
    Changes,         \* what the program may do to the table, see Change
    Files,           \* the paths that open as files
    Requests,        \* the requests considered
    Callbacks,       \* how the callback of a route may end
    ErrorCallbacks,  \* how on_http_error may end
    MaxCalls         \* bound: changes to the table before the request

Ends == [ends : {"returns", "status", "exception"}, value : Int]

ASSUME ChangesAssumption ==
    Changes \subseteq [op : {"on_http", "erase", "clear"}, route : Patterns,
                       methods : SUBSET Methods]
\* "none" is what Entry gives for a method without a callback, and no method.
ASSUME RequestsAssumption == \A r \in Requests : r.method # "none"
ASSUME CallbacksAssumption == \A c \in Callbacks \cup ErrorCallbacks : c \in Ends

VARIABLES table, calls, attr, req, cb, ecb, outcome, handled

routedVars == <<table, calls, attr, req, cb, ecb, outcome, handled>>

Switches == [http_dynamic : BOOLEAN, http_static : BOOLEAN, on_http_error : BOOLEAN]

Attr(switches) ==
    [http_dynamic |-> switches.http_dynamic, http_static |-> switches.http_static,
     on_http_error |-> switches.on_http_error, http_routes |-> Routes(table),
     files |-> Files]

AllOff == [http_dynamic |-> FALSE, http_static |-> FALSE, on_http_error |-> FALSE]

\* Before a request has come.
NoRequest == <<>>

RoutedInit ==
    /\ table = EmptyMap /\ calls = <<>>
    /\ attr = Attr(AllOff) /\ req = NoRequest /\ cb = Returns /\ ecb = Returns
    /\ outcome = NoOutcome /\ handled = FALSE

\* The program changes the table; the callback it gives is known by the call's number.
Change ==
    /\ ~handled /\ Len(calls) < MaxCalls
    /\ \E c \in Changes :
           /\ calls' = Append(calls, c)
           /\ \/ c.op = "on_http" /\ table' = OnHttp(table, c.route, c.methods, Len(calls'))
              \/ c.op = "erase" /\ table' = Erase(table, c.route)
              \/ c.op = "clear" /\ table' = Clear(table)
    /\ UNCHANGED <<attr, req, cb, ecb, outcome, handled>>

\* A request is handled, and the history of the calls ends; a callback that cannot be
\* called may as well return.
Handle ==
    /\ ~handled /\ handled' = TRUE /\ calls' = <<>>
    /\ \E switches \in Switches :
           /\ attr' = Attr(switches)
           /\ req' \in Requests
           /\ cb' \in (IF switches.http_dynamic THEN Callbacks ELSE {Returns})
           /\ ecb' \in (IF switches.on_http_error THEN ErrorCallbacks ELSE {Returns})
    /\ outcome' = HandleRequest(attr', req', cb', ecb')
    /\ UNCHANGED table

RoutedNext == Change \/ Handle

RoutedSpec == RoutedInit /\ [][RoutedNext]_routedVars
-----------------------------------------------------------------------------
\* The request was given to the callback of a route.
Called == outcome.route # 0

\* What ran ended with a value that no response can have as its status.
ThrewNoStatus(c) == c.ends = "status" /\ c.value \notin 0..999

\* Every request is answered exactly once, with two exceptions that send nothing:
\* an escaping exception, and a route callback that throws 0, which handle_request
\* takes for a response already sent.
AnsweredOnce ==
    handled =>
        IF outcome.escaped \/ (Called /\ cb = Throws(0))
        THEN outcome.sends = 0
        ELSE outcome.sends = 1

\* No exception of a callback leaves the handler except through a status that
\* response::result rejects; unknown exceptions in particular become a 500.
EscapesOnlyWithoutStatus ==
    outcome.escaped => ThrewNoStatus(cb) \/ ThrewNoStatus(ecb)

\* The callback that runs is that of the first registered route that accepts the
\* path and the method, whatever the routes after it would do, and in that route the
\* callback for all methods before the one for the request's method; a request that
\* no callback took had no such route.
FirstRegisteredRouteRuns ==
    LET Accepts(i) ==
            /\ req.path \in attr.http_routes[i].paths
            /\ {"any", req.method} \cap attr.http_routes[i].methods # {}
        routes == 1..Len(attr.http_routes)
    IN  handled /\ req.wellformed /\ attr.http_dynamic =>
            IF \E i \in routes : Accepts(i)
            THEN /\ Accepts(outcome.route)
                 /\ \A i \in 1..(outcome.route - 1) : ~Accepts(i)
                 /\ outcome.entry # "any" => "any" \notin attr.http_routes[outcome.route].methods
            ELSE ~Called

\* The status that the route's callback threw is what the client gets: on_http_error was
\* called with it, if there is one, and the response has it unless on_http_error threw
\* another; nothing else stands in for it.
AnswersThrown ==
    /\ outcome.errors = IF attr.on_http_error THEN 1 ELSE 0
    /\ ~attr.on_http_error \/ ecb.ends = "returns" => outcome.status = cb.value
    /\ ~outcome.file

\* "the thrown value sets the http status code and calls the
\* Belle::Server::on_http_error callback" (the http example): every status that a callback
\* throws is answered with, whatever else the server could send.  A thrown 404 is not: it
\* makes handle_request look for a file.
ThrownStatusIsAnswered ==
    Called /\ cb.ends = "status" /\ cb.value \in 1..999 => AnswersThrown

\* Every other status is: no file and no later route hides the error of a callback.
OtherStatusIsAnswered ==
    Called /\ cb.ends = "status" /\ cb.value \in (1..999) \ {404} => AnswersThrown

\* The table is what the calls of on_http, erase and clear so far amount to, whatever their
\* order: the routes given since they were last erased, each once, in the order they
\* were first given in, and for each of their methods the callback given last.
TableAsGiven ==
    LET Stands(i) == /\ calls[i].op = "on_http" /\ calls[i].methods # {}
                     /\ \A j \in i..Len(calls) :
                            /\ calls[j].op # "clear"
                            /\ calls[j].op = "erase" => calls[j].route # calls[i].route
        Given(k)    == {i \in 1..Len(calls) : Stands(i) /\ calls[i].route = k}
        GivenFor(k, m) == {i \in Given(k) : m \in calls[i].methods}
    IN  ~handled =>
        /\ ToSet(table.it) = {k \in Patterns : Given(k) # {}}
        /\ \A a, b \in 1..Len(table.it) :
               a < b => \E i \in Given(table.it[a]) : \A j \in Given(table.it[b]) : i < j
        /\ \A k \in Patterns : Given(k) # {} =>
               /\ DOMAIN table.map[k] = UNION {calls[i].methods : i \in Given(k)}
               /\ \A m \in DOMAIN table.map[k] :
                      /\ table.map[k][m] \in GivenFor(k, m)
                      /\ \A i \in GivenFor(k, m) : i <= table.map[k][m]
=============================================================================
