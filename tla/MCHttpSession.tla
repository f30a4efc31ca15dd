--------------------------- MODULE MCHttpSession ---------------------------
(***************************************************************************)
(* Constants for checking HttpSession with TLC.                            *)
(***************************************************************************)
EXTENDS HttpSession

\* Callbacks that return, throw a status, throw 0, throw a status no response can
\* have, and throw something else.
MCCallbacks == {Returns, Throws(404), Throws(0), Throws(1000), Fails}

\* One dynamic route and one websocket route; the variants use ssl or switch a
\* handler off.
MCAttr == [ssl |-> FALSE, http_dynamic |-> TRUE, http_static |-> TRUE, websocket |-> TRUE,
           on_http_error |-> TRUE,
           http_routes |-> <<[paths |-> {"/"}, methods |-> {"get", "post"}]>>,
           websocket_routes |-> <<{"/"}>>, files |-> {"/", "/f"}]

MCAttrs == {MCAttr, [MCAttr EXCEPT !.ssl = TRUE], [MCAttr EXCEPT !.websocket = FALSE],
            [MCAttr EXCEPT !.on_http_error = FALSE, !.http_static = FALSE],
            [MCAttr EXCEPT !.ssl = TRUE, !.websocket = FALSE]}

\* Requests for the route, for a file and for neither, keeping the connection or
\* not, and upgrades with and without a websocket route.
MCGet == [method |-> "get", path |-> "/", query |-> FALSE, wellformed |-> TRUE,
          keep_alive |-> TRUE, upgrade |-> FALSE]

MCRequests ==
    {[MCGet EXCEPT !.path = p, !.keep_alive = k] : p \in {"/", "/f"}, k \in BOOLEAN}
    \cup {[MCGet EXCEPT !.path = p, !.upgrade = TRUE] : p \in {"/", "/f"}}
    \cup {[MCGet EXCEPT !.wellformed = FALSE]}
=============================================================================
