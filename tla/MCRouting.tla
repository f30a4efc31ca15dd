----------------------------- MODULE MCRouting -----------------------------
(***************************************************************************)
(* Constants for checking RoutedServer with TLC: two routes that overlap,  *)
(* the methods they are given for, and the end of one or of all of them.   *)
(***************************************************************************)
EXTENDS RoutedServer

MCPatterns == {[paths |-> {"/"}], [paths |-> {"/", "/f"}]}

MCMethods == {"any", "get", "post"}

MCChanges ==
    [op : {"on_http"}, route : MCPatterns, methods : {{"get"}, {"any"}, {"get", "post"}}]
    \cup [op : {"on_http", "erase", "clear"}, route : {[paths |-> {"/"}]}, methods : {{}}]

MCFiles == {"/", "/f"}

MCGet == [method |-> "get", path |-> "/f", query |-> FALSE, wellformed |-> TRUE,
          keep_alive |-> TRUE, upgrade |-> FALSE]

MCRequests ==
    {[MCGet EXCEPT !.method = m, !.path = p] : m \in {"get", "post"}, p \in {"/", "/f"}}
    \cup {[MCGet EXCEPT !.method = "head"], [MCGet EXCEPT !.path = "/g"]}
    \cup {[MCGet EXCEPT !.query = TRUE], [MCGet EXCEPT !.wellformed = FALSE]}

MCCallbacks == {Returns, Fails} \cup {Throws(v) : v \in {-1, 0, 404, 503, 1000}}

MCErrorCallbacks == {Returns, Fails, Throws(404), Throws(-1)}
=============================================================================
