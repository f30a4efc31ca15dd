----------------------------- MODULE RouteTable -----------------------------
(***************************************************************************)
(* The table of http routes: an Ordered_Map from a route's pattern to the  *)
(* callbacks by method, "any" standing for the 0 under which a callback for*)
(* all methods is kept.  A route is given as the record Routing wants, less*)
(* its methods; a callback as whatever tells it from the others.           *)
(***************************************************************************)
EXTENDS OrderedMap

\* Faulty variant: a route given again starts anew.
OnHttpAnew(table, route, methods, callback) ==
    IF methods = {} THEN table ELSE Call(table, route, [m \in methods |-> callback])

\* on_http, the overloads for one method, for several and ({"any"}) for all of them:
\* a route that has an entry keeps its place and its other methods.
OnHttp(table, route, methods, callback) ==
    LET entry == IF Has(table, route) THEN table.map[route] ELSE <<>>
        added == [m \in DOMAIN entry \cup methods |->
                      IF m \in methods THEN callback ELSE entry[m]]
    IN  IF methods = {} THEN table
        ELSE IF Has(table, route) THEN [table EXCEPT !.map[route] = added]
        ELSE Call(table, route, added)

\* The routes as serve_dynamic iterates over them: begin() to end().
Routes(table) ==
    [i \in 1..Len(table.it) |->
        [paths |-> table.it[i].paths, methods |-> DOMAIN table.map[table.it[i]]]]
=============================================================================
