------------------------------ MODULE MCServer ------------------------------
(***************************************************************************)
(* The server for TLC: RoutedServer, the table of routes and the handling  *)
(* of a request by it, and FileServer, listen() with its threads and the   *)
(* error pages, side by side.  They share no state, so each behaviour      *)
(* follows one of the two and the other rests in one of its initial states,*)
(* where no step of it with a fairness condition is enabled.               *)
(***************************************************************************)
EXTENDS MCRouting, FileServer

VARIABLE part  \* what the behaviour follows: "routes" or "listen"

MCInit ==
    /\ part \in {"routes", "listen"}
    /\ RoutedInit /\ Init
    /\ part = "routes" => ~ssl /\ ~waiting /\ page = "none"

\* No route was taken away.  A request is handled only then: what erase and clear leave
\* behind, for the next request to find, is what fewer calls without them give.
OnlyGiven == \A i \in DOMAIN calls : calls[i].op = "on_http"

MCNext ==
    \/ part = "routes" /\ RoutedNext /\ (handled' => OnlyGiven) /\ UNCHANGED <<part, vars>>
    \/ part = "listen" /\ Next /\ UNCHANGED <<part, routedVars>>

MCSpec == MCInit /\ [][MCNext]_<<part, vars, routedVars>> /\ ThreadFairness
=============================================================================
