------------------------------ MODULE MCClient ------------------------------
(***************************************************************************)
(* The client for TLC: Client, the loop that sends the queued requests,    *)
(* and QueryParams, what becomes of the parameters of one of them, side by *)
(* side.  They share no state, so each behaviour follows one of the two    *)
(* and the other rests in one of its initial states, where no step of it   *)
(* with a fairness condition is enabled.                                   *)
(***************************************************************************)
EXTENDS Client, MCQueryParams

VARIABLE part  \* what the behaviour follows: "connect" or "parameters"

MCInit ==
    /\ part \in {"connect", "parameters"}
    /\ Init /\ ParamsInit
    /\ part = "connect" => given = Asks(<<>>)
    /\ part = "parameters" => ~ssl

MCNext ==
    \/ part = "connect" /\ Next /\ UNCHANGED <<part, paramsVars>>
    \/ part = "parameters" /\ ParamsNext /\ UNCHANGED <<part, vars>>

MCSpec == /\ MCInit /\ [][MCNext]_<<part, vars, paramsVars>>
          /\ LoopFairness /\ ServerFairness
=============================================================================
