---------------------------- MODULE HttpExchange ----------------------------
(***************************************************************************)
(* What one http connection promises its client, whatever the server does  *)
(* inside: requests are taken one at a time, the next one only after the   *)
(* answer to the last, every request has at most one answer, and the       *)
(* answers come in the order of the requests.  The connection may be given *)
(* up at any moment; nothing is taken or answered afterwards.              *)
(***************************************************************************)
EXTENDS Naturals

VARIABLES
    stage,      \* "idle": waiting for a request, "busy": owes an answer, "closed"
    received,   \* requests taken from the connection
    answered    \* responses written to the connection

exchangeVars == <<stage, received, answered>>

ExchangeInit == stage = "idle" /\ received = 0 /\ answered = 0

\* A request arrives: it will be answered, or the connection is given up over it.
Receive ==
    /\ stage = "idle"
    /\ received' = received + 1
    /\ stage' \in {"busy", "closed"}
    /\ UNCHANGED answered

\* The answer is complete: the connection is kept for the next request or closed.
Answer ==
    /\ stage = "busy"
    /\ answered' = answered + 1
    /\ stage' \in {"idle", "closed"}
    /\ UNCHANGED received

\* The connection is given up.
Abandon ==
    /\ stage # "closed"
    /\ stage' = "closed"
    /\ UNCHANGED <<received, answered>>

ExchangeNext == Receive \/ Answer \/ Abandon

ExchangeSpec == ExchangeInit /\ [][ExchangeNext]_exchangeVars
=============================================================================
