---------------------------- MODULE MCConnection ----------------------------
(***************************************************************************)
(* A connection for TLC: HttpSession, one http session, and                *)
(* WebsocketServer, the sessions it may become, side by side.  Each        *)
(* behaviour follows one of the two and the other rests in one of its      *)
(* initial states: there run() of the http session is enabled but not      *)
(* meant to happen, so its fairness is asked of the behaviours of the http *)
(* session only.                                                           *)
(*                                                                         *)
(* Of the websocket sessions there are three with up to TrioPosts          *)
(* messages, or two with up to MaxPosts.                                   *)
(***************************************************************************)
EXTENDS MCHttpSession, MCWebsocketServer

CONSTANT TrioPosts  \* bound: sends and broadcasts with three sessions

VARIABLE part  \* what the behaviour follows: "http", "pair" or "trio"

MCInit ==
    /\ part \in {"http", "pair", "trio"}
    /\ HttpInit /\ Init
    /\ part = "http" => path = [s \in Sessions |-> "lobby"]
    /\ part = "pair" => path[s3] = "lobby"
    /\ part # "http" => attr = MCAttr

MCNext ==
    \/ part = "http" /\ HttpNext /\ UNCHANGED <<part, vars>>
    \/ part = "pair" /\ Next /\ status'[s3] = "none" /\ UNCHANGED <<part, httpVars>>
    \/ part = "trio" /\ Next /\ posts' <= TrioPosts /\ UNCHANGED <<part, httpVars>>

MCSpec == /\ MCInit /\ [][MCNext]_<<part, vars, httpVars>>
          /\ WF_httpVars(part = "http" /\ Run) /\ TimerFairness /\ HttpPeerFairness
          /\ PeerFairness
=============================================================================
