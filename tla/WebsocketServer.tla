-------------------------- MODULE WebsocketServer --------------------------
(***************************************************************************)
(* The websocket side of the server (server.hpp, classes Channel,          *)
(* Websocket_Ctx, Websocket_Base and Websocket): the sessions, each with a *)
(* queue of outgoing messages of which the front is being written, and the *)
(* channels they join by their path and broadcast through.                 *)
(*                                                                         *)
(* listen() runs a server with websockets on one thread, so handlers do    *)
(* not interleave: one action is one handler with the callbacks it calls   *)
(* and, when the handler held the last reference, the destructor of its    *)
(* session with the callbacks that one calls.  A user's callback is any    *)
(* choice of what the API offers: nothing, a send to the own session, a    *)
(* broadcast to a channel or to all of them.                               *)
(***************************************************************************)
EXTENDS Naturals, Sequences

CONSTANTS
    Sessions,    \* the websocket sessions, one per upgraded connection
    Paths,       \* the paths that match a websocket route
    Precreated,  \* the channels the application creates before it listens
    MaxPosts     \* bound: sends and broadcasts made by callbacks

ASSUME PathsAssumption == Precreated \subseteq Paths
ASSUME MaxPostsAssumption == MaxPosts \in Nat

VARIABLES
    status,     \* of a session: "none", "accepting", "open" or "gone" (destroyed)
    path,       \* _ctx.req.path().at(0), the channel of the session
    reading,    \* the sessions with an async_read pending
    out,        \* what each session sends, see Outbox
    channels,   \* _attr->channels: the created channels and their _sockets
    posts,      \* sends and broadcasts made so far; the last one's message
    begun,      \* the sessions whose connect and begin callbacks ran
    ended,      \* the sessions whose end and disconnect callbacks ran
    broken,     \* the sessions one of whose writes failed
    terminated  \* std::terminate was called

vars == <<status, path, reading, out, channels, posts, begun, ended, broken, terminated>>

Messages == 1..MaxPosts

\* que is _que; writing holds the messages whose buffers an async_write uses; posted
\* and delivered record what was handed to send and what was written, in order.
Outbox == [que : Seq(Messages), writing : SUBSET Messages,
           posted : Seq(Messages), delivered : Seq(Messages)]

NoMessages == [que |-> <<>>, writing |-> {}, posted |-> <<>>, delivered |-> <<>>]

Init ==
    /\ status = [s \in Sessions |-> "none"]
    /\ path \in [Sessions -> Paths]
    /\ reading = {}
    /\ out = [s \in Sessions |-> NoMessages]
    /\ channels = [p \in Precreated |-> {}]
    /\ posts = 0
    /\ begun = {} /\ ended = {} /\ broken = {}
    /\ terminated = FALSE
-----------------------------------------------------------------------------
(* The outgoing queue of one session. *)

\* Faulty variant: the newest message goes to the front of the queue.
SendInFront(box, m) ==
    [box EXCEPT !.que = <<m>> \o @,
                !.posted = Append(@, m),
                !.writing = IF box.que = <<>> THEN @ \cup {m} ELSE @]

\* Faulty variant: the test for a write under way is missing.
SendAlwaysWrites(box, m) ==
    [box EXCEPT !.que = Append(@, m), !.posted = Append(@, m), !.writing = @ \cup {m}]

\* send: the message is queued, and written at once if the queue was empty.
Send(box, m) ==
    [box EXCEPT !.que = Append(@, m),
                !.posted = Append(@, m),
                !.writing = IF box.que = <<>> THEN @ \cup {m} ELSE @]

\* Faulty variant: the next message of the queue is not started.
WrittenAndIdle(box, m) ==
    [box EXCEPT !.que = Tail(@), !.delivered = Append(@, m), !.writing = @ \ {m}]

\* Faulty variant: the newest message is removed instead of the written one.
WrittenPopsBack(box, m) ==
    LET rest == SubSeq(box.que, 1, Len(box.que) - 1) IN
    [box EXCEPT !.que = rest,
                !.delivered = Append(@, m),
                !.writing = (@ \ {m}) \cup (IF rest = <<>> THEN {} ELSE {Head(rest)})]

\* on_write, message m being out: the front is popped and the next one written.
Written(box, m) ==
    LET rest == Tail(box.que) IN
    [box EXCEPT !.que = rest,
                !.delivered = Append(@, m),
                !.writing = (@ \ {m}) \cup (IF rest = <<>> THEN {} ELSE {Head(rest)})]

\* on_write with an error: it returns and leaves the queue as it is.
WriteFailed(box, m) == [box EXCEPT !.writing = @ \ {m}]
-----------------------------------------------------------------------------
(* Channels and callbacks. *)

\* Faulty variant: a new channel replaces the one the path has.
JoinedFresh(ch, s) ==
    [p \in DOMAIN ch \cup {path[s]} |-> IF p = path[s] THEN {s} ELSE ch[p]]

\* Faulty variant: the channel is named by the target, which has a query.
JoinedByTarget(ch, s) ==
    LET target == "path?query" IN
    [p \in DOMAIN ch \cup {target} |->
        (IF p \in DOMAIN ch THEN ch[p] ELSE {}) \cup (IF p = target THEN {s} ELSE {})]

\* on_accept: create the channel of the path if it does not exist, then join it.
Joined(ch, s) ==
    [p \in DOMAIN ch \cup {path[s]} |->
        (IF p \in DOMAIN ch THEN ch[p] ELSE {}) \cup (IF p = path[s] THEN {s} ELSE {})]

\* Faulty variant: the destructor does not leave.
NotLeft(ch, s) == ch

\* ~Websocket_Base: leave the channel of the path.
Left(ch, s) == [ch EXCEPT ![path[s]] = @ \ {s}]

\* The sets of sessions a callback without a session of its own may send to:
\* nobody, the members of a channel, the members of every channel.
Reach(ch) ==
    {{}} \cup {ch[p] : p \in DOMAIN ch} \cup {UNION {ch[p] : p \in DOMAIN ch}}

\* A callback sends message m to the sessions of T.
Broadcast(boxes, T, m) ==
    [s \in Sessions |-> IF s \in T THEN Send(boxes[s], m) ELSE boxes[s]]

\* Message numbers used up by a callback that sends to T.
Cost(T) == IF T = {} THEN 0 ELSE 1

\* One callback, then a second one, on the outboxes as the handler has left them.
RunCallbacks(boxes, T1, T2) ==
    LET middle == posts + Cost(T1) IN
    /\ posts' = middle + Cost(T2)
    /\ posts' <= MaxPosts
    /\ out' = Broadcast(Broadcast(boxes, T1, posts + 1), T2, middle + 1)

\* ~Websocket_Base: channels.at throws for a channel nobody has created, and a
\* destructor is noexcept; otherwise leave, end, on_websocket_disconnect.
Destroy(s, boxes) ==
    IF path[s] \notin DOMAIN channels
    THEN /\ terminated' = TRUE
         /\ out' = boxes
         /\ UNCHANGED <<status, channels, posts, ended>>
    ELSE /\ status' = [status EXCEPT ![s] = "gone"]
         /\ channels' = Left(channels, s)
         /\ ended' = ended \cup {s}
         /\ \E onEnd, onDisconnect \in Reach(Left(channels, s)) :
                RunCallbacks(boxes, onEnd, onDisconnect)
         /\ UNCHANGED terminated

\* The end of a handler of s that leaves these operations of s pending.
Return(s, boxes, stillReading) ==
    IF stillReading \/ boxes[s].writing # {}
    THEN out' = boxes /\ UNCHANGED <<status, channels, posts, ended, terminated>>
    ELSE Destroy(s, boxes)
-----------------------------------------------------------------------------
(* The handlers. *)

\* run: the http session hands over the connection, do_accept starts.
Upgrade(s) ==
    /\ ~terminated /\ status[s] = "none"
    /\ status' = [status EXCEPT ![s] = "accepting"]
    /\ UNCHANGED <<path, reading, out, channels, posts, begun, ended, broken, terminated>>

\* on_accept: join, on_websocket_connect, begin, do_read.
OnAccept(s) ==
    /\ ~terminated /\ status[s] = "accepting"
    /\ status' = [status EXCEPT ![s] = "open"]
    /\ channels' = Joined(channels, s)
    /\ \E onConnect, onBegin \in Reach(Joined(channels, s)) \cup {{s}} :
            RunCallbacks(out, onConnect, onBegin)
    /\ begun' = begun \cup {s}
    /\ reading' = reading \cup {s}
    /\ UNCHANGED <<path, ended, broken, terminated>>

\* on_accept with an error: return; the handler held the only reference.
OnAcceptFail(s) ==
    /\ ~terminated /\ status[s] = "accepting"
    /\ Destroy(s, out)
    /\ UNCHANGED <<path, reading, begun, broken>>

\* on_read of a message: data (or on_websocket_error, if data threw), then do_read.
OnRead(s) ==
    /\ ~terminated /\ s \in reading
    /\ \E onData, onError \in Reach(channels) \cup {{s}} : RunCallbacks(out, onData, onError)
    /\ UNCHANGED <<status, path, reading, channels, begun, ended, broken, terminated>>

\* on_read with an error, the end of the connection included: return.
OnReadFail(s) ==
    /\ ~terminated /\ s \in reading
    /\ reading' = reading \ {s}
    /\ Return(s, out, FALSE)
    /\ UNCHANGED <<path, begun, broken>>

\* on_write: message m is out.
OnWrite(s) ==
    /\ ~terminated
    /\ \E m \in out[s].writing :
            Return(s, [out EXCEPT ![s] = Written(@, m)], s \in reading)
    /\ UNCHANGED <<path, reading, begun, broken>>

\* on_write with an error.
OnWriteFail(s) ==
    /\ ~terminated
    /\ \E m \in out[s].writing :
            Return(s, [out EXCEPT ![s] = WriteFailed(@, m)], s \in reading)
    /\ broken' = broken \cup {s}
    /\ UNCHANGED <<path, reading, begun>>

Next ==
    \E s \in Sessions :
        \/ Upgrade(s) \/ OnAccept(s) \/ OnAcceptFail(s)
        \/ OnRead(s) \/ OnReadFail(s)
        \/ OnWrite(s) \/ OnWriteFail(s)

Spec == Init /\ [][Next]_vars

\* No peer stalls a write for ever (the code sets no deadline on it).
PeerFairness == \A s \in Sessions : WF_vars(OnWrite(s) \/ OnWriteFail(s))

FairSpec == Spec /\ PeerFairness
-----------------------------------------------------------------------------
\* Every variable holds a value of its kind; the channels, which a session looks up
\* by its path again when it leaves, are named by paths (on_accept).
TypeOK ==
    /\ status \in [Sessions -> {"none", "accepting", "open", "gone"}]
    /\ path \in [Sessions -> Paths]
    /\ reading \subseteq Sessions
    /\ out \in [Sessions -> Outbox]
    /\ DOMAIN channels \subseteq Paths
    /\ \A p \in DOMAIN channels : channels[p] \subseteq Sessions
    /\ posts \in 0..MaxPosts
    /\ begun \subseteq Sessions /\ ended \subseteq Sessions /\ broken \subseteq Sessions
    /\ terminated \in BOOLEAN

\* The raw pointers of the channels are exactly the live, accepted sessions of the
\* channel's path: none dangles, none is missing, and the destructor of an accepted
\* session finds its channel (Channel, on_accept, ~Websocket_Base).
ChannelsHoldLiveSessions ==
    /\ \A p \in DOMAIN channels :
            channels[p] = {s \in Sessions : status[s] = "open" /\ path[s] = p}
    /\ \A s \in Sessions : status[s] = "open" => path[s] \in DOMAIN channels

\* An operation is pending only for a session that is live, and a live accepted
\* session always has one: none is destroyed under its own operation, and none
\* stays in a channel with nothing left that could ever remove it.  Its callbacks
\* keep pace: the live sessions are those that began and did not end, so that what
\* began ends when it is destroyed, and nothing begins after its end.
OperationsKeepSessions ==
    \A s \in Sessions :
        /\ status[s] = "open" <=> s \in reading \/ out[s].writing # {}
        /\ status[s] = "open" <=> s \in begun /\ s \notin ended
        /\ s \in ended => status[s] = "gone"

\* The buffer being written is the front of the queue, which stays there until the
\* write is over; so a stream never has two writes at once (send, on_write).
WriteIsFront ==
    \A s \in Sessions :
        out[s].writing \subseteq (IF out[s].que = <<>> THEN {} ELSE {Head(out[s].que)})

\* A queue that is not empty is being written, unless a write of the session failed:
\* send returning early on a queue of more than one never loses the wake-up.
QueueIsDriven ==
    \A s \in Sessions : out[s].que # <<>> => out[s].writing # {} \/ s \in broken

\* What was written and what is queued is, in order, what was sent to the session.
Fifo == \A s \in Sessions : out[s].posted = out[s].delivered \o out[s].que

\* Two sessions get the messages they both get in the same order, whichever
\* callbacks sent them and however their writes interleave.
SameOrder ==
    \A s, t \in Sessions :
        \A i, j \in DOMAIN out[s].delivered, k, l \in DOMAIN out[t].delivered :
            (/\ out[s].delivered[i] = out[t].delivered[k]
             /\ out[s].delivered[j] = out[t].delivered[l]
             /\ i < j) => k < l

\* No step sends to a session that is not accepted or is destroyed already: not in
\* its destructor either, when its own callbacks broadcast.
SendsReachLiveSessions ==
    [][\A s \in Sessions : out'[s].posted # out[s].posted => status'[s] = "open"]_vars

\* A message that was sent is written in the end, unless a write of its session
\* fails or the server dies first; the end of reading does not discard it.
SentIsWritten ==
    \A s \in Sessions : \A m \in Messages :
        (\E i \in DOMAIN out[s].que : out[s].que[i] = m) ~>
            \/ \E i \in DOMAIN out[s].delivered : out[s].delivered[i] = m
            \/ s \in broken
            \/ terminated

\* "the server blocks until a signal is received": no connection can end it.
BlocksUntilSignal == ~terminated
=============================================================================
