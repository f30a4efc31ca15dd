-------------------------------- MODULE Chat --------------------------------
(***************************************************************************)
(* The chat example as a whole: the server of example/server/chat with its *)
(* rooms, started and stopped, its listener, and the pages in the browsers *)
(* (ChatPage), each with the connections it has opened.                    *)
(*                                                                         *)
(* A handler that counts the users takes two steps, for another thread     *)
(* might run between its read of the number and its end; all others take   *)
(* one.  A connection delivers in order what a session was sent, and drops *)
(* messages only at its end (WebsocketServer: Fifo, SentIsWritten), so of  *)
(* each session there is only what its page shows once all has arrived.    *)
(***************************************************************************)
EXTENDS ChatPage

CONSTANTS
    Pages,       \* the open browser tabs
    Sockets,     \* <<page, i>>: its connections; of two, one may be open before the
                 \* server has noticed that the other is closed
    Rooms,       \* paths of rooms
    Precreated,  \* those with a channel from the start
    Seeds,       \* the messages room New begins with
    New,
    Locations,   \* what the pages' paths may be
    Cap,         \* size of a Ringbuf
    Asked,       \* threads the program asks for; the example leaves it at one
    MaxPosts,    \* bound: messages users submit
    MaxStarts,   \* bound: times the server is started
    MaxRefused   \* bound: failed handshakes of one server

Lobby == "/"

Paths == Rooms \cup {Lobby}

ASSUME PathsAssumption ==
    /\ Lobby \notin Rooms /\ Lobby \in Precreated /\ Precreated \subseteq Paths /\ New \in Rooms
    /\ Locations \subseteq [Pages -> Paths]
ASSUME SocketsAssumption == Sockets \subseteq Pages \X {1, 2} /\ IsFiniteSet(Sockets)
ASSUME SeedsAssumption == Seeds \in Seq(Nat)
ASSUME SizesAssumption ==
    /\ Cap \in Nat /\ FeedMax \in Nat /\ RetryMax \in Nat /\ TimeoutMax \in Nat \ {0}
    /\ Asked \in Nat \ {0} /\ MaxPosts \in Nat /\ MaxStarts \in Nat /\ MaxRefused \in Nat

VARIABLES
    path,       \* of a page, location.pathname
    page,       \* of a page, see ChatPage
    server,     \* "off", "on", or "deaf": it runs, but its acceptor could not be set up
    starts,     \* how often it was started
    threads,    \* _threads, as listen has left it
    job,        \* the handler a thread is in: [socket, kind, count]
    session,    \* of a socket, the session: "none", "asking" (handshake), "open",
                \* or "ended" and not yet closed by its page
    mail,       \* of a socket, the submitted messages the server has not read
    channels,   \* ctx.channels: the sessions by path
    chat,       \* the Ringbuf of each room
    userCount,  \* user_count
    refused,    \* history: sessions of this server whose handshake failed
    log,        \* history: all messages of each room since the server was started
    joined,     \* history: of a socket, the length of log when it joined
    view,       \* of a socket, what its page shows, see above
    posts       \* the number of messages submitted

pageVars   == <<path, page, posts>>
serverVars == <<server, starts, threads, channels, chat, userCount, refused, log, joined, view>>

vars == <<pageVars, serverVars, job, session, mail>>

Idle == [socket |-> <<>>, kind |-> "none", count |-> 0]

\* Faulty variant: the ring keeps the oldest.
PushKeepsOldest(ring, m) == SubSeq(Append(ring, m), 1, Min({Cap, Len(ring) + 1}))

\* Faulty variant: nothing is dropped.
PushUnbounded(ring, m) == Append(ring, m)

\* Ringbuf::push.
Push(ring, m) == LastOf(Append(ring, m), Cap)

\* A Ringbuf the messages were pushed into, one after the other.
Pushed(messages) ==
    LET ring[i \in 0..Len(messages)] ==
            IF i = 0 THEN <<>> ELSE Push(ring[i - 1], messages[i])
    IN  ring[Len(messages)]

\* main, up to listen(): the channels and messages there are from the start.
FreshChannels == [c \in Precreated |-> {}]
FreshChat     == [r \in Rooms |-> IF r = New THEN Pushed(Seeds) ELSE <<>>]
FreshLog      == [r \in Rooms |-> IF r = New THEN Seeds ELSE <<>>]

Init ==
    /\ path \in Locations
    /\ page = [p \in Pages |-> NewPage]
    /\ posts = 0
    /\ server = "off" /\ starts = 0 /\ threads = Asked
    /\ job = [t \in 1..Asked |-> Idle]
    /\ session = [k \in Sockets |-> "none"]
    /\ mail = [k \in Sockets |-> <<>>]
    /\ channels = FreshChannels /\ chat = FreshChat /\ userCount = 0 /\ refused = 0
    /\ log = FreshLog /\ joined = [k \in Sockets |-> 0]
    /\ view = [k \in Sockets |-> NoView]
-----------------------------------------------------------------------------
(* The pages. *)

\* websocket(), when the page is loaded and when its timer fires.
Websocket(p) ==
    /\ page[p].ready \in {"loading", "waiting"}
    /\ \E i \in {1, 2} : /\ <<p, i>> \in Sockets /\ session[<<p, i>>] = "none"
                         /\ page' = [page EXCEPT ![p] = Opening(@, i)]
    /\ UNCHANGED <<path, posts, serverVars, job, session, mail>>

\* The page learns that the server took the handshake.
OnOpen(p) ==
    /\ page[p].ready = "connecting" /\ session[<<p, page[p].ws>>] = "open"
    /\ page' = [page EXCEPT ![p] = Opened(@)]
    /\ UNCHANGED <<path, posts, serverVars, job, session, mail>>

\* onclose, also for onerror, which closes the socket: the connection could not be made
\* or was lost.  The server may not know it yet.
OnClose(p) ==
    /\ page[p].ready \in {"connecting", "open"}
    /\ page' = [page EXCEPT ![p] = Closed(@)]
    /\ session' = [k \in Sockets |-> IF k = <<p, page[p].ws>> /\ session[k] = "ended"
                                     THEN "none" ELSE session[k]]
    /\ UNCHANGED <<path, posts, serverVars, job, mail>>

\* submit.onclick, which onopen enables and onclose disables; a message that comes
\* after the end of the session is lost.
Submit(p) ==
    LET k == <<p, page[p].ws>>
    IN  /\ page[p].ready = "open" /\ path[p] \in Rooms /\ posts < MaxPosts
        /\ posts' = posts + 1
        /\ mail' = IF session[k] = "open" THEN [mail EXCEPT ![k] = Append(@, Len(Seeds) + posts')]
                   ELSE mail
        /\ UNCHANGED <<path, page, serverVars, job, session>>
-----------------------------------------------------------------------------
(* The server is started and stopped. *)

\* Faulty variant: the limit is missing.
LimitedNot(asked) == asked

\* listen: the channels are not thread safe, and websockets are enabled.
Limited(asked) == IF asked > 1 THEN 1 ELSE asked

\* The listener is made and run: whether its acceptor can be opened, bound and set to
\* listen only decides whether anybody is accepted.
Running == {"on", "deaf"}

\* main and listen.
Listen ==
    /\ server = "off" /\ starts < MaxStarts
    /\ starts' = starts + 1
    /\ server' \in Running
    /\ threads' = Limited(Asked)
    /\ UNCHANGED <<pageVars, job, session, mail, channels, chat, userCount, refused, log, joined,
                   view>>

\* The session of k is over; its page has not closed the connection if it is its own.
Gone(k) == IF page[k[1]].ws = k[2] /\ session[k] # "none" THEN "ended" ELSE "none"

\* The process ends, and with it all it has kept.
Exit ==
    /\ server' = "off"
    /\ job' = [t \in 1..Asked |-> Idle]
    /\ session' = [k \in Sockets |-> Gone(k)]
    /\ mail' = [k \in Sockets |-> <<>>]
    /\ channels' = FreshChannels /\ chat' = FreshChat /\ userCount' = 0 /\ refused' = 0
    /\ log' = FreshLog /\ joined' = [k \in Sockets |-> 0]
    /\ view' = [k \in Sockets |-> NoView]
    /\ UNCHANGED <<pageVars, starts, threads>>

\* The signal's callback stops the io_context, listen and main return.
OnSignal ==
    /\ server # "off" /\ \A t \in 1..threads : job[t] = Idle
    /\ Exit
-----------------------------------------------------------------------------
(* The callbacks: the message each sends and to whom. *)

\* What the page of k shows when it has got message m.
Show(v, k, m) ==
    IF path[k[1]] = Lobby THEN IndexMessage(v, m) ELSE ChatMessage(v, m)

\* Channel::broadcast to the sessions of S.
Broadcast(views, S, m) ==
    [k \in Sockets |-> IF k \in S THEN Show(views[k], k, m) ELSE views[k]]

Text(m)  == [type |-> 0, arg |-> m]
Count(n) == [type |-> 1, arg |-> n]

\* on_websocket_connect and on_websocket_disconnect: to the index, the number of
\* rooms, of users, and of each room's sessions.
Overview(views, ch, users) ==
    LET rooms == Broadcast(views, ch[Lobby], [type |-> 0, arg |-> Cardinality(DOMAIN ch)])
        sizes == [type |-> 2, arg |-> [c \in DOMAIN ch |-> Cardinality(ch[c])]]
    IN  Broadcast(Broadcast(rooms, ch[Lobby], Count(users)), ch[Lobby], sizes)

\* The begin and end callbacks of a room: the number of its users, to them.
CountUsers(views, ch, r) ==
    IF r = Lobby THEN views ELSE Broadcast(views, ch[r], Count(Cardinality(ch[r])))

\* begin: the stored messages and the welcome, to the new user.
Replay(views, k, r) ==
    LET messages == Append(chat[r], Welcome)
        sent[i \in 0..Len(messages)] ==
            IF i = 0 THEN views ELSE Broadcast(sent[i - 1], {k}, Text(messages[i]))
    IN  IF r = Lobby THEN views ELSE sent[Len(messages)]

\* on_accept joins the channel of the path, and creates it first if need be.
Join(ch, r, k) ==
    [c \in DOMAIN ch \cup {r} |->
        (IF c \in DOMAIN ch THEN ch[c] ELSE {}) \cup (IF c = r THEN {k} ELSE {})]
-----------------------------------------------------------------------------
(* The handlers. *)

\* The listener accepts, the http session hands over, the websocket session waits for
\* its handshake.
Upgrade(k) ==
    /\ server = "on" /\ session[k] = "none"
    /\ page[k[1]].ready = "connecting" /\ page[k[1]].ws = k[2]
    /\ session' = [session EXCEPT ![k] = "asking"]
    /\ UNCHANGED <<pageVars, serverVars, job, mail>>

\* No thread is in a handler of k.
Unserved(k) == \A t \in 1..Asked : job[t].socket # k

\* A thread enters a handler that will change the number of users.
Enter(k, kind) ==
    /\ Unserved(k)
    /\ \E t \in 1..threads :
           /\ job[t] = Idle
           /\ job' = [job EXCEPT ![t] = [socket |-> k, kind |-> kind, count |-> userCount]]
    /\ UNCHANGED <<pageVars, serverVars, session, mail>>

OnAccept(k)     == session[k] = "asking" /\ Enter(k, "accept")
OnAcceptFail(k) == session[k] = "asking" /\ refused < MaxRefused /\ Enter(k, "refuse")
OnReadFail(k)   == session[k] = "open" /\ Enter(k, "leave")

\* The rest of on_accept: join, on_websocket_connect, begin.
Accepted(t) ==
    LET k  == job[t].socket
        r  == path[k[1]]
        ch == Join(channels, r, k)
        users == job[t].count + 1
        opened == Overview([view EXCEPT ![k] = OpenView], ch, users)
    IN  /\ session' = [session EXCEPT ![k] = "open"]
        /\ channels' = ch
        /\ userCount' = users
        /\ view' = Replay(CountUsers(opened, ch, r), k, r)
        /\ joined' = [joined EXCEPT ![k] = IF r = Lobby THEN 0 ELSE Len(log[r])]
        /\ UNCHANGED <<server, refused, mail>>

\* Faulty variant: on_websocket_disconnect sends what was true before.
DestroyedLate(t) ==
    LET k  == job[t].socket
        r  == path[k[1]]
        ch == [channels EXCEPT ![r] = @ \ {k}]
        users == job[t].count - 1
    IN  /\ session' = [session EXCEPT ![k] = Gone(k)]
        /\ mail' = [mail EXCEPT ![k] = <<>>]
        /\ channels' = ch
        /\ userCount' = users
        /\ refused' = IF job[t].kind = "refuse" THEN refused + 1 ELSE refused
        /\ view' = [Overview(CountUsers(view, ch, r), channels, users) EXCEPT ![k] = NoView]
        /\ joined' = [joined EXCEPT ![k] = 0]
        /\ UNCHANGED server

\* ~Websocket_Base, of a session that was open and of one that never was: leave, end,
\* on_websocket_disconnect.
Destroyed(t) ==
    LET k  == job[t].socket
        r  == path[k[1]]
        ch == [channels EXCEPT ![r] = @ \ {k}]
        users == job[t].count - 1
    IN  /\ session' = [session EXCEPT ![k] = Gone(k)]
        /\ mail' = [mail EXCEPT ![k] = <<>>]
        /\ channels' = ch
        /\ userCount' = users
        /\ refused' = IF job[t].kind = "refuse" THEN refused + 1 ELSE refused
        /\ view' = [Overview(CountUsers(view, ch, r), ch, users) EXCEPT ![k] = NoView]
        /\ joined' = [joined EXCEPT ![k] = 0]
        /\ UNCHANGED server

\* The thread comes to the end of its handler.  The channel of a session that never
\* was open may not exist: at() throws in the destructor, and the process ends.
Finish(t) ==
    LET k == job[t].socket
    IN  /\ job[t] # Idle
        /\ job' = [job EXCEPT ![t] = Idle]
        /\ \/ /\ job[t].kind = "accept" /\ Accepted(t)
              /\ UNCHANGED <<pageVars, starts, threads, chat, log>>
           \/ /\ job[t].kind # "accept" /\ path[k[1]] \in DOMAIN channels /\ Destroyed(t)
              /\ UNCHANGED <<pageVars, starts, threads, chat, log>>
           \/ /\ job[t].kind # "accept" /\ path[k[1]] \notin DOMAIN channels
              /\ Exit

\* on_read of a message in a room: it is kept and sent to the room.
OnRead(k) ==
    LET r == path[k[1]]
        m == Head(mail[k])
    IN  /\ session[k] = "open" /\ mail[k] # <<>> /\ Unserved(k)
        /\ \E t \in 1..threads : job[t] = Idle
        /\ mail' = [mail EXCEPT ![k] = Tail(@)]
        /\ chat' = [chat EXCEPT ![r] = Push(@, m)]
        /\ log' = [log EXCEPT ![r] = Append(@, m)]
        /\ view' = Broadcast(view, channels[r], Text(m))
        /\ UNCHANGED <<pageVars, server, starts, threads, channels, userCount, refused, joined,
                       job, session>>

Next ==
    \/ Listen \/ OnSignal
    \/ \E p \in Pages : Websocket(p) \/ OnOpen(p) \/ OnClose(p) \/ Submit(p)
    \/ \E k \in Sockets :
           Upgrade(k) \/ OnAccept(k) \/ OnAcceptFail(k) \/ OnReadFail(k) \/ OnRead(k)
    \/ \E t \in 1..Asked : Finish(t)

Spec == Init /\ [][Next]_vars

\* The server has to do with a connection its page has closed.
Abandoned(k) ==
    page[k[1]].ws # k[2] /\ (OnAccept(k) \/ OnReadFail(k))

\* A browser fires its timers and tells a page in the end what became of an attempt;
\* handlers end, and an io_context that runs comes to every handler that is queued, so
\* that the end of a connection is noticed although other handlers come between.
Fairness ==
    /\ \A p \in Pages : /\ WF_vars(Websocket(p))
                        /\ WF_vars(page[p].ready = "connecting" /\ (OnOpen(p) \/ OnClose(p)))
    /\ WF_vars(\E t \in 1..Asked : Finish(t))
    /\ \A p \in Pages : SF_vars(\E k \in Sockets : k[1] = p /\ Abandoned(k))

FairSpec == Spec /\ Fairness
-----------------------------------------------------------------------------
Open(k) == session[k] = "open"

\* Type correctness.
TypeOK ==
    /\ path \in [Pages -> Paths]
    /\ page \in [Pages -> [ready : {"loading", "connecting", "open", "waiting", "stopped"},
                           ws : 0..2, retry : 0..RetryMax + 1, wait : 1..TimeoutMax]]
    /\ server \in {"off", "on", "deaf"} /\ starts \in 0..MaxStarts /\ threads \in 1..Asked
    /\ session \in [Sockets -> {"none", "asking", "open", "ended"}]
    /\ DOMAIN channels \subseteq Paths /\ \A c \in DOMAIN channels : channels[c] \subseteq Sockets
    /\ userCount \in Int /\ refused \in 0..MaxRefused /\ posts \in 0..MaxPosts
    /\ \A r \in Rooms : Len(chat[r]) <= Cap

\* What the page of a room shows is the room's messages: the ones the ring had kept
\* when it joined, the welcome, and every message since, each once and in the order
\* they came in, down to the number of cards a page keeps; whoever else joins,
\* leaves, reconnects or writes meanwhile (begin, data, Ringbuf, onmessage).
FeedIsLog ==
    \A k \in Sockets : Open(k) /\ path[k[1]] \in Rooms =>
        LET all  == log[path[k[1]]]
            kept == LastOf(SubSeq(all, 1, joined[k]), Cap)
        IN  view[k].feed = LastOf(<<Connected>> \o kept \o <<Welcome>>
                                     \o SubSeq(all, joined[k] + 1, Len(all)), FeedMax)

\* Everybody in a room sees the number of its sessions, and everybody on the index the
\* numbers of rooms and users and every room with its number of sessions: whatever
\* changes one of them sends it.
NumbersAreCurrent ==
    \A k \in Sockets : Open(k) =>
        IF path[k[1]] \in Rooms
        THEN view[k].count = Cardinality(channels[path[k[1]]])
        ELSE /\ view[k].rooms = Cardinality(DOMAIN channels)
             /\ view[k].users = userCount
             /\ \A c \in DOMAIN channels :
                    c \in DOMAIN view[k].sizes /\ view[k].sizes[c] = Cardinality(channels[c])

\* No change of user_count is lost between two threads: it is the number of calls of
\* on_websocket_connect less those of on_websocket_disconnect, of which an open session
\* has had the first only, and one whose handshake failed the second only.
NoCountLost ==
    server # "off" =>
        userCount = Cardinality({k \in Sockets : Open(k)}) - refused

\* user_count is the "total number of connected users" (main).
UsersCounted == server # "off" => userCount = Cardinality({k \in Sockets : Open(k)})

\* The powers of two.
PowerOfTwo[n \in 0..RetryMax] == IF n = 0 THEN 1 ELSE 2 * PowerOfTwo[n - 1]

\* A page that waits, waits for its next of at most RetryMax attempts in a row, and as
\* long as the attempts before it say: 1, 2, 4 ... and at most TimeoutMax.
BackoffDoubles ==
    \A p \in Pages : page[p].ready = "waiting" =>
        /\ page[p].retry \in 1..RetryMax
        /\ page[p].wait = Min({PowerOfTwo[page[p].retry - 1], TimeoutMax})

\* No page is left between two attempts: each is connected again and again or has
\* given up, whatever becomes of the server.
PagesSettle == \A p \in Pages : []<>(page[p].ready \in {"open", "stopped"})
=============================================================================
