------------------------------ MODULE ChatPage ------------------------------
(***************************************************************************)
(* The two pages of the chat example in a browser: the index with the list *)
(* of rooms (index.js) and the page of a room (chat.js).  Both keep one    *)
(* websocket and open a new one some time after it closed, later and later *)
(* until they give up.                                                     *)
(*                                                                         *)
(* A page is [ready, ws, retry, wait]: the state of its socket, which of   *)
(* its connections it is (0 for none), retry.val and timeout.val.  What it *)
(* shows is a view, [feed, count, rooms, users, sizes]: the cards of a     *)
(* room and its number of users; the numbers of rooms and of users and the *)
(* sizes of rooms.  A message is what the server sends, [type, arg].       *)
(***************************************************************************)
EXTENDS Integers, SequencesExt

CONSTANTS
    FeedMax,     \* feed_max: cards a page keeps
    RetryMax,    \* retry.max: attempts before it gives up
    TimeoutMax   \* timeout.max: the longest wait

\* Cards that are not messages.
Connected == -1
Welcome   == -2

NewPage == [ready |-> "loading", ws |-> 0, retry |-> 0, wait |-> 1]

\* Nothing has arrived.  The index goes on showing what came before, until the first
\* messages of the connection have replaced it; but global.rooms is never cleared, so
\* that it keeps the rooms only an earlier server had, which are left out here.
NoView == [feed |-> <<>>, count |-> 0, rooms |-> 0, users |-> 0, sizes |-> <<>>]

\* onopen of a room's page; that of the index shows nothing new.
OpenView == [NoView EXCEPT !.feed = <<Connected>>]

\* The last n of a sequence, or all of it.
LastOf(s, n) == IF Len(s) <= n THEN s ELSE SubSeq(s, Len(s) - n + 1, Len(s))

\* onmessage of a room's page: a card, of which the oldest go, or the number of users.
ChatMessage(view, m) ==
    IF m.type = 0 THEN [view EXCEPT !.feed = LastOf(Append(@, m.arg), FeedMax)]
    ELSE [view EXCEPT !.count = m.arg]

\* The entries of a map after those of another were assigned to it.
Updated(f, g) == [x \in DOMAIN f \cup DOMAIN g |-> IF x \in DOMAIN g THEN g[x] ELSE f[x]]

\* onmessage of the index: the number of rooms, of users, or a room's size, which come
\* for all rooms together and are one message here.
IndexMessage(view, m) ==
    CASE m.type = 0 -> [view EXCEPT !.rooms = m.arg]
      [] m.type = 1 -> [view EXCEPT !.users = m.arg]
      [] m.type = 2 -> [view EXCEPT !.sizes = Updated(@, m.arg)]

\* websocket(): connection i is the page's.
Opening(page, i) == [page EXCEPT !.ready = "connecting", !.ws = i]

\* onopen: the values are reset.
Opened(page) == [page EXCEPT !.ready = "open", !.retry = 0, !.wait = 1]

\* Faulty variant: the first attempt waits twice as long, too.
ClosedDoubling(page) ==
    LET wait == Min({2 * page.wait, TimeoutMax})
    IN  [ready |-> IF page.retry + 1 > RetryMax THEN "stopped" ELSE "waiting",
         ws |-> 0, retry |-> page.retry + 1, wait |-> wait]

\* Faulty variant: the attempts are not counted.
ClosedUncounted(page) ==
    [ready |-> "waiting", ws |-> 0, retry |-> page.retry, wait |-> page.wait]

\* onclose: the wait is doubled but for the first attempt, and the timer is set unless
\* there have been enough attempts.
Closed(page) ==
    LET doubled == IF page.retry > 0 THEN 2 * page.wait ELSE page.wait
        wait    == IF doubled > TimeoutMax THEN TimeoutMax ELSE doubled
    IN  [ready |-> IF page.retry + 1 > RetryMax THEN "stopped" ELSE "waiting",
         ws |-> 0, retry |-> page.retry + 1, wait |-> wait]
=============================================================================
