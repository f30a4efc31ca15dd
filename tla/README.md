# TLA+ models of belle

belle is a header-only HTTP and websocket library over Boost.Asio and Boost.Beast:
a server (`include/belle/server.hpp`), a file server (`file_server.hpp`), a client
(`client.hpp`) and the small parts they share.  All of them are chains of
asynchronous operations whose handlers run on an `io_context`.  What is hard to test
in them is what these modules are about: which operations are pending together, who
keeps a session alive, what a handler finds when it finally runs, what an exception
of a user's callback leaves behind, and what ever wakes a queue or a deadline up.

The source is the reference.  Every definition that models code names its lines in
`PROJECT.json` under `map`; bodies, headers, logging and formatting are abstracted to
what the properties tell apart.

## Inventory

| component | state | operations | interacts through |
|---|---|---|---|
| request handling (`handle_request`, `serve_*`) | the request context, the shared `Attr` | the dynamic routes, the static files, the error page, each ending in `send` or an error code | user callbacks, which may throw |
| http session (`Http_Base`, `Http`, `Https`) | `_timer`, `_close`, one request, one response, the socket | `run`, `do_handshake`, `do_read`, `send`, `do_shutdown` and their handlers | the strand, the timer, `handle_websocket` |
| websocket session (`Websocket_Base` ...) | `_que`, the stream, `_ctx` | `send`, `on_accept`, `on_read`, `on_write`, the destructor | channels, callbacks that send and broadcast |
| channels (`Channel`, `Channels`) | raw pointers to sessions by path | `join`, `leave`, `broadcast` | every session and callback |
| listener, `Server::listen`, signals | acceptor, thread pool, `_signals` | accept loop, `run` on every thread | creates sessions |
| client (`Client`, its `Http`, `Https`) | `que`, the `io_context`, one session per `connect()` | `on_http`, `connect`, the handlers | callbacks that queue and throw |
| request (`request.hpp`) | target, path, parameters | `params_serialize`, `params_parse` | both sides |
| file server | as the http session, with file bodies | as the http session; `serve_error` writes a file | the file system |
| `Ordered_Map` | a map and a deque of iterators | insert, erase, iterate | route tables |
| utilities, mime types | none | `split`, `to_string`, tables | everything |
| chat example | `chat` (a `Ringbuf` per room), `user_count`; a page's socket, retries and cards | the callbacks of `main`, the pages' `onopen`, `onmessage`, `onclose` | the server's API, the browser |
| other examples | none of interest | straight-line uses of the API | the server's and client's API |

What makes them correct, component by component:

- *request handling*: one answer per request, from the first route registered for it;
  no exception of a callback gets further than a status.
- *http session*: one operation at a time on its single buffers, answers one by one and
  in order, nothing read after a last response, nothing done to a socket that was
  given away, every request settled, deadlines that end what is overdue.
- *websockets and channels*: channels point to live sessions only, a session lives as
  long as it has an operation, one write at a time, nothing lost or overtaken in a
  queue, the same order for every receiver, everything sent is written.
- *client*: a response goes to the callback of its request, in order and once;
  `connect()` returns, leaves nothing behind and counts correctly.
- *listener and signals*: a failed start is reported and not retried without end; as
  many threads as the channels bear; every signal delivered.
- *request, split*: parameters reach the callback as the program wrote them.
- *ordered map*: insertion order with unique keys.
- *chat*: everybody in a room sees its messages, each once and in order, and the numbers
  as they are; a page that lost its connection gets a new one or gives up.

The behaviours hard to test are listed with their lines under `hazards` in
`PROJECT.json`, each with the properties that would catch it or the reason there is none
yet.

## Modules

| module | models | how |
|---|---|---|
| `AsioTimer` | `steady_timer` (external) | operators on a record: the expiry as one of four kinds, at most one wait. Setting the expiry cancels the wait and queues its handler, the fact the timeouts of belle turn on |
| `OrderedMap`, `RouteTable` | `Ordered_Map`; `on_http` on the table of routes | operators on a function with a sequence of its keys; a route maps methods to callbacks |
| `Routing` | `handle_request`, `serve_dynamic`, `serve_static`, `serve_error`, `handle_websocket`'s match | operators from attributes, request and ends of the callbacks to an outcome |
| `RoutedServer` | the three of them together | routes are given, replaced and erased, then one request is handled; the properties of `Routing` and `RouteTable` |
| `RoutedServerProofs` | | proofs about `RoutedServer` |
| `HttpExchange` | nothing: the abstract promise of a connection | `Receive`, `Answer`, `Abandon` |
| `HttpSession` | `Http_Base` with `Http` or `Https` (`attr.ssl`) | one action per handler and outcome; `Routing` decides what a request does |
| `HttpSessionProofs` | | proofs about `HttpSession` and `Routing` |
| `WebsocketServer` | `Channel`, `Websocket_Ctx`, `Websocket_Base` | all sessions and channels of one server; one action per handler with its callbacks and, when it held the last reference, the destructor |
| `WebsocketServerProofs` | | proofs about `WebsocketServer` |
| `Client` | `Client` with `Http` or `Https` (`ssl`) | the caller's `on_http` and `connect()`, one action per handler |
| `ClientProofs` | | proofs about `Client` |
| `FileServer` | `FileServer` with `Listener`, `Http` or `Https` | `listen()` on a pool of threads, one action per handler, and one per step of `serve_error` on its file |
| `FileServerProofs` | | proofs about `FileServer` |
| `QueryParams` | `Request`'s parameters, `split`, the way of a target from `prepare_request` to `serve_dynamic` | functions over sequences of characters, and one request that is sent and handled |
| `QueryParamsProofs` | | proofs about `QueryParams` |
| `ChatPage` | `chat.js`, `index.js` | operators on a page and on what it shows |
| `Chat` | the chat example: its `main`, `Server::listen`, `Listener`, the sessions' lives, the pages | one action per event of a page, start, end and handler of the server |
| `ChatProofs` | | proofs about `Chat` and `ChatPage` |
| `MCRouting`, `MCHttpSession`, `MCWebsocketServer`, `MCQueryParams`, `MCChat` | | values of the constants for TLC |
| `MCServer`, `MCConnection`, `MCClient` | | for TLC, two components side by side: `RoutedServer` and `FileServer`, `HttpSession` and `WebsocketServer`, `Client` and `QueryParams` |

Composition: `HttpSession` EXTENDS `AsioTimer` and `Routing`; `Client` EXTENDS
`AsioTimer`; `HttpSession` implements `HttpExchange`
(`Exchange == INSTANCE HttpExchange WITH received <- connects`, with `stage` and
`answered` of the session).  `RoutedServer` EXTENDS `Routing` and `RouteTable`, which EXTENDS
`OrderedMap`: `Routes` turns the table into the sequence `serve_dynamic` goes through.  An http
session that accepts an upgrade ends with its socket "moved"; a session of `WebsocketServer`
begins with its `Upgrade`.  `Chat` EXTENDS `ChatPage`
and stands on what `WebsocketServer` shows of a session: `Fifo` and `SentIsWritten` are why it
needs no queues of its own.

### State and code

*HttpSession.* `reads`, `writes`, `handshakes` and `shutdowns` count the pending
operations; each holds a `shared_ptr`, so the session is destroyed when they and the
timer's wait are gone (`Destroyed`).  `close` is what `send` captured from `need_eof`,
`closing` is `_close`, `sock` says whether sending is shut down or the socket moved
away.  `connects` and `answered` count requests handled and responses written.
`doomed` marks a response handed to a stream that was shut for sending before: it can
only fail.  `down` is set when an exception leaves `io_context::run`, which ends the
server.  An operation the peer or the network completes may succeed or fail at any time.

*WebsocketServer.* `out[s]` is the outbox of a session: `que` is `_que`, `writing` the
messages whose buffers an `async_write` uses (a set, so that two writes at once would
show), `posted` and `delivered` the history.  `reading` are the sessions with a pending
read.  `status` says whether the session object exists.  A callback is a choice among
what the API offers: nothing, a send to its own session, a broadcast to one channel or to
all (`Reach`).  Errors of callbacks are not told apart from their normal end: all of
them are caught, and `on_websocket_error` is one more callback with the same choices.

*Client.* `sess[c]` is the session of the c-th `connect()`: its pending operations
(`ops`), its timer, the request `_ctx.req` points at and `_close`.  Sessions outlive
their call when it is cut short.  `stopped` is the state of the `io_context`; `cut` and
`overlapped` are history variables that say whether an exception or `_timeout_max` ended
some call early and whether two sessions have shared the queue.  `returned` is a
`std::size_t`: `SizeModulus` stands for 2^w.

*FileServer.* `inside` are the threads in `io_context::run`, `worker[s]` the one that is
in `serve_error` for session s.  `at[s]` is the operation a session waits for or the next
step of `serve_error`; a session that waits for nothing is "gone".  All other handlers run
in one step on any free thread, because they touch only their own session, which has one
operation pending at a time (shown for the same code by `HttpSession`).  `page` is the
content of `err_file`, `body[s]` the size found by `open` and then what was read.  `clean`
is a history variable: no other session and no failure of the file system has come between
since the page was begun.  An exception ends the process unless `listen()` runs alone.

*QueryParams.* A string is a sequence of `Characters`, of which there are at least the ones
the functions tell apart.  `Joined` is what a loop appends to its result, piece by piece.  `split` is a function of the string, the delimiter and the number of
cuts, its last `substr` included: the place of the next delimiter is taken for a length.
`target` is what `params_serialize` has made of the request so far, `sends` how often.

*Chat.* A socket is a page with a number; of a page with two, the old one may still be open
at the server while the page is on the new one.  `session[k]` is the server's side: "asking"
until the handshake, "open", and "ended" until the page knows.  A handler that changes
`user_count` is two steps, `Enter` (with the number it read) and `Finish`, on one of the
threads `Limited` allows.  `view[k]` is what the page of k shows once everything sent on k
has arrived; it is changed by the broadcasts of the callbacks.  `log`, `joined` and `refused`
are history.  `Exit` is the end of the process, by a signal or by the destructor of a session
whose handshake failed in a room without a channel; `Listen` starts it again, with nothing
kept, while the pages live on.  "deaf" is a server whose acceptor could not be set up.

## Runs

Passing runs:

| run | configuration | what it shows |
|---|---|---|
| `server` | `Server.cfg`, 713 993 states | routing: `TableAsGiven` for every table four calls can make, then `AnsweredOnce`, `EscapesOnlyWithoutStatus`, `FirstRegisteredRouteRuns`, `OtherStatusIsAnswered` for every request, way the callbacks end, and combination of the server's switches; the file server: `TypeOK`, `PageNamesStatus`, `QuietReturn`, `BlocksUntilSignal`, and `StopEndsListen` under fairness of the threads |
| `connection` | `Connection.cfg`, 143 784 states | the http session: its invariants (`HttpTypeOK`, `OneOperation`, `Lockstep`, `UpgradeLeavesNoReader`, `LastResponseIsLast`), `ImplementsExchange` and, with fairness, `RequestSettles`; the websocket sessions: `TypeOK`, lifetimes (`ChannelsHoldLiveSessions`, `OperationsKeepSessions`, `SendsReachLiveSessions`), the queue (`WriteIsFront`, `QueueIsDriven`, `Fifo`), `SameOrder`, and `SentIsWritten` under fairness |
| `client` | `Client.cfg`, 264 108 states | the loop over the queue: `TypeOK`, `RightCallback`, `CtxIsFront`, `AnsweredInOrder`, `QuietBetween`, and `ConnectReturns` under fairness; the parameters: `RoundTrip` for those of one to three characters of every kind, `FieldsAreRead` for queries that a program wrote into the target and nobody escaped |
| `chat` | `Chat.cfg`, 462 449 states | `TypeOK`, `FeedIsLog`, `NumbersAreCurrent`, `NoCountLost`, `BackoffDoubles`, and `PagesSettle` under fairness, across restarts and crashes of the server |

The first three check two components each, side by side: `part` says which of them a
behaviour follows, and the other one rests in one of its initial states, so that the states
of a run are the sum and not the product of its components'.

Runs that end with a counterexample, each against a line of the repository (quoted under
`findings`):

| run | property | what happens |
|---|---|---|
| `http_session_idle` | `IdleTimesOut` | `do_read` and `do_handshake` cancel the wait `run` armed, nobody waits again: no deadline is ever watched |
| `websocket_blocks` | `BlocksUntilSignal` | a failed handshake on a path without a channel throws out of the destructor and terminates the server |
| `client_count` | `ReturnCountsCompleted` | callbacks that queue requests make the count wrong, down to a wrap-around |
| `client_serialize` | `SerializedOnce` | a request sent again has its query appended twice |
| `routing_thrown` | `ThrownStatusIsAnswered` | a route's callback that throws 404 is taken for the absence of a route: a file is sent with 200 and `on_http_error` is not called |
| `http_session_upgrade` | `UpgradeHandsOver` | the late handler of a cancelled wait times an ssl session out; a request to upgrade that it then reads moves the stream with `async_shutdown` pending on it |
| `params_typed` | `TypedQueryIsRead` | `split` takes the place of the next delimiter for a length and cuts a value that holds a second "=" |
| `chat_users` | `UsersCounted` | a failed handshake runs the disconnect callback of a session that never connected: the "total number of connected users" falls below zero |

Of the last four there is a passing property beside each, for what does hold:
`OtherStatusIsAnswered` (every thrown status but 404), `UpgradeLeavesNoReader` (no read, write,
handshake or live timer, and without ssl nothing at all), `FieldsAreRead` (names, places, and
values without a "=") and `NoCountLost` (no change of the count is lost between threads).

Further disagreements follow from the same models and have no run of their own.  The file server's
`serve_error` shares one file among all threads: `PageNamesStatus` without `clean` fails
with two threads, where one page names the other's status, is empty, or is cut short.
`on_signal` waits once, so the second signal is never "received" (file_server.hpp:1031).  The
client's deadline is lost exactly as the server's is (`do_resolve` cancels the wait), so a
server that stops answering keeps `connect()` for ever: `ConnectReturns` needs fairness
of the server.  After `_timeout_max` ("timeout all requests after specified number of milliseconds",
client.hpp:805) the operation of the call is still pending and goes on in the next one, beside
the session of that call: `QuietBetween` therefore excludes calls that were cut short.  A
websocket handshake that fails runs the end callback of its route too, for a session that never
began ("end: called once after disconnected", server.hpp:1709).  A request whose parameter holds two dots is refused with 404,
because `handle_request` searches the whole target and `url_encode` leaves dots as they are
(`RoundTrip`).  After a write that failed a websocket session's queue stands still: whatever is
sent to it later stays there as long as its read is pending (`QueueIsDriven` and
`SentIsWritten` end where `broken` begins).  The index never clears `global.rooms`: after a restart it lists rooms that are gone.
And `on_http_connect` is documented as called "at the very beginning of
every http connection" (server.hpp:1679) while `on_read` calls it for every request, as
the http example says (main.cc:242).

### Bounds

- `RoutedServer`: `MaxCalls = 4` changes to the table of two routes that overlap: both given,
  one erased and given again is the shortest history that changes their order.  The
  methods given are one, several or all, so that an entry for all methods comes before,
  beside and without one for the request's method; thrown values on both sides of every
  distinction the code makes (negative, 0, 404, another status, above 999).  `MCServer` lets a
  request come only when no route was taken away (`OnlyGiven`): what `erase` and `clear` leave
  is a table of fewer calls, and the states that are found are the same as without it.
- `HttpSession`: `MaxRequests = 3`.  The session keeps nothing from request to request
  but the timer and its flags, so two requests reach every combination and the third
  repeats them.
- `WebsocketServer`: two channels of which one exists from the start, two callbacks per
  handler, and either two sessions with `MaxPosts = 3` sends and broadcasts or three with
  `TrioPosts = 2`.  Two sessions in a channel and one outside are the smallest case in which a
  broadcast, a leave and a creation can meet; three messages fill a queue beyond the one
  being written and the one waiting, and two queues show them in another order.
- `Client`: two requests in all and three calls of `connect()`: a call that is cut short,
  one that finds the `io_context` stopped or an older session alive, and one after it.
- `FileServer`: two threads and two connections, the smallest case in which two pages
  meet; no counter needs a bound, for a session keeps nothing from request to request.
- `QueryParams`: `MaxSends = 2`, for a third sending does to the target what the second did;
  one or two parameters; keys and values of up to two characters of every kind, and of three
  where they look like an escape, all over the `Alphabet` of the characters the functions tell
  apart and two they leave alone; written queries of up to four characters, and of six for the
  place where `split` cuts.
- `Chat`: two pages, in one room, or one in a room nobody has created and one on the index;
  three connections, so that one page can be on its second while its first is still open.
  Two messages in the ring of two (`Cap`) and one more (`MaxPosts`) make it drop one, and with
  the two cards of the page overflow `FeedMax = 3`.  `MaxStarts = 2` is one restart,
  `MaxRefused = 1` one failed handshake of each server, `RetryMax = 3` and `TimeoutMax = 2` a
  wait that is first doubled and then held.  The program asks for two threads (`Asked`), of
  which `listen` must leave one; the example itself does not ask.
- Every bound is a named constant that appears in a guard.

### Fairness

`HttpLoopFairness` and the client's `LoopFairness` are what the code's scheduling gives: an
`io_context` that is running runs every queued handler (`Run`, `OnTimer`, `ConnectReturn`), and
the clock advances (`Elapse`).  `HttpPeerFairness`, `PeerFairness` and `ServerFairness` assume
more, that the other side does not stall an operation for ever.  Nothing in the code enforces
that, because the deadlines are lost; the run that shows it (`http_session_idle`) therefore
uses `HttpLoopSpec`, without the peer's fairness.  In the runs that have two components the
fairness is that of the components; only `Run`, which is enabled in the state a session rests
in while a behaviour follows the websockets, is asked for where `part` is "http".
No client is assumed to ever send a request.  `ThreadFairness`
of `FileServer` is the operating system's: a thread that can take its next step does.
`Chat`'s `Fairness` is the browser's (its timers fire, and it learns in the end whether a
connection came about) and the server's: handlers end, and the end of a connection its page
has closed is noticed, which is strong fairness because handlers of other sessions may
come between and the process may be restarted first.

## Proofs

`HttpSessionProofs` proves for all attributes, requests, ends of callbacks and bounds:

- `HandleRequestSends`: `handle_request` sends at most one response and none when an
  exception escapes, by cases over the three ways of serving.
- `Invariance`: `IInv` is inductive.  It conjoins the checked invariants, which support
  one another: `Lockstep` needs `OneOperation` (a second operation could overtake),
  `LastResponseIsLast` needs both.  `UpgradeLeavesNoReader` stands on `PlainShutsAtOnce`: a
  session without ssl never waits for a shutdown.  Added to them are `Unstarted` (nothing is pending
  before `run`) and `HandshakeFirst` (no request precedes the handshake).  The theorems
  for `HttpTypeOK`, `OneOperation`, `Lockstep`, `UpgradeLeavesNoReader` and `LastResponseIsLast`
  follow.
- `ExchangeImplemented`: every step of the session is a step of `HttpExchange` or a
  stutter, given `IInv` before and after it.

`RoutedServerProofs` proves for all routes, methods, changes to the table, requests and ends of
callbacks:

- `RequestHandled`: one call of `handle_request` does what the four properties of routing say
  (`HandledWell`), from `ServeDynamic` over `ServeStatic` to `ServeError`.
- `Inductive`: until the request comes the table is an ordered map without repeated keys
  (`IsTable`) and holds what the calls have given (`AsGiven`, the property of any table and any
  history); from then on `HandledWell` holds of the routes as they were.  `IsTable` is needed
  because a key that stood twice in the order would survive an `erase` of one of its places;
  `AsGiven` because which routes there are, in which order and with which callbacks depends on
  the whole history.  The five properties follow.

`WebsocketServerProofs` proves for any sessions, paths, created channels and number of
messages that the conjunction of the checked invariants (without `SameOrder`) is
inductive.  The lemmas go from one outbox (`SendBox`, `WrittenBox`, `WriteFailedBox`) over
a broadcast (`BroadcastBoxes`, `RunCallbacksBoxes`) to the destructor (`DestroyInv`) and
the end of a handler (`ReturnInv`), which all handlers share.
`SendsReachLiveSessionsAlways` is the action property, from the same invariant.  `SameOrder`
compares two sessions and is not inductive; `AllRising` is: every session was posted its messages
in the order they were numbered, none above the newest.  With `Fifo` it gives
`SameOrderAlways`.

`ClientProofs` proves for any number of requests and of calls of `connect()`, http and https,
with callbacks that queue and throw, that `IInv` is inductive.  To the checked invariants it adds
`Newest` (the queue holds the newest requests, without a gap: what `AnsweredInOrder` needs when
`pop_front` takes one), `OneOperation` (a session has one operation pending, besides the end of
an ssl session) and `LastAlive` (unless sessions overlapped only the last call's is alive: what
`RightCallback` and `CtxIsFront` need, for any other session would work on the same queue).

`FileServerProofs` proves for any threads, connections and status codes that `IInv` is
inductive: `Occupied` (a thread in a handler is inside `run` and in no other handler),
`PageInv` (what is known of the file at each step of `serve_error`) and `ListenInv` (as long
as `listen()` runs, a thread has left only a stopped `io_context`, and an open acceptor
always accepts).  `PageNamesStatus`, `QuietReturn` and `BlocksUntilSignal` follow.

`QueryParamsProofs` proves for strings, parameters and queries of any length:

- `DecodeUndoesEncode` and `ParseUndoesSerialize`: what `url_encode` and `params_serialize`
  write, `url_decode` and `params_parse` read back.  The argument is where things stand: the
  pieces a loop appends have their places in the result (`JoinedPlaces`), an encoded string has
  none of the delimiters (`EncodedIsPlain`), so `split` cuts where the writer put them
  (`SplitMarked`, `SplitAll`).
- `Inductive`: of a request for the route the target stays the path, or the path and a query
  (`ForTheRoute`, also when the query is appended again), with two dots only from a parameter;
  it carries the parameters once when it was sent once.  `RoundTrip` follows.
- `TargetIsRead`: every query can be cut at its delimiters (`CutsExist`), the fields that are
  not empty are exactly what stands between the cuts (`FieldsAreCut`), and counting them gives
  the parameter of each (`PlacesCounted`).  `FieldsAreRead` follows.

`ChatProofs` proves three inductive invariants, each of a part of the state and resting on the one
before it:

- `PagesOK`: a page's wait and its attempts in a row go together in every state of the page, not
  only while it waits; `BackoffDoubles` follows.
- `CountOK`: a running server has one thread, so that no handler counts between another's read of
  `user_count` and its end (`JobsOK`), and the number is that of the open sessions less the failed
  handshakes.  `NoCountLost` follows.
- `ChatOK`: a channel holds the open sessions of its path (`ChannelsOK`), pages show the true
  numbers (`ShownOK`), a ring is the end of its room's log and a page shows what its user was
  sent (`FeedsOK`).  `NumbersAreCurrent`, `FeedIsLog` and `TypeOK` follow.  The lemmas on the ring
  say that dropping the oldest after each message is the same as taking the last ones at the end
  (`LastOfAppend`, `PushedResult`, `ReplayResult`).

Recursive functions (`Joined`, `UrlDecode`, `Split`, the powers of two, the replay of a ring) are
shown to exist and to do what they say at each index by the least counterexample
(`LeastNat`), since the induction theorems of the library take an operator and cannot be used.

The proofs assume only the named ASSUMEs of the modules, which TLC evaluates in the runs: the
constants are of their types (`RequestsAssumption`, `ChangesAssumption`, `PathsAssumption`,
`SocketsAssumption`, `SeedsAssumption`, `SizesAssumption` and the like), the characters are at
least those the functions treat differently (`CharactersAssumption`), the route is a path without
a query that the server does not refuse (`RouteAssumption`), a `std::size_t` counts further than
the requests (`SizeModulusAssumption`).

Only model-checked: the liveness properties (`RequestSettles`, `SentIsWritten`,
`ConnectReturns`, `StopEndsListen`, `PagesSettle`), which are beyond the prover.  Every other
property of the passing runs is a theorem.

## Not modelled

- In `Chat`: messages in flight (see `view` above), `onerror` apart from the `onclose` it brings about, what the pages show after a connection
  is lost (the card that says so, the index's list of an earlier server's rooms), the form
  of a message, the http route that sends the page.  `main` declares `app` before
  `user_count` and `chat`, so sessions that are destroyed with the `io_context` at the end
  run callbacks over destroyed variables, which is undefined; the model ends with `listen`.
- In `QueryParams`: bytes beyond ASCII (each is escaped and comes back like "%"), a second
  call of `params_parse` by a callback (`example/server/file_upload`), which adds every
  parameter again.
- The other examples: straight-line uses of the library.
- A second signal: `on_signal` waits once.
- In the file server: its timers and what selects route, file or error, which
  `HttpSession` and `Routing` model; the content of files that change while they are sent;
  pages of different lengths; callbacks that leave the body's file closed.
- In `Ordered_Map`: the constructor from a list, which nothing calls; what a rehash may do
  to iterators in other libraries than libstdc++.
- In the websocket model: a send to the own session inside its destructor
  (`shared_from_this` throws there, `handle_error` swallows it, but the message stays in
  a queue that is being destroyed); callbacks that send more than once; sessions that
  callbacks join to further channels; routes added while sessions refer to the table;
  `do_timeout` and `do_shutdown` of `Websocket`, which nothing calls.
- In the routing: an invalid regular expression (thrown outside of the try block), a
  directory requested as a file, limits of the parser.
- In the client: calls of `connect()` from callbacks, and what follows `front()` on an
  empty queue, which is undefined.
- Setters and getters, constructors, formatting, mime types.

## Plan

1. *Done*: request handling and the route table, http sessions, websockets and channels,
   the client, the file server with its listener and threads.
2. *Done*: the target's parameters and `split`; the chat example, with its pages and with
   what `Server::listen` adds to the file server's.
3. *Done*: proofs of every invariant and action property of the passing runs.
4. Threads and the timer together: `run` of a session is called outside of its strand.
5. Proofs about parts that are modelled coarsely so far, once they are modelled closer: the
   file server's timers, `Server::listen` and `FileServer::listen` as one module.
