------------------------- MODULE HttpSessionProofs -------------------------
(***************************************************************************)
(* Proofs about HttpSession: its invariants for every configuration, every *)
(* set of requests and callbacks and every bound, and that it implements   *)
(* HttpExchange.                                                           *)
(***************************************************************************)
EXTENDS HttpSession, TLAPS

\* A record with (at least) the fields the session looks at.
IsOutcome(o) == {"sends", "escaped"} \subseteq DOMAIN o

\* An outcome of which nothing has been sent and nothing has escaped.
Unanswered(o) == IsOutcome(o) /\ o.sends = 0 /\ o.escaped = FALSE

\* An outcome with one response sent.
Answered(o) == o.sends = 1 /\ o.escaped = FALSE

\* The outcome of a route's callback, before and after its response is sent.
LEMMA CalledOutcome ==
    ASSUME NEW o, Unanswered(o), NEW f, NEW e
    PROVE  LET called == [o EXCEPT !.route = f, !.entry = e] IN
           /\ Unanswered(called)
           /\ Answered([called EXCEPT !.sends = 1, !.status = 200])
  BY DEF Unanswered, IsOutcome, Answered

\* serve_dynamic sends only when it returns 0.
LEMMA ServeDynamicSends ==
    ASSUME NEW a, NEW req, NEW cb
    PROVE  LET d == ServeDynamic(a, req, cb) IN
           Unanswered(d.outcome) \/ (d.code = 0 /\ Answered(d.outcome))
<1> DEFINE first == FirstOf(Matching(a, req))
           entry == Entry(a.http_routes[first], req.method)
<1>1. Unanswered(NoOutcome)
  BY DEF Unanswered, IsOutcome, NoOutcome
<1>2. LET called == [NoOutcome EXCEPT !.route = first, !.entry = entry] IN
      /\ Unanswered(called)
      /\ Answered([called EXCEPT !.sends = 1, !.status = 200])
  <2> HIDE DEF first, entry
  <2> QED BY <1>1, CalledOutcome
<1>3. CASE ~a.http_dynamic \/ Matching(a, req) = {}
  BY <1>1, <1>3 DEF ServeDynamic
<1>4. CASE ~(~a.http_dynamic \/ Matching(a, req) = {}) /\ cb.ends = "returns"
  BY <1>2, <1>4 DEF ServeDynamic
<1>5. CASE ~(~a.http_dynamic \/ Matching(a, req) = {}) /\ cb.ends # "returns"
  BY <1>2, <1>5 DEF ServeDynamic
<1> QED BY <1>3, <1>4, <1>5

\* serve_static sends exactly when it returns 0.
LEMMA ServeStaticSends ==
    ASSUME NEW a, NEW req, NEW o, Unanswered(o)
    PROVE  LET s == ServeStatic(a, req, o) IN
           \/ s.code = 0 /\ Answered(s.outcome)
           \/ s.code # 0 /\ s.outcome = o
  BY DEF ServeStatic, Unanswered, IsOutcome, Answered

\* serve_error sends one response or lets an exception escape, never both.
LEMMA ServeErrorSends ==
    ASSUME NEW a, NEW err, NEW ecb, NEW o, Unanswered(o)
    PROVE  LET r == ServeError(a, err, ecb, o) IN
           Answered(r) \/ (r.sends = 0 /\ r.escaped = TRUE)
  BY DEF ServeError, Unanswered, IsOutcome, Answered

\* handle_request sends at most one response, and none when an exception escapes:
\* the returns between the three ways of serving keep them exclusive.
THEOREM HandleRequestSends ==
    ASSUME NEW a, NEW req, NEW cb, NEW ecb
    PROVE  LET r == HandleRequest(a, req, cb, ecb) IN
           /\ r.sends \in {0, 1}
           /\ r.escaped \in BOOLEAN
           /\ r.escaped => r.sends = 0
<1> DEFINE dyna == ServeDynamic(a, req, cb)
           stat == ServeStatic(a, req, dyna.outcome)
           r == HandleRequest(a, req, cb, ecb)
           Fine(o) == o.sends \in {0, 1} /\ o.escaped \in BOOLEAN /\ (o.escaped => o.sends = 0)
<1>1. Unanswered(NoOutcome)
  BY DEF Unanswered, IsOutcome, NoOutcome
<1>2. Unanswered(dyna.outcome) \/ (dyna.code = 0 /\ Answered(dyna.outcome))
  BY ServeDynamicSends
<1>3. \A o, err : Unanswered(o) => Fine(ServeError(a, err, ecb, o))
  BY ServeErrorSends DEF Answered
<1>4. CASE ~req.wellformed
  <2>1. r = ServeError(a, 404, ecb, NoOutcome)
    BY <1>4 DEF HandleRequest
  <2> QED BY <2>1, <1>1, <1>3
<1>5. CASE req.wellformed /\ dyna.code = 0
  <2>1. r = dyna.outcome
    BY <1>5 DEF HandleRequest
  <2> QED BY <2>1, <1>2 DEF Answered, Unanswered
<1>6. CASE req.wellformed /\ dyna.code # 0 /\ dyna.code # 404
  <2>1. r = ServeError(a, dyna.code, ecb, dyna.outcome)
    BY <1>6 DEF HandleRequest
  <2> QED BY <2>1, <1>6, <1>2, <1>3
<1>7. CASE req.wellformed /\ dyna.code = 404
  <2>1. Unanswered(dyna.outcome)
    BY <1>2, <1>7
  <2>2. \/ stat.code = 0 /\ Answered(stat.outcome)
        \/ stat.code # 0 /\ stat.outcome = dyna.outcome
    BY <2>1, ServeStaticSends
  <2>3. CASE stat.code = 0
    <3>1. r = stat.outcome
      BY <1>7, <2>3 DEF HandleRequest
    <3> QED BY <3>1, <2>2, <2>3 DEF Answered
  <2>4. CASE stat.code # 0
    <3>1. r = ServeError(a, stat.code, ecb, stat.outcome)
      BY <1>7, <2>4 DEF HandleRequest
    <3> QED BY <3>1, <2>1, <2>2, <2>4, <1>3
  <2> QED BY <2>3, <2>4
<1> QED BY <1>4, <1>5, <1>6, <1>7
-----------------------------------------------------------------------------
\* Before run() nothing is pending on the session, and nothing has happened yet.
Unstarted ==
    ~started => /\ reads = 0 /\ writes = 0 /\ handshakes = 0 /\ shutdowns = 0
                /\ connects = 0 /\ answered = 0
                /\ sock = "open" /\ ~close
                /\ timer = NewTimer

\* A handshake comes before every request.
HandshakeFirst ==
    handshakes > 0 => connects = 0 /\ answered = 0 /\ ~close /\ sock # "moved"

\* Only the shutdown of ssl is an operation that takes time.
PlainShutsAtOnce == ~attr.ssl => shutdowns = 0

\* The inductive invariant: the invariants of HttpSession, and what holds of a session
\* before it has run and before it has shaken hands.
IInv ==
    /\ HttpTypeOK
    /\ OneOperation
    /\ Lockstep
    /\ UpgradeLeavesNoReader
    /\ LastResponseIsLast
    /\ Unstarted
    /\ HandshakeFirst
    /\ PlainShutsAtOnce

\* No session starts with an operation pending or an answer owed.
LEMMA InitIInv == HttpInit => IInv
<1> SUFFICES ASSUME HttpInit PROVE IInv
  OBVIOUS
<1>1. HttpTypeOK
  <2>1. timer \in Timers
    BY DEF HttpInit, NewTimer, Timers, Expiries, Waits
  <2>2. connects \in 0..MaxRequests
    BY MaxRequestsAssumption DEF HttpInit
  <2>3. closing \in BOOLEAN
    BY AttrsAssumption DEF HttpInit
  <2> QED BY <2>1, <2>2, <2>3 DEF HttpInit, HttpTypeOK
<1>2. OneOperation /\ Lockstep /\ UpgradeLeavesNoReader /\ LastResponseIsLast /\ Unstarted
      /\ HandshakeFirst
  BY DEF HttpInit, OneOperation, Lockstep, UpgradeLeavesNoReader, LastResponseIsLast, Unstarted,
         HandshakeFirst
<1>3. PlainShutsAtOnce
  BY DEF HttpInit, PlainShutsAtOnce
<1> QED BY <1>1, <1>2, <1>3 DEF IInv

\* Setting the expiry of a timer sets it, and leaves a timer.
LEMMA ExpiresAtType ==
    ASSUME NEW t \in Timers, NEW e \in Expiries
    PROVE  ExpiresAt(t, e) \in Timers /\ ExpiresAt(t, e).expiry = e
  BY DEF Timers, Expiries, Waits, ExpiresAt

\* The other operations leave a timer too.
LEMMA TimerTypes ==
    ASSUME NEW t \in Timers
    PROVE  /\ AsyncWait(t) \in Timers
           /\ Elapsed(t) \in Timers
           /\ HandlerTaken(t) \in Timers /\ HandlerTaken(t).expiry = t.expiry
  BY DEF Timers, Expiries, Waits, AsyncWait, Elapsed, HandlerTaken

\* do_shutdown leaves a timer and a socket of its kind, and moves no socket; nor does it
\* touch one that was moved, other than through the timer of an ssl session.
LEMMA DoShutdownTypes ==
    ASSUME HttpTypeOK, NEW t \in Timers, DoShutdown(t)
    PROVE  /\ timer' \in Timers /\ closing' \in BOOLEAN /\ shutdowns' \in Nat
           /\ sock' = IF sock = "open" THEN "shut" ELSE sock
           /\ ~attr.ssl => timer'.expiry = "min" /\ shutdowns' = shutdowns
<1>1. CASE attr.ssl
  <2>1. timer' = ExpiresAt(t, "later") /\ closing' = TRUE /\ shutdowns' = shutdowns + 1
    BY <1>1 DEF DoShutdown
  <2>2. timer' \in Timers
    BY <2>1, ExpiresAtType DEF Expiries
  <2> QED BY <1>1, <2>1, <2>2 DEF DoShutdown, HttpTypeOK
<1>2. CASE ~attr.ssl
  <2>1. timer' = ExpiresAt(t, "min") /\ closing' = closing /\ shutdowns' = shutdowns
    BY <1>2 DEF DoShutdown, CancelTimer
  <2>2. timer' \in Timers /\ timer'.expiry = "min"
    BY <2>1, ExpiresAtType DEF Expiries
  <2> QED BY <2>1, <2>2 DEF DoShutdown, HttpTypeOK
<1> QED BY <1>1, <1>2

\* The same of do_timeout.
LEMMA DoTimeoutTypes ==
    ASSUME HttpTypeOK, NEW t \in Timers, DoTimeout(t)
    PROVE  /\ timer' \in Timers /\ closing' \in BOOLEAN /\ shutdowns' \in Nat
           /\ sock' \in {sock, "shut"} /\ (sock # "moved" => sock' # "moved")
           /\ ~attr.ssl => shutdowns' = shutdowns
<1>1. AsyncWait(ExpiresAt(t, "max")) \in Timers
  BY ExpiresAtType, TimerTypes DEF Expiries
<1>2. CASE ~attr.ssl
  BY <1>2, DoShutdownTypes DEF DoTimeout
<1>3. CASE attr.ssl /\ closing
  BY <1>3 DEF DoTimeout, shutVars, HttpTypeOK
<1>4. CASE attr.ssl /\ ~closing
  <2>1. DoShutdown(AsyncWait(ExpiresAt(t, "max")))
    BY <1>4 DEF DoTimeout
  <2> QED BY <1>1, <2>1, DoShutdownTypes
<1> QED BY <1>2, <1>3, <1>4

\* No step breaks the inductive invariant.
LEMMA NextIInv == IInv /\ [HttpNext]_httpVars => IInv'
<1> SUFFICES ASSUME IInv, [HttpNext]_httpVars PROVE IInv'
  OBVIOUS
<1> USE DEF IInv, HttpTypeOK, OneOperation, Lockstep, UpgradeLeavesNoReader,
            LastResponseIsLast, Unstarted, HandshakeFirst, PlainShutsAtOnce
<1>0. {"max", "min", "later", "passed"} = Expiries /\ MaxRequests \in Nat
  BY MaxRequestsAssumption DEF Expiries
<1>1. CASE Run
  <2>1. timer' \in Timers
    BY <1>0, <1>1, TimerTypes, ExpiresAtType DEF Run, DoRead
  <2>2. /\ ~started /\ started'
        /\ reads = 0 /\ writes = 0 /\ handshakes = 0
        /\ connects = 0 /\ answered = 0 /\ sock = "open" /\ ~close
        /\ \/ reads' = 1 /\ handshakes' = 0
           \/ reads' = 0 /\ handshakes' = 1
        /\ UNCHANGED <<attr, writes, sock, closing, shutdowns, close, doomed, connects,
                       answered, down>>
    BY <1>1 DEF Run, DoRead, shutVars
  <2> QED BY <2>1, <2>2
<1>2. CASE Elapse
  <2>0. started
    BY <1>2 DEF Elapse, NewTimer
  <2>1. timer' \in Timers
    BY <1>2, TimerTypes DEF Elapse
  <2>2. sock # "moved"
    BY <1>2 DEF Elapse
  <2> QED BY <1>2, <2>0, <2>1, <2>2 DEF Elapse, shutVars
<1>3. CASE OnTimer
  <2>0. started
    BY <1>3 DEF OnTimer, NewTimer
  <2> DEFINE t == HandlerTaken(timer)
  <2>1. t \in Timers /\ t.expiry = timer.expiry
    BY TimerTypes
  <2>2. UNCHANGED <<attr, started, reads, writes, handshakes, close, doomed, connects,
                    answered, down>>
    BY <1>3 DEF OnTimer
  <2>3. CASE timer.expiry # "min" /\ HasExpired(timer)
    <3>1. DoTimeout(t)
      BY <1>3, <2>3 DEF OnTimer
    <3>2. /\ timer' \in Timers /\ closing' \in BOOLEAN /\ shutdowns' \in Nat
          /\ sock' \in {sock, "shut"} /\ sock' # "moved"
          /\ ~attr.ssl => shutdowns' = shutdowns
      BY <2>1, <2>3, <3>1, DoTimeoutTypes
    <3> HIDE DEF t
    <3> QED BY <2>0, <2>2, <3>2
  <2>4. CASE ~(timer.expiry # "min" /\ HasExpired(timer))
    <3>1. timer' = t /\ UNCHANGED shutVars
      BY <1>3, <2>4 DEF OnTimer
    <3> HIDE DEF t
    <3> QED BY <2>0, <2>1, <2>2, <3>1 DEF shutVars
  <2> QED BY <2>3, <2>4
<1>4. CASE OnReadEnd
  <2>1. DoShutdown(timer)
    BY <1>4 DEF OnReadEnd
  <2>2. /\ timer' \in Timers /\ closing' \in BOOLEAN /\ shutdowns' \in Nat
        /\ sock' = IF sock = "open" THEN "shut" ELSE sock
        /\ ~attr.ssl => shutdowns' = shutdowns
    BY <2>1, DoShutdownTypes
  <2> QED BY <1>4, <2>2 DEF OnReadEnd
<1>5. CASE OnReadError
  BY <1>5 DEF OnReadError, shutVars
<1>6. ASSUME NEW req \in Requests, OnReadUpgrade(req)
      PROVE  IInv'
  <2>1. /\ reads = 1 /\ reads' = 0 /\ started /\ sock # "moved"
        /\ UNCHANGED <<attr, started, writes, handshakes, close, doomed, connects,
                       answered, down>>
    BY <1>6 DEF OnReadUpgrade
  <2>2. CASE UpgradeAccepted(attr, req)
    <3>1. timer' = ExpiresAt(timer, "min") /\ sock' = "moved" /\ UNCHANGED <<closing, shutdowns>>
      BY <1>6, <2>2 DEF OnReadUpgrade, CancelTimer
    <3>2. timer' \in Timers /\ timer'.expiry = "min"
      BY <1>0, <3>1, ExpiresAtType
    <3> QED BY <2>1, <3>1, <3>2
  <2>3. CASE ~UpgradeAccepted(attr, req)
    <3>1. DoShutdown(timer)
      BY <1>6, <2>3 DEF OnReadUpgrade
    <3>2. /\ timer' \in Timers /\ closing' \in BOOLEAN /\ shutdowns' \in Nat
          /\ sock' = IF sock = "open" THEN "shut" ELSE sock
          /\ ~attr.ssl => shutdowns' = shutdowns
      BY <3>1, DoShutdownTypes
    <3> QED BY <2>1, <3>2
  <2> QED BY <2>2, <2>3
<1>7. ASSUME NEW req \in Requests, NEW cb \in Callbacks, NEW ecb \in Callbacks,
             OnReadRequest(req, cb, ecb)
      PROVE  IInv'
  <2> DEFINE outcome == HandleRequest(attr, req, cb, ecb)
  <2>1. outcome.sends \in {0, 1} /\ outcome.escaped \in BOOLEAN
    BY HandleRequestSends
  <2> HIDE DEF outcome
  <2>2. /\ reads > 0 /\ connects < MaxRequests
        /\ reads' = reads - 1 /\ connects' = connects + 1
        /\ writes' = writes + outcome.sends
        /\ down' = outcome.escaped
        /\ UNCHANGED <<attr, started, timer, handshakes, sock, closing, shutdowns, answered>>
    BY <1>7 DEF OnReadRequest, SendResponse, outcome, shutVars
  <2>3. close' \in BOOLEAN /\ doomed' \in BOOLEAN
    BY <1>7 DEF OnReadRequest, SendResponse
  <2>4. reads = 1 /\ writes = 0 /\ handshakes = 0 /\ started
    BY <2>2
  <2> QED BY <1>0, <2>1, <2>2, <2>3, <2>4
<1>8. CASE OnWriteOk
  <2>1. /\ reads = 0 /\ writes = 1 /\ handshakes = 0 /\ started /\ sock # "moved"
        /\ writes' = 0 /\ answered' = answered + 1
        /\ AfterWrite(timer)
        /\ UNCHANGED <<attr, started, handshakes, close, doomed, connects, down>>
    BY <1>8 DEF OnWriteOk
  <2>2. CASE close
    <3>1. DoShutdown(timer) /\ reads' = 0
      BY <2>1, <2>2 DEF AfterWrite
    <3>2. /\ timer' \in Timers /\ closing' \in BOOLEAN /\ shutdowns' \in Nat
          /\ sock' = IF sock = "open" THEN "shut" ELSE sock
          /\ ~attr.ssl => shutdowns' = shutdowns
      BY <3>1, DoShutdownTypes
    <3> QED BY <2>1, <2>2, <3>1, <3>2
  <2>3. CASE ~close
    <3>1. timer' = ExpiresAt(timer, "later") /\ reads' = 1 /\ UNCHANGED shutVars
      BY <2>1, <2>3 DEF AfterWrite, DoRead
    <3>2. timer' \in Timers
      BY <1>0, <3>1, ExpiresAtType
    <3> QED BY <2>1, <2>3, <3>1, <3>2 DEF shutVars
  <2> QED BY <2>2, <2>3
<1>9. CASE OnWriteError
  BY <1>9 DEF OnWriteError, shutVars
<1>10. CASE OnHandshakeOk
  <2>1. timer' \in Timers
    BY <1>0, <1>10, ExpiresAtType DEF OnHandshakeOk, DoRead
  <2>2. /\ reads = 0 /\ writes = 0 /\ handshakes = 1 /\ started
        /\ connects = 0 /\ answered = 0 /\ ~close /\ sock # "moved"
        /\ reads' = 1 /\ handshakes' = 0 /\ closing' = FALSE
        /\ UNCHANGED <<attr, started, writes, shutdowns, sock, close, doomed, connects,
                       answered, down>>
    BY <1>10 DEF OnHandshakeOk, DoRead
  <2>3. HttpTypeOK'
    BY <2>1, <2>2
  <2> QED BY <2>2, <2>3
<1>11. CASE OnHandshakeFail
  BY <1>11 DEF OnHandshakeFail, shutVars
<1>12. CASE OnShutdown
  <2>1. timer' \in Timers /\ timer'.expiry = "min"
    BY <1>0, <1>12, ExpiresAtType DEF OnShutdown, CancelTimer
  <2> QED BY <1>12, <2>1 DEF OnShutdown
<1>13. CASE UNCHANGED httpVars
  BY <1>13 DEF httpVars, shutVars
<1> QED BY <1>1, <1>2, <1>3, <1>4, <1>5, <1>6, <1>7, <1>8, <1>9, <1>10, <1>11, <1>12,
           <1>13
        DEF HttpNext, OnHttpRead, OnHttpWrite, OnHandshake

\* The inductive invariant holds throughout.
THEOREM Invariance == HttpSpec => []IInv
  BY InitIInv, NextIInv, PTL DEF HttpSpec

\* Type correctness of the session, for every configuration and bound.
THEOREM TypeCorrect == HttpSpec => []HttpTypeOK
  BY Invariance, PTL DEF IInv

\* At most one operation is pending on a session, whatever the client sends and
\* however the callbacks end.
THEOREM OneOperationAlways == HttpSpec => []OneOperation
  BY Invariance, PTL DEF IInv

\* Requests are answered one by one and in order.
THEOREM LockstepAlways == HttpSpec => []Lockstep
  BY Invariance, PTL DEF IInv

\* Upgrading a session leaves it no read, write or handshake of its own and no timer that
\* could still time it out; a plain session has no shutdown pending either.
THEOREM UpgradeLeavesNoReaderAlways == HttpSpec => []UpgradeLeavesNoReader
  BY Invariance, PTL DEF IInv

\* Nothing is read after a response that needs the end of the stream.
THEOREM LastResponseIsLastAlways == HttpSpec => []LastResponseIsLast
  BY Invariance, PTL DEF IInv
-----------------------------------------------------------------------------
\* The session starts as an idle exchange.
LEMMA InitRefines == HttpInit => Exchange!ExchangeInit
  BY DEF HttpInit, stage, Exchange!ExchangeInit

\* Every step of the session is a step of the exchange or leaves it unchanged.
LEMMA NextRefines ==
    IInv /\ IInv' /\ [HttpNext]_httpVars => [Exchange!ExchangeNext]_(Exchange!exchangeVars)
<1> SUFFICES ASSUME IInv, IInv', [HttpNext]_httpVars
             PROVE  [Exchange!ExchangeNext]_(Exchange!exchangeVars)
  OBVIOUS
<1> USE DEF IInv, HttpTypeOK, OneOperation, Lockstep, Unstarted, HandshakeFirst, stage,
            Exchange!ExchangeNext, Exchange!Receive, Exchange!Answer, Exchange!Abandon,
            Exchange!exchangeVars
<1>1. CASE Run
  BY <1>1 DEF Run, DoRead
<1>2. CASE Elapse
  BY <1>2 DEF Elapse
<1>3. CASE OnTimer
  BY <1>3 DEF OnTimer
<1>4. CASE OnReadEnd
  BY <1>4 DEF OnReadEnd
<1>5. CASE OnReadError
  BY <1>5 DEF OnReadError
<1>6. ASSUME NEW req \in Requests, OnReadUpgrade(req)
      PROVE  Exchange!Abandon
  BY <1>6 DEF OnReadUpgrade
<1>7. ASSUME NEW req \in Requests, NEW cb \in Callbacks, NEW ecb \in Callbacks,
             OnReadRequest(req, cb, ecb)
      PROVE  Exchange!Receive
  <2>1. /\ reads = 1 /\ reads' = 0 /\ ~down /\ started /\ started' = started
        /\ connects' = connects + 1 /\ answered' = answered
    BY <1>7 DEF OnReadRequest
  <2> QED BY <2>1
<1>8. CASE OnWriteOk
  <2>1. /\ reads = 0 /\ writes = 1 /\ ~down /\ started
        /\ writes' = 0 /\ answered' = answered + 1
        /\ UNCHANGED <<started, connects, down>>
    BY <1>8 DEF OnWriteOk
  <2> QED BY <2>1
<1>9. CASE OnWriteError
  BY <1>9 DEF OnWriteError
<1>10. CASE OnHandshakeOk
  BY <1>10 DEF OnHandshakeOk, DoRead
<1>11. CASE OnHandshakeFail
  BY <1>11 DEF OnHandshakeFail
<1>12. CASE OnShutdown
  BY <1>12 DEF OnShutdown
<1>13. CASE UNCHANGED httpVars
  BY <1>13 DEF httpVars
<1> QED BY <1>1, <1>2, <1>3, <1>4, <1>5, <1>6, <1>7, <1>8, <1>9, <1>10, <1>11, <1>12,
           <1>13
        DEF HttpNext, OnHttpRead, OnHttpWrite, OnHandshake

\* The session implements the promise of HttpExchange.
THEOREM ExchangeImplemented == HttpSpec => ImplementsExchange
  BY InitRefines, NextRefines, Invariance, PTL
     DEF HttpSpec, ImplementsExchange, Exchange!ExchangeSpec
=============================================================================
