----------------------------- MODULE ChatProofs -----------------------------
(***************************************************************************)
(* Proofs about Chat, for any pages, rooms, messages and limits: when a    *)
(* page tries again, the number of users, the numbers every page shows,    *)
(* and the messages the page of a room shows.                              *)
(***************************************************************************)
EXTENDS Chat, FiniteSetTheorems, SequenceTheorems, WellFoundedInduction, TLAPS

\* A set of natural numbers that is not empty has a least element.
LEMMA LeastNat ==
    ASSUME NEW S, S \subseteq Nat, S # {}
    PROVE  \E i \in S : \A j \in S : i <= j
<1> DEFINE R == OpToRel(<, Nat)
<1>1. IsWellFoundedOn(R, Nat)
  BY NatLessThanWellFounded
<1>2. \A i, j \in Nat : i < j => <<i, j>> \in R
  BY Zenon DEF OpToRel
<1> HIDE DEF R
<1>3. PICK i \in S : \A j \in S : ~(<<j, i>> \in R)
  BY <1>1, WFMin
<1>4. ASSUME NEW j \in S PROVE i <= j
  <2>1. i \in Nat /\ j \in Nat
    OBVIOUS
  <2>2. ~(j < i)
    BY <1>2, <1>3, <2>1, Zenon
  <2> QED BY <2>1, <2>2
<1> QED BY <1>4

\* The smaller of two numbers.
LEMMA MinOfTwo ==
    ASSUME NEW a \in Int, NEW b \in Int
    PROVE  Min({a, b}) = IF a <= b THEN a ELSE b
  BY DEF Min

-----------------------------------------------------------------------------
(* The waits of a page. *)

\* PowerOfTwo is what its equation says.
LEMMA PowerOfTwoValues ==
    /\ PowerOfTwo[0] = 1
    /\ \A n \in 1..RetryMax : PowerOfTwo[n] = 2 * PowerOfTwo[n - 1]
    /\ \A n \in 0..RetryMax : PowerOfTwo[n] \in Nat \ {0}
<1> DEFINE Powers(n, f) == f = [i \in 0..n |-> IF i = 0 THEN 1 ELSE 2 * f[i - 1]]
           Missing == {n \in Nat : ~ \E f : Powers(n, f)}
<1>1. Missing = {}
  <2> SUFFICES ASSUME Missing # {} PROVE FALSE
    OBVIOUS
  <2>1. PICK m \in Missing : \A j \in Missing : m <= j
    BY LeastNat
  <2>2. CASE m = 0
    <3>1. Powers(m, [i \in 0..0 |-> 1])
      BY <2>2
    <3> QED BY <3>1
  <2>3. CASE m # 0
    <3>1. m \in Nat /\ m - 1 \in Nat /\ ~(m <= m - 1)
      BY <2>3
    <3>2. PICK f : Powers(m - 1, f)
      <4>1. m - 1 \notin Missing
        <5> HIDE DEF Missing
        <5> QED BY <2>1, <3>1
      <4> HIDE DEF Powers
      <4> QED BY <3>1, <4>1
    <3> DEFINE g == [i \in 0..m |-> IF i = m THEN 2 * f[m - 1] ELSE f[i]]
    <3>3. ASSUME NEW i \in 0..m
          PROVE  g[i] = IF i = 0 THEN 1 ELSE 2 * g[i - 1]
      <4>1. CASE i = m
        BY <2>3, <4>1
      <4>2. CASE i # m
        <5>1. i \in 0..(m - 1) /\ (i # 0 => i - 1 \in 0..m /\ i - 1 # m)
          BY <4>2
        <5>2. f[i] = IF i = 0 THEN 1 ELSE 2 * f[i - 1]
          BY <3>2, <5>1
        <5> QED BY <4>2, <5>1, <5>2
      <4> QED BY <4>1, <4>2
    <3>4. Powers(m, g)
      BY <3>3
    <3> QED BY <3>4
  <2> QED BY <2>2, <2>3
<1>2. RetryMax \in Nat
  BY SizesAssumption
<1>3. \E f : Powers(RetryMax, f)
  BY <1>1, <1>2
<1>4. Powers(RetryMax, PowerOfTwo)
  BY <1>3 DEF PowerOfTwo
<1>5. PowerOfTwo[0] = 1 /\ \A n \in 1..RetryMax : PowerOfTwo[n] = 2 * PowerOfTwo[n - 1]
  BY <1>2, <1>4
<1> DEFINE Wrong == {n \in Nat : n <= RetryMax /\ PowerOfTwo[n] \notin Nat \ {0}}
<1>6. Wrong = {}
  <2> SUFFICES ASSUME Wrong # {} PROVE FALSE
    OBVIOUS
  <2>1. PICK m \in Wrong : \A j \in Wrong : m <= j
    BY LeastNat
  <2>2. m # 0
    BY <1>5
  <2>3. m - 1 \in Nat /\ m - 1 \notin Wrong
    BY <2>1, <2>2
  <2>4. PowerOfTwo[m - 1] \in Nat \ {0}
    BY <1>2, <2>3
  <2>5. PowerOfTwo[m] = 2 * PowerOfTwo[m - 1]
    BY <1>2, <1>5, <2>2
  <2> QED BY <2>4, <2>5
<1> QED BY <1>2, <1>5, <1>6

\* The pages: between two connections the wait is as long as the attempts in a row say,
\* and no attempt is made beyond the last.
ReadyStates == {"loading", "connecting", "open", "waiting", "stopped"}
Attempts    == 0..RetryMax + 1
Waits       == 1..TimeoutMax
PageRecord  == [ready : ReadyStates, ws : 0..2, retry : Attempts, wait : Waits]

WaitsWell(g) ==
    /\ g.ready # "stopped" => g.retry <= RetryMax
    /\ g.ready = "loading" => g.retry = 0
    /\ g.ready = "waiting" => g.retry # 0
    /\ g.retry = 0 => g.wait = 1
    /\ g.retry \in 1..RetryMax => g.wait = Min({PowerOfTwo[g.retry - 1], TimeoutMax})

PagesOK ==
    /\ path \in [Pages -> Paths]
    /\ page \in [Pages -> PageRecord]
    /\ \A p \in Pages : WaitsWell(page[p])

\* onclose doubles the wait, but for the first time.
LEMMA ClosedWaitsWell ==
    ASSUME NEW g \in PageRecord, WaitsWell(g), g.ready # "stopped"
    PROVE  Closed(g) \in PageRecord /\ WaitsWell(Closed(g))
<1> DEFINE c == Closed(g)
           doubled == IF g.retry > 0 THEN 2 * g.wait ELSE g.wait
<1> USE SizesAssumption
<1>1. /\ g.retry \in 0..RetryMax /\ g.wait \in 1..TimeoutMax
  BY DEF PageRecord, ReadyStates, Attempts, Waits, WaitsWell
<1>2. /\ c.retry = g.retry + 1 /\ c.ws = 0
      /\ c.wait = IF doubled > TimeoutMax THEN TimeoutMax ELSE doubled
      /\ c.ready = IF g.retry + 1 > RetryMax THEN "stopped" ELSE "waiting"
  BY DEF Closed
<1>3. c \in PageRecord
  BY <1>1, <1>2 DEF PageRecord, ReadyStates, Attempts, Waits, Closed
<1>4. c.wait = IF g.retry = 0 THEN 1
               ELSE Min({2 * PowerOfTwo[g.retry - 1], TimeoutMax})
  <2>1. CASE g.retry = 0
    BY <1>1, <1>2, <2>1 DEF WaitsWell
  <2>2. CASE g.retry # 0
    <3>1. g.retry \in 1..RetryMax /\ g.retry - 1 \in 0..RetryMax
      BY <1>1, <2>2
    <3>2. PowerOfTwo[g.retry - 1] \in Nat \ {0}
      BY <3>1, PowerOfTwoValues
    <3>3. g.wait = Min({PowerOfTwo[g.retry - 1], TimeoutMax})
      BY <3>1 DEF WaitsWell
    <3>4. g.wait = IF PowerOfTwo[g.retry - 1] <= TimeoutMax THEN PowerOfTwo[g.retry - 1]
                   ELSE TimeoutMax
      BY <3>2, <3>3, MinOfTwo
    <3>5. Min({2 * PowerOfTwo[g.retry - 1], TimeoutMax}) =
              IF 2 * PowerOfTwo[g.retry - 1] <= TimeoutMax THEN 2 * PowerOfTwo[g.retry - 1]
              ELSE TimeoutMax
      BY <3>2, MinOfTwo
    <3>6. c.wait = IF 2 * g.wait > TimeoutMax THEN TimeoutMax ELSE 2 * g.wait
      BY <1>1, <1>2, <2>2
    <3> HIDE DEF c, doubled
    <3> QED BY <2>2, <3>2, <3>4, <3>5, <3>6
  <2> QED BY <2>1, <2>2
<1>5. ASSUME c.retry \in 1..RetryMax
      PROVE  c.wait = Min({PowerOfTwo[c.retry - 1], TimeoutMax})
  <2>1. CASE g.retry = 0
    <3>1. Min({PowerOfTwo[0], TimeoutMax}) = 1
      BY PowerOfTwoValues, MinOfTwo
    <3>2. c.retry - 1 = 0
      BY <1>2, <2>1
    <3> QED BY <1>4, <2>1, <3>1, <3>2
  <2>2. CASE g.retry # 0
    <3>1. g.retry \in 1..RetryMax /\ c.retry - 1 = g.retry
      BY <1>1, <1>2, <1>5, <2>2
    <3>2. PowerOfTwo[g.retry] = 2 * PowerOfTwo[g.retry - 1]
      BY <3>1, PowerOfTwoValues
    <3> QED BY <1>4, <2>2, <3>1, <3>2
  <2> QED BY <2>1, <2>2
<1> HIDE DEF c
<1>6. WaitsWell(c)
  BY <1>1, <1>2, <1>5 DEF WaitsWell
<1> QED BY <1>3, <1>6 DEF c

\* websocket() goes on counting, onopen begins anew.
LEMMA OpenedWaitsWell ==
    ASSUME NEW g \in PageRecord, WaitsWell(g), NEW i \in {1, 2}
    PROVE  /\ Opened(g) \in PageRecord /\ WaitsWell(Opened(g))
           /\ g.ready # "stopped" => Opening(g, i) \in PageRecord /\ WaitsWell(Opening(g, i))
<1> DEFINE o == Opened(g)
           c == Opening(g, i)
<1>1. o \in PageRecord /\ o.ready = "open" /\ o.retry = 0 /\ o.wait = 1
  <2>1. 0 \in Attempts /\ 1 \in Waits /\ "open" \in ReadyStates
    BY SizesAssumption DEF Attempts, Waits, ReadyStates
  <2> QED BY <2>1 DEF PageRecord, Opened
<1>2. c \in PageRecord /\ c.ready = "connecting" /\ c.retry = g.retry /\ c.wait = g.wait
  <2>1. "connecting" \in ReadyStates /\ i \in 0..2
    BY DEF ReadyStates
  <2> QED BY <2>1 DEF PageRecord, Opening
<1> HIDE DEF o, c
<1>3. WaitsWell(o)
  BY <1>1, SizesAssumption DEF WaitsWell
<1>4. g.ready # "stopped" => WaitsWell(c)
  <2>1. g.retry \in Nat /\ (g.ready = "loading" => g.retry = 0)
    BY SizesAssumption DEF PageRecord, ReadyStates, Attempts, Waits, WaitsWell
  <2> QED BY <1>2, <2>1 DEF WaitsWell
<1> QED BY <1>1, <1>2, <1>3, <1>4 DEF o, c

\* No step makes a page wait otherwise.
LEMMA PagesStep == PagesOK /\ [Next]_vars => PagesOK'
<1> SUFFICES ASSUME PagesOK, [Next]_vars PROVE PagesOK'
  OBVIOUS
<1> USE SizesAssumption
<1>1. CASE \E p \in Pages : Websocket(p)
  <2>1. PICK p \in Pages, i \in {1, 2} :
            /\ page[p].ready \in {"loading", "waiting"}
            /\ page' = [page EXCEPT ![p] = Opening(@, i)] /\ path' = path
    BY <1>1 DEF Websocket
  <2>2. Opening(page[p], i) \in PageRecord /\ WaitsWell(Opening(page[p], i))
    BY <2>1, OpenedWaitsWell DEF PagesOK
  <2> QED BY <2>1, <2>2 DEF PagesOK
<1>2. CASE \E p \in Pages : OnOpen(p)
  <2>1. PICK p \in Pages : page' = [page EXCEPT ![p] = Opened(@)] /\ path' = path
    BY <1>2 DEF OnOpen
  <2>2. Opened(page[p]) \in PageRecord /\ WaitsWell(Opened(page[p]))
    BY OpenedWaitsWell DEF PagesOK
  <2> QED BY <2>1, <2>2 DEF PagesOK
<1>3. CASE \E p \in Pages : OnClose(p)
  <2>1. PICK p \in Pages :
            /\ page[p].ready \in {"connecting", "open"}
            /\ page' = [page EXCEPT ![p] = Closed(@)] /\ path' = path
    BY <1>3 DEF OnClose
  <2>2. Closed(page[p]) \in PageRecord /\ WaitsWell(Closed(page[p]))
    BY <2>1, ClosedWaitsWell DEF PagesOK
  <2> QED BY <2>1, <2>2 DEF PagesOK
<1>4. CASE UNCHANGED <<path, page>>
  BY <1>4 DEF PagesOK
<1>5. \/ \E p \in Pages : Websocket(p) \/ OnOpen(p) \/ OnClose(p)
      \/ UNCHANGED <<path, page>>
  BY DEF Next, vars, pageVars, Listen, OnSignal, Submit, Upgrade, OnAccept, OnAcceptFail,
         OnReadFail, OnRead, Enter, Finish, Exit
<1> QED BY <1>1, <1>2, <1>3, <1>4, <1>5

\* The pages are as they should be, whatever the server does.
THEOREM PagesInductive == Spec => []PagesOK
<1>1. Init => PagesOK
  <2>1. NewPage \in PageRecord /\ WaitsWell(NewPage)
    BY SizesAssumption DEF NewPage, PageRecord, ReadyStates, Attempts, Waits, WaitsWell
  <2> QED BY <2>1, PathsAssumption DEF Init, PagesOK
<1> QED BY <1>1, PagesStep, PTL DEF Spec

\* A page waits as long as the attempts before say, and never for one too many.
THEOREM BackoffDoublesAlways == Spec => []BackoffDoubles
<1>1. PagesOK => BackoffDoubles
  BY SizesAssumption DEF PagesOK, PageRecord, ReadyStates, Attempts, Waits, WaitsWell, BackoffDoubles
<1> QED BY <1>1, PagesInductive, PTL

-----------------------------------------------------------------------------
(* The number of users. *)

\* What a thread may be doing.
JobRecord == [socket : Sockets, kind : {"accept", "refuse", "leave"}, count : Int]

SessionStates == {"none", "asking", "open", "ended"}

OpenIn(s) == {k \in Sockets : s[k] = "open"}

\* The variables the number of users depends on.
CountTypes ==
    /\ server \in {"off", "on", "deaf"} /\ threads \in 1..Asked
    /\ job \in [1..Asked -> {Idle} \cup JobRecord]
    /\ session \in [Sockets -> SessionStates]
    /\ userCount \in Int /\ refused \in 0..MaxRefused

\* A server that is off has no users; one that runs has one thread.
OffIsEmpty ==
    IF server = "off"
    THEN userCount = 0 /\ refused = 0 /\ \A k \in Sockets : session[k] \in {"none", "ended"}
    ELSE threads = 1

\* The only thread that ever is in a handler is the first one, so that nothing counts
\* between the read of the number and the end of the handler that has read it.
JobsOK ==
    \A t \in 1..Asked : job[t] # Idle =>
        /\ t = 1 /\ server # "off" /\ job[t].count = userCount
        /\ session[job[t].socket] = IF job[t].kind = "leave" THEN "open" ELSE "asking"
        /\ job[t].kind = "refuse" => refused < MaxRefused

CountOK ==
    /\ CountTypes /\ OffIsEmpty /\ JobsOK
    /\ userCount = Cardinality(OpenIn(session)) - refused

countVars == <<server, threads, job, session, userCount, refused>>

\* The mark of a thread with nothing to do is no record of a handler.
LEMMA IdleIsNoJob == Idle \notin JobRecord
<1>1. Idle.kind = "none"
  BY DEF Idle
<1> QED BY <1>1 DEF JobRecord

\* The open sessions are finitely many, so they can be counted.
LEMMA OpenFinite ==
    ASSUME NEW s
    PROVE  IsFiniteSet(OpenIn(s)) /\ Cardinality(OpenIn(s)) \in Nat
<1>1. OpenIn(s) \in SUBSET Sockets
  BY DEF OpenIn
<1> QED BY <1>1, SocketsAssumption, FS_Subset, FS_CardinalityType

\* The count is right before the server was started: nobody is there.
LEMMA InitCount == Init => CountOK
<1> SUFFICES ASSUME Init PROVE CountOK
  OBVIOUS
<1>1. OpenIn(session) = {}
  BY DEF Init, OpenIn
<1>2. Cardinality(OpenIn(session)) = 0
  BY <1>1, FS_EmptySet
<1>3. CountTypes
  BY SizesAssumption DEF Init, CountTypes, SessionStates
<1>4. OffIsEmpty /\ JobsOK
  BY DEF Init, OffIsEmpty, JobsOK
<1>5. userCount = 0 /\ refused = 0
  BY DEF Init
<1> QED BY <1>2, <1>3, <1>4, <1>5 DEF CountOK

\* A step that touches neither the sessions nor the threads keeps the count right.
LEMMA UnchangedCount == CountOK /\ UNCHANGED countVars => CountOK'
  BY DEF CountOK, CountTypes, OffIsEmpty, JobsOK, countVars, OpenIn

\* What the exit of the program leaves of a session is not an open one.
LEMMA GoneIsClosed ==
    ASSUME NEW k
    PROVE  Gone(k) \in {"none", "ended"}
  BY DEF Gone

\* onclose of a page forgets a session that had ended: nobody leaves the count.
LEMMA CloseCount ==
    ASSUME CountOK, NEW p \in Pages, OnClose(p)
    PROVE  CountOK'
<1>1. /\ UNCHANGED <<server, threads, job, userCount, refused>>
      /\ session' = [k \in Sockets |-> IF k = <<p, page[p].ws>> /\ session[k] = "ended"
                                       THEN "none" ELSE session[k]]
  BY DEF OnClose, serverVars
<1>2. \A k \in Sockets : \/ session'[k] = session[k]
                         \/ session[k] = "ended" /\ session'[k] = "none"
  BY <1>1
<1>3. session' \in [Sockets -> SessionStates]
  BY <1>1 DEF CountOK, CountTypes, SessionStates
<1>4. OpenIn(session') = OpenIn(session)
  BY <1>2 DEF OpenIn
<1>5. JobsOK'
  <2> SUFFICES ASSUME NEW t \in 1..Asked, job[t] # Idle
               PROVE  session'[job[t].socket] = session[job[t].socket]
    BY <1>1 DEF CountOK, JobsOK
  <2>1. job[t].socket \in Sockets
    BY DEF CountOK, CountTypes, JobRecord
  <2>2. session[job[t].socket] # "ended"
    BY DEF CountOK, JobsOK
  <2> QED BY <1>2, <2>1, <2>2
<1>6. OffIsEmpty'
  BY <1>1, <1>2 DEF CountOK, OffIsEmpty
<1> QED BY <1>1, <1>3, <1>4, <1>5, <1>6 DEF CountOK, CountTypes

\* listen() starts with no session and a count of nobody.
LEMMA ListenCount ==
    ASSUME CountOK, Listen
    PROVE  CountOK'
<1>1. /\ server = "off" /\ server' \in {"on", "deaf"} /\ threads' = Limited(Asked)
      /\ UNCHANGED <<job, session, userCount, refused>>
  BY DEF Listen, Running
<1>2. threads' = 1
  BY <1>1, SizesAssumption DEF Limited
<1>3. \A t \in 1..Asked : job[t] = Idle
  BY <1>1 DEF CountOK, JobsOK
<1> QED BY <1>1, <1>2, <1>3, SizesAssumption DEF CountOK, CountTypes, OffIsEmpty, JobsOK, OpenIn

\* Whoever was there, the process ends with nobody.
LEMMA ExitCount ==
    ASSUME CountOK, Exit
    PROVE  CountOK'
<1>1. /\ server' = "off" /\ job' = [t \in 1..Asked |-> Idle] /\ threads' = threads
      /\ session' = [k \in Sockets |-> Gone(k)] /\ userCount' = 0 /\ refused' = 0
  BY DEF Exit
<1>2. \A k \in Sockets : session'[k] \in {"none", "ended"}
  BY <1>1, GoneIsClosed
<1>3. OpenIn(session') = {}
  BY <1>2 DEF OpenIn
<1>4. Cardinality(OpenIn(session')) = 0
  BY <1>3, FS_EmptySet
<1>5. session' \in [Sockets -> SessionStates]
  BY <1>1, <1>2 DEF SessionStates
<1>6. CountTypes'
  BY <1>1, <1>5, SizesAssumption DEF CountOK, CountTypes
<1>7. OffIsEmpty' /\ JobsOK'
  BY <1>1, <1>2 DEF OffIsEmpty, JobsOK
<1> QED BY <1>1, <1>4, <1>6, <1>7 DEF CountOK

\* A session that waits for its handshake is not counted yet.
LEMMA UpgradeCount ==
    ASSUME CountOK, NEW k \in Sockets, Upgrade(k)
    PROVE  CountOK'
<1>1. /\ server = "on" /\ session[k] = "none" /\ session' = [session EXCEPT ![k] = "asking"]
      /\ UNCHANGED <<server, threads, job, userCount, refused>>
  BY DEF Upgrade, serverVars
<1>2. session' \in [Sockets -> SessionStates]
  BY <1>1 DEF CountOK, CountTypes, SessionStates
<1>3. OpenIn(session') = OpenIn(session)
  BY <1>1 DEF OpenIn, CountOK, CountTypes
<1>4. JobsOK'
  <2> SUFFICES ASSUME NEW t \in 1..Asked, job[t] # Idle
               PROVE  session'[job[t].socket] = session[job[t].socket]
    BY <1>1 DEF CountOK, JobsOK
  <2>1. session[job[t].socket] # "none"
    BY DEF CountOK, JobsOK
  <2>2. job[t].socket # k
    BY <1>1, <2>1
  <2> QED BY <1>1, <2>2 DEF CountOK, CountTypes
<1>5. OffIsEmpty'
  BY <1>1 DEF CountOK, OffIsEmpty
<1> QED BY <1>1, <1>2, <1>3, <1>4, <1>5 DEF CountOK, CountTypes

\* A handler begins when no other runs.
LEMMA EnterCount ==
    ASSUME CountOK, NEW k \in Sockets, NEW kind \in {"accept", "refuse", "leave"},
           Enter(k, kind),
           session[k] = IF kind = "leave" THEN "open" ELSE "asking",
           kind = "refuse" => refused < MaxRefused
    PROVE  CountOK'
<1>1. PICK t \in 1..threads :
          /\ job[t] = Idle
          /\ job' = [job EXCEPT ![t] = [socket |-> k, kind |-> kind, count |-> userCount]]
          /\ UNCHANGED <<server, threads, session, userCount, refused>>
  BY DEF Enter, serverVars
<1> DEFINE new == [socket |-> k, kind |-> kind, count |-> userCount]
<1>2. new \in JobRecord
  BY DEF CountOK, CountTypes, JobRecord
<1>3. server # "off"
  BY DEF CountOK, OffIsEmpty
<1>4. threads = 1 /\ t = 1 /\ 1 \in 1..Asked
  BY <1>1, <1>3, SizesAssumption DEF CountOK, OffIsEmpty
<1>5. new.count = userCount /\ new.socket = k /\ new.kind = kind
  OBVIOUS
<1> HIDE DEF new
<1>6. job' = [job EXCEPT ![1] = new]
  BY <1>1, <1>4 DEF new
<1>7. CountTypes'
  BY <1>1, <1>2, <1>6 DEF CountOK, CountTypes
<1>8. JobsOK'
  <2> SUFFICES ASSUME NEW s \in 1..Asked, job'[s] # Idle
               PROVE  /\ s = 1 /\ server' # "off" /\ job'[s].count = userCount'
                      /\ session'[job'[s].socket] = IF job'[s].kind = "leave" THEN "open"
                                                    ELSE "asking"
                      /\ job'[s].kind = "refuse" => refused' < MaxRefused
    BY DEF JobsOK
  <2>1. s = 1
    BY <1>6 DEF CountOK, CountTypes, JobsOK
  <2>2. job'[s] = new
    BY <1>4, <1>6, <2>1 DEF CountOK, CountTypes
  <2> QED BY <1>1, <1>3, <1>5, <2>1, <2>2
<1>9. OffIsEmpty' /\ OpenIn(session') = OpenIn(session)
  BY <1>1 DEF CountOK, OffIsEmpty, OpenIn
<1> QED BY <1>1, <1>7, <1>8, <1>9 DEF CountOK

\* A thread that is in a handler, and what is true then.
LEMMA JobFacts ==
    ASSUME CountOK, NEW t \in 1..Asked, job[t] # Idle
    PROVE  /\ t = 1 /\ server # "off" /\ job[t] \in JobRecord /\ job[t].socket \in Sockets
           /\ job[t].count = userCount
           /\ job[t].kind = "accept" => session[job[t].socket] = "asking"
           /\ job[t].kind = "refuse" => session[job[t].socket] = "asking" /\ refused < MaxRefused
           /\ job[t].kind = "leave" => session[job[t].socket] = "open"
           /\ job[t].kind \in {"accept", "refuse", "leave"}
<1>1. job[t] \in JobRecord
  BY DEF CountOK, CountTypes
<1> QED BY <1>1 DEF CountOK, JobsOK, JobRecord

\* At the end of a handler, no thread is in one.
LEMMA FinishedJobs ==
    ASSUME CountOK, NEW t \in 1..Asked, job[t] # Idle, job' = [job EXCEPT ![t] = Idle]
    PROVE  job' \in [1..Asked -> {Idle} \cup JobRecord] /\ \A s \in 1..Asked : job'[s] = Idle
<1>1. \A s \in 1..Asked : s # t => job[s] = Idle
  BY JobFacts
<1> QED BY <1>1 DEF CountOK, CountTypes

\* At the end of a handler its session is counted, or no longer, as userCount says.
LEMMA FinishCount ==
    ASSUME CountOK, NEW t \in 1..Asked, Finish(t)
    PROVE  CountOK'
<1> DEFINE k == job[t].socket
<1>1. job[t] # Idle /\ job' = [job EXCEPT ![t] = Idle]
  BY DEF Finish
<1>2. /\ server # "off" /\ k \in Sockets /\ job[t].count = userCount
      /\ job[t].kind = "accept" => session[k] = "asking"
      /\ job[t].kind = "refuse" => session[k] = "asking" /\ refused < MaxRefused
      /\ job[t].kind = "leave" => session[k] = "open"
      /\ job[t].kind \in {"accept", "refuse", "leave"}
  BY <1>1, JobFacts
<1>3. job' \in [1..Asked -> {Idle} \cup JobRecord] /\ JobsOK'
  BY <1>1, FinishedJobs DEF JobsOK
<1>4. CASE /\ job[t].kind = "accept" /\ Accepted(t)
           /\ UNCHANGED <<pageVars, starts, threads, chat, log>>
  <2>1. /\ session' = [session EXCEPT ![k] = "open"] /\ userCount' = userCount + 1
        /\ UNCHANGED <<server, threads, refused>>
    BY <1>2, <1>4 DEF Accepted
  <2>2. OpenIn(session') = OpenIn(session) \cup {k} /\ k \notin OpenIn(session)
    BY <1>2, <1>4, <2>1 DEF OpenIn, CountOK, CountTypes
  <2>3. Cardinality(OpenIn(session')) = Cardinality(OpenIn(session)) + 1
    BY <2>2, OpenFinite, FS_AddElement
  <2>4. userCount' = Cardinality(OpenIn(session')) - refused'
    BY <2>1, <2>3, OpenFinite DEF CountOK, CountTypes
  <2>5. CountTypes'
    <3>1. session' \in [Sockets -> SessionStates]
      BY <2>1 DEF CountOK, CountTypes, SessionStates
    <3>2. userCount' \in Int /\ refused' \in 0..MaxRefused
      BY <2>1 DEF CountOK, CountTypes
    <3> QED BY <1>3, <2>1, <3>1, <3>2 DEF CountOK, CountTypes
  <2>6. OffIsEmpty'
    BY <1>2, <2>1 DEF CountOK, OffIsEmpty
  <2> QED BY <1>3, <2>4, <2>5, <2>6 DEF CountOK
<1>5. CASE /\ job[t].kind # "accept" /\ Destroyed(t)
           /\ UNCHANGED <<pageVars, starts, threads, chat, log>>
  <2>1. /\ session' = [session EXCEPT ![k] = Gone(k)] /\ userCount' = userCount - 1
        /\ refused' = IF job[t].kind = "refuse" THEN refused + 1 ELSE refused
        /\ UNCHANGED <<server, threads>>
    BY <1>2, <1>5 DEF Destroyed
  <2>2. Gone(k) \in {"none", "ended"}
    BY GoneIsClosed
  <2>3. OpenIn(session') = OpenIn(session) \ {k}
    BY <1>2, <2>1, <2>2 DEF OpenIn, CountOK, CountTypes
  <2>4. k \in OpenIn(session) <=> job[t].kind = "leave"
    BY <1>2, <1>5 DEF OpenIn
  <2>5. Cardinality(OpenIn(session')) =
            IF job[t].kind = "leave" THEN Cardinality(OpenIn(session)) - 1
            ELSE Cardinality(OpenIn(session))
    BY <2>3, <2>4, OpenFinite, FS_RemoveElement
  <2>6. userCount' = Cardinality(OpenIn(session')) - refused'
    <3>1. /\ userCount = Cardinality(OpenIn(session)) - refused
          /\ refused \in Int /\ Cardinality(OpenIn(session)) \in Int
      BY OpenFinite, SizesAssumption DEF CountOK, CountTypes
    <3>2. CASE job[t].kind = "leave"
      BY <2>1, <2>5, <3>1, <3>2
    <3>3. CASE job[t].kind = "refuse"
      BY <2>1, <2>5, <3>1, <3>3
    <3> QED BY <1>2, <1>5, <3>2, <3>3
  <2>7. refused' \in 0..MaxRefused /\ userCount' \in Int
    BY <1>2, <2>1, SizesAssumption DEF CountOK, CountTypes
  <2>8. CountTypes'
    BY <1>3, <2>1, <2>2, <2>7 DEF CountOK, CountTypes, SessionStates
  <2>9. OffIsEmpty'
    BY <1>2, <2>1 DEF CountOK, OffIsEmpty
  <2> QED BY <1>3, <2>6, <2>8, <2>9 DEF CountOK
<1>6. CASE Exit
  BY <1>6, ExitCount
<1> QED BY <1>4, <1>5, <1>6 DEF Finish

\* Every step counts right.
LEMMA CountStep == CountOK /\ [Next]_vars => CountOK'
<1> SUFFICES ASSUME CountOK, [Next]_vars PROVE CountOK'
  OBVIOUS
<1>1. CASE \E p \in Pages : Websocket(p) \/ OnOpen(p) \/ Submit(p)
  <2>1. UNCHANGED countVars
    BY <1>1 DEF Websocket, OnOpen, Submit, serverVars, countVars
  <2> QED BY <2>1, UnchangedCount
<1>2. CASE \E k \in Sockets : OnRead(k)
  <2>1. UNCHANGED countVars
    BY <1>2 DEF OnRead, countVars
  <2> QED BY <2>1, UnchangedCount
<1>3. CASE \E k \in Sockets : OnAccept(k) \/ OnAcceptFail(k) \/ OnReadFail(k)
  <2>1. PICK k \in Sockets : OnAccept(k) \/ OnAcceptFail(k) \/ OnReadFail(k)
    BY <1>3
  <2>2. CASE OnAccept(k)
    BY <2>2, EnterCount DEF OnAccept
  <2>3. CASE OnAcceptFail(k)
    BY <2>3, EnterCount DEF OnAcceptFail
  <2>4. CASE OnReadFail(k)
    BY <2>4, EnterCount DEF OnReadFail
  <2> QED BY <2>1, <2>2, <2>3, <2>4
<1>4. CASE UNCHANGED vars
  <2>1. UNCHANGED countVars
    BY <1>4 DEF vars, serverVars, countVars
  <2> QED BY <2>1, UnchangedCount
<1>5. CASE Listen \/ OnSignal
  BY <1>5, ListenCount, ExitCount DEF OnSignal
<1>6. CASE \E p \in Pages : OnClose(p)
  BY <1>6, CloseCount
<1>7. CASE \E k \in Sockets : Upgrade(k)
  BY <1>7, UpgradeCount
<1>8. CASE \E t \in 1..Asked : Finish(t)
  BY <1>8, FinishCount
<1> QED BY <1>1, <1>2, <1>3, <1>4, <1>5, <1>6, <1>7, <1>8 DEF Next

\* One handler counts at a time, and none forgets to.
THEOREM CountInductive == Spec => []CountOK
  BY InitCount, CountStep, PTL DEF Spec

\* user_count loses no change, however many threads are asked for.
THEOREM NoCountLostAlways == Spec => []NoCountLost
<1>1. CountOK => NoCountLost
  BY DEF CountOK, NoCountLost, OpenIn, Open
<1> QED BY <1>1, CountInductive, PTL

-----------------------------------------------------------------------------
(* What the pages show after the messages of one handler. *)

\* A view has the fields of NoView, whatever was assigned to them.
IsView(v) == DOMAIN v = DOMAIN NoView

Views(views) == views = [k \in Sockets |-> views[k]] /\ \A k \in Sockets : IsView(views[k])

\* Two views show the same but for their cards, or but for their numbers.
SameNumbers(v, w) ==
    v.count = w.count /\ v.rooms = w.rooms /\ v.users = w.users /\ v.sizes = w.sizes

SameOverview(v, w) == v.rooms = w.rooms /\ v.users = w.users /\ v.sizes = w.sizes

\* onmessage of a room's page.
LEMMA ShowInRoom ==
    ASSUME NEW k, path[k[1]] # Lobby, NEW v, IsView(v), NEW m, NEW n
    PROVE  /\ IsView(Show(v, k, Text(m))) /\ SameNumbers(Show(v, k, Text(m)), v)
           /\ Show(v, k, Text(m)).feed = LastOf(Append(v.feed, m), FeedMax)
           /\ IsView(Show(v, k, Count(n))) /\ SameOverview(Show(v, k, Count(n)), v)
           /\ Show(v, k, Count(n)).feed = v.feed /\ Show(v, k, Count(n)).count = n
<1>1. /\ Show(v, k, Text(m)) = [v EXCEPT !.feed = LastOf(Append(@, m), FeedMax)]
      /\ Show(v, k, Count(n)) = [v EXCEPT !.count = n]
  BY DEF Show, ChatMessage, Text, Count
<1> QED BY <1>1 DEF IsView, NoView, SameNumbers, SameOverview

\* onmessage of the index.
LEMMA ShowOnIndex ==
    ASSUME NEW k, path[k[1]] = Lobby, NEW v, IsView(v), NEW m, m.type \in {0, 1, 2}
    PROVE  /\ IsView(Show(v, k, m))
           /\ Show(v, k, m).feed = v.feed /\ Show(v, k, m).count = v.count
           /\ m.type = 0 => /\ Show(v, k, m).rooms = m.arg
                            /\ Show(v, k, m).users = v.users /\ Show(v, k, m).sizes = v.sizes
           /\ m.type = 1 => /\ Show(v, k, m).users = m.arg
                            /\ Show(v, k, m).rooms = v.rooms /\ Show(v, k, m).sizes = v.sizes
           /\ m.type = 2 => /\ Show(v, k, m).sizes = Updated(v.sizes, m.arg)
                            /\ Show(v, k, m).rooms = v.rooms /\ Show(v, k, m).users = v.users
<1>1. CASE m.type = 0
  <2>1. Show(v, k, m) = [v EXCEPT !.rooms = m.arg]
    BY <1>1 DEF Show, IndexMessage
  <2> QED BY <1>1, <2>1 DEF IsView, NoView
<1>2. CASE m.type = 1
  <2>1. Show(v, k, m) = [v EXCEPT !.users = m.arg]
    BY <1>2 DEF Show, IndexMessage
  <2> QED BY <1>2, <2>1 DEF IsView, NoView
<1>3. CASE m.type = 2
  <2>1. Show(v, k, m) = [v EXCEPT !.sizes = Updated(@, m.arg)]
    BY <1>3 DEF Show, IndexMessage
  <2> QED BY <1>3, <2>1 DEF IsView, NoView
<1> QED BY <1>1, <1>2, <1>3

\* A broadcast that shows its receivers a proper view leaves all views proper.
LEMMA BroadcastViews ==
    ASSUME NEW views, Views(views), NEW S, NEW m,
           \A k \in S : k \in Sockets => IsView(Show(views[k], k, m))
    PROVE  /\ Views(Broadcast(views, S, m))
           /\ \A k \in Sockets : Broadcast(views, S, m)[k] =
                                     IF k \in S THEN Show(views[k], k, m) ELSE views[k]
  BY DEF Broadcast, Views

\* Pages of the index, S, have got m and show u, where before they showed views.
IndexShows(u, views, S, m) ==
    /\ Views(u)
    /\ \A k \in Sockets : k \notin S => u[k] = views[k]
    /\ \A k \in Sockets : k \in S =>
           /\ u[k].feed = views[k].feed /\ u[k].count = views[k].count
           /\ m.type = 0 => /\ u[k].rooms = m.arg
                            /\ u[k].users = views[k].users /\ u[k].sizes = views[k].sizes
           /\ m.type = 1 => /\ u[k].users = m.arg
                            /\ u[k].rooms = views[k].rooms /\ u[k].sizes = views[k].sizes
           /\ m.type = 2 => /\ u[k].sizes = Updated(views[k].sizes, m.arg)
                            /\ u[k].rooms = views[k].rooms /\ u[k].users = views[k].users

\* Pages of a room have got message m, or the number n of its users.
RoomShowsText(u, views, S, m) ==
    /\ Views(u)
    /\ \A k \in Sockets : k \notin S => u[k] = views[k]
    /\ \A k \in Sockets : k \in S => /\ u[k].feed = LastOf(Append(views[k].feed, m), FeedMax)
                                     /\ SameNumbers(u[k], views[k])

RoomShowsCount(u, views, S, n) ==
    /\ Views(u)
    /\ \A k \in Sockets : k \notin S => u[k] = views[k]
    /\ \A k \in Sockets : k \in S => /\ u[k].feed = views[k].feed /\ u[k].count = n
                                     /\ SameOverview(u[k], views[k])

\* Channel::broadcast to pages of the index, and to pages of rooms.
LEMMA IndexBroadcast ==
    ASSUME NEW views, Views(views), NEW S, \A k \in S : path[k[1]] = Lobby,
           NEW m, m.type \in {0, 1, 2}
    PROVE  IndexShows(Broadcast(views, S, m), views, S, m)
<1>1. \A k \in Sockets : IsView(views[k])
  BY DEF Views
<1>2. ASSUME NEW k \in S, k \in Sockets PROVE IsView(Show(views[k], k, m))
  BY <1>1, <1>2, ShowOnIndex
<1>3. PICK u : u = Broadcast(views, S, m)
  OBVIOUS
<1>4. /\ Views(u)
      /\ \A k \in Sockets : u[k] = IF k \in S THEN Show(views[k], k, m) ELSE views[k]
  BY <1>2, <1>3, BroadcastViews
<1>5. ASSUME NEW k \in Sockets, k \in S
      PROVE  /\ u[k].feed = views[k].feed /\ u[k].count = views[k].count
             /\ m.type = 0 => /\ u[k].rooms = m.arg
                              /\ u[k].users = views[k].users /\ u[k].sizes = views[k].sizes
             /\ m.type = 1 => /\ u[k].users = m.arg
                              /\ u[k].rooms = views[k].rooms /\ u[k].sizes = views[k].sizes
             /\ m.type = 2 => /\ u[k].sizes = Updated(views[k].sizes, m.arg)
                              /\ u[k].rooms = views[k].rooms /\ u[k].users = views[k].users
  <2>1. path[k[1]] = Lobby /\ IsView(views[k]) /\ u[k] = Show(views[k], k, m)
    BY <1>1, <1>4, <1>5
  <2> QED BY <2>1, ShowOnIndex
<1>6. \A k \in Sockets : k \notin S => u[k] = views[k]
  BY <1>4
<1> QED BY <1>3, <1>4, <1>5, <1>6 DEF IndexShows

\* What a broadcast of a room shows: the text goes to the feeds, the number to the room.
LEMMA RoomBroadcast ==
    ASSUME NEW views, Views(views), NEW S, \A k \in S : path[k[1]] # Lobby, NEW m, NEW n
    PROVE  /\ RoomShowsText(Broadcast(views, S, Text(m)), views, S, m)
           /\ RoomShowsCount(Broadcast(views, S, Count(n)), views, S, n)
<1>1. \A k \in Sockets : IsView(views[k])
  BY DEF Views
<1>2. ASSUME NEW k \in S, k \in Sockets
      PROVE  IsView(Show(views[k], k, Text(m))) /\ IsView(Show(views[k], k, Count(n)))
  BY <1>1, <1>2, ShowInRoom
<1>3. PICK t, u : t = Broadcast(views, S, Text(m)) /\ u = Broadcast(views, S, Count(n))
  OBVIOUS
<1>4. /\ Views(t)
      /\ \A k \in Sockets : t[k] = IF k \in S THEN Show(views[k], k, Text(m)) ELSE views[k]
  BY <1>2, <1>3, BroadcastViews
<1>5. /\ Views(u)
      /\ \A k \in Sockets : u[k] = IF k \in S THEN Show(views[k], k, Count(n)) ELSE views[k]
  BY <1>2, <1>3, BroadcastViews
<1>6. ASSUME NEW k \in Sockets, k \in S
      PROVE  /\ t[k].feed = LastOf(Append(views[k].feed, m), FeedMax)
             /\ SameNumbers(t[k], views[k])
             /\ u[k].feed = views[k].feed /\ SameOverview(u[k], views[k]) /\ u[k].count = n
  <2>1. /\ path[k[1]] # Lobby /\ IsView(views[k])
        /\ t[k] = Show(views[k], k, Text(m)) /\ u[k] = Show(views[k], k, Count(n))
    BY <1>1, <1>4, <1>5, <1>6
  <2> QED BY <2>1, ShowInRoom
<1>7. \A k \in Sockets : k \notin S => t[k] = views[k] /\ u[k] = views[k]
  BY <1>4, <1>5
<1> QED BY <1>3, <1>4, <1>5, <1>6, <1>7 DEF RoomShowsText, RoomShowsCount

\* The index shows the numbers of rooms, of users, and of everybody in each room.
OverviewOf(v, ch, users) ==
    /\ v.rooms = Cardinality(DOMAIN ch) /\ v.users = users
    /\ \A c \in DOMAIN ch : c \in DOMAIN v.sizes /\ v.sizes[c] = Cardinality(ch[c])

OverviewShown(u, views, ch, users) ==
    /\ Views(u)
    /\ \A k \in Sockets :
           /\ u[k].feed = views[k].feed /\ u[k].count = views[k].count
           /\ k \notin ch[Lobby] => u[k] = views[k]
           /\ k \in ch[Lobby] => OverviewOf(u[k], ch, users)

\* on_websocket_connect and on_websocket_disconnect: the index shows what they send.
LEMMA OverviewResult ==
    ASSUME NEW views, Views(views), NEW ch, NEW users,
           \A k \in ch[Lobby] : path[k[1]] = Lobby
    PROVE  OverviewShown(Overview(views, ch, users), views, ch, users)
<1> DEFINE S == ch[Lobby]
           n == Cardinality(DOMAIN ch)
           sizes == [c \in DOMAIN ch |-> Cardinality(ch[c])]
           m1 == [type |-> 0, arg |-> n]
           m2 == Count(users)
           m3 == [type |-> 2, arg |-> sizes]
<1>1. /\ m1.type = 0 /\ m1.arg = n /\ m2.type = 1 /\ m2.arg = users
      /\ m3.type = 2 /\ m3.arg = sizes
  BY DEF Count
<1>2. PICK v1, v2, v3 : /\ v1 = Broadcast(views, S, m1) /\ v2 = Broadcast(v1, S, m2)
                        /\ v3 = Broadcast(v2, S, m3)
  OBVIOUS
<1>3. v3 = Overview(views, ch, users)
  BY <1>2 DEF Overview
<1>4. /\ DOMAIN sizes = DOMAIN ch
      /\ \A c \in DOMAIN ch : sizes[c] = Cardinality(ch[c])
  OBVIOUS
<1> HIDE DEF m1, m2, m3, n, sizes
<1>5. IndexShows(v1, views, S, m1)
  BY <1>1, <1>2, IndexBroadcast
<1>6. IndexShows(v2, v1, S, m2)
  <2>1. Views(v1)
    BY <1>5 DEF IndexShows
  <2> QED BY <1>1, <1>2, <2>1, IndexBroadcast
<1>7. IndexShows(v3, v2, S, m3)
  <2>1. Views(v2)
    BY <1>6 DEF IndexShows
  <2> QED BY <1>1, <1>2, <2>1, IndexBroadcast
<1> HIDE DEF S
<1>8. ASSUME NEW k \in Sockets, k \notin S PROVE v3[k] = views[k]
  BY <1>5, <1>6, <1>7, <1>8 DEF IndexShows
<1>9. ASSUME NEW k \in Sockets, k \in S
      PROVE  /\ v3[k].feed = views[k].feed /\ v3[k].count = views[k].count
             /\ v3[k].rooms = n /\ v3[k].users = users
             /\ v3[k].sizes = Updated(v2[k].sizes, sizes)
  <2>1. v1[k].feed = views[k].feed /\ v1[k].count = views[k].count /\ v1[k].rooms = n
    BY <1>1, <1>5, <1>9 DEF IndexShows
  <2>2. /\ v2[k].feed = v1[k].feed /\ v2[k].count = v1[k].count /\ v2[k].rooms = v1[k].rooms
        /\ v2[k].users = users
    BY <1>1, <1>6, <1>9 DEF IndexShows
  <2>3. /\ v3[k].feed = v2[k].feed /\ v3[k].count = v2[k].count /\ v3[k].rooms = v2[k].rooms
        /\ v3[k].users = v2[k].users /\ v3[k].sizes = Updated(v2[k].sizes, sizes)
    BY <1>1, <1>7, <1>9 DEF IndexShows
  <2> QED BY <2>1, <2>2, <2>3
<1>10. ASSUME NEW k \in Sockets, k \in S, NEW c \in DOMAIN ch
       PROVE  c \in DOMAIN v3[k].sizes /\ v3[k].sizes[c] = Cardinality(ch[c])
  BY <1>4, <1>9, <1>10 DEF Updated
<1>11. Views(v3)
  BY <1>7 DEF IndexShows
<1>12. OverviewShown(v3, views, ch, users)
  BY <1>8, <1>9, <1>10, <1>11 DEF OverviewShown, OverviewOf, S, n
<1> QED BY <1>3, <1>12

\* The pages of a room show how many they are.
UsersShown(u, views, ch, r) ==
    /\ Views(u)
    /\ \A k \in Sockets :
           /\ u[k].feed = views[k].feed /\ SameOverview(u[k], views[k])
           /\ r = Lobby \/ k \notin ch[r] => u[k] = views[k]
           /\ r # Lobby /\ k \in ch[r] => u[k].count = Cardinality(ch[r])

\* The callbacks of a room: those in it see how many they are.
LEMMA CountUsersResult ==
    ASSUME NEW views, Views(views), NEW ch, NEW r, \A k \in ch[r] : path[k[1]] = r
    PROVE  UsersShown(CountUsers(views, ch, r), views, ch, r)
<1> DEFINE S == ch[r]
           n == Cardinality(ch[r])
<1>0. PICK u : u = CountUsers(views, ch, r)
  OBVIOUS
<1>1. CASE r = Lobby
  <2>1. u = views
    BY <1>0, <1>1 DEF CountUsers
  <2> QED BY <1>0, <1>1, <2>1 DEF SameOverview, UsersShown
<1>2. CASE r # Lobby
  <2>1. u = Broadcast(views, S, Count(n))
    BY <1>0, <1>2 DEF CountUsers
  <2>2. \A k \in S : path[k[1]] # Lobby
    BY <1>2
  <2>3. RoomShowsCount(u, views, S, n)
    <3> HIDE DEF S, n
    <3> QED BY <2>1, <2>2, RoomBroadcast
  <2>4. UsersShown(u, views, ch, r)
    BY <1>2, <2>3 DEF RoomShowsCount, UsersShown, SameOverview
  <2> QED BY <1>0, <2>4
<1> QED BY <1>1, <1>2

-----------------------------------------------------------------------------
(* The last elements of a sequence. *)

\* What LastOf leaves of a sequence.
LEMMA LastOfProperties ==
    ASSUME NEW S, NEW s \in Seq(S), NEW n \in Nat
    PROVE  /\ LastOf(s, n) \in Seq(S)
           /\ Len(LastOf(s, n)) = IF Len(s) <= n THEN Len(s) ELSE n
           /\ \A i \in 1..Len(LastOf(s, n)) : LastOf(s, n)[i] = s[Len(s) - Len(LastOf(s, n)) + i]
<1> DEFINE l == LastOf(s, n)
<1>1. Len(s) \in Nat
  BY LenProperties
<1>2. CASE Len(s) <= n
  <2>1. l = s
    BY <1>2 DEF LastOf
  <2> QED BY <1>1, <1>2, <2>1
<1>3. CASE ~(Len(s) <= n)
  <2>1. l = SubSeq(s, Len(s) - n + 1, Len(s))
    BY <1>3 DEF LastOf
  <2> DEFINE m == Len(s) - n + 1
  <2>2. m \in Int /\ Len(s) \in Int /\ \A i \in m..Len(s) : s[i] \in S
    <3>1. \A i \in m..Len(s) : i \in 1..Len(s)
      BY <1>1, <1>3
    <3> QED BY <1>1, <3>1, ElementOfSeq
  <2>3. m <= Len(s) + 1 /\ Len(s) - m + 1 = n
    BY <1>1
  <2> HIDE DEF m, l
  <2>4. /\ l \in Seq(S)
        /\ Len(l) = IF m <= Len(s) THEN Len(s) - m + 1 ELSE 0
        /\ \A i \in 1..(Len(s) - m + 1) : l[i] = s[m + i - 1]
    BY <2>1, <2>2, SubSeqProperties DEF m
  <2>5. Len(l) = n
    <3>1. Len(l) = IF m <= Len(s) THEN n ELSE 0
      BY <2>3, <2>4
    <3> QED BY <1>1, <2>2, <2>3, <3>1
  <2>6. ASSUME NEW i \in 1..Len(l) PROVE l[i] = s[Len(s) - Len(l) + i]
    <3>1. m + i - 1 = Len(s) - Len(l) + i
      BY <1>1, <2>3, <2>5 DEF m
    <3> QED BY <2>3, <2>4, <2>5, <3>1
  <2> QED BY <1>3, <2>4, <2>5, <2>6 DEF l
<1> QED BY <1>2, <1>3

\* Where the entries of the last u positions of two aligned sequences stand.
LEMMA CutPositions ==
    ASSUME NEW l \in Nat, NEW s \in Nat, l <= s, NEW u \in Nat, u <= l + 1, NEW i \in 1..u,
           NEW j, NEW k, j = l + 1 - u + i, k = s + 1 - u + i
    PROVE  /\ j \in Int /\ k \in Int /\ k = s - l + j
           /\ \/ j = l + 1 /\ k = s + 1
              \/ j \in 1..l /\ k \in 1..s
  OBVIOUS

\* A sequence that was cut before something was appended to it is cut the same way.
LEMMA LastOfAppend ==
    ASSUME NEW S, NEW s \in Seq(S), NEW x \in S, NEW n \in Nat
    PROVE  LastOf(Append(LastOf(s, n), x), n) = LastOf(Append(s, x), n)
<1> DEFINE l == LastOf(s, n)
           a == Append(l, x)
           b == Append(s, x)
           u == LastOf(a, n)
           v == LastOf(b, n)
<1>1. /\ l \in Seq(S) /\ Len(l) = IF Len(s) <= n THEN Len(s) ELSE n
      /\ \A i \in 1..Len(l) : l[i] = s[Len(s) - Len(l) + i]
  BY LastOfProperties
<1>2. Len(s) \in Nat /\ Len(l) \in Nat
  BY <1>1, LenProperties
<1> HIDE DEF l
<1>3. /\ a \in Seq(S) /\ Len(a) = Len(l) + 1 /\ a[Len(l) + 1] = x
      /\ \A i \in 1..Len(l) : a[i] = l[i]
  BY <1>1, AppendProperties
<1>4. /\ b \in Seq(S) /\ Len(b) = Len(s) + 1 /\ b[Len(s) + 1] = x
      /\ \A i \in 1..Len(s) : b[i] = s[i]
  BY AppendProperties
<1> HIDE DEF a, b
<1>5. /\ u \in Seq(S) /\ Len(u) = IF Len(a) <= n THEN Len(a) ELSE n
      /\ \A i \in 1..Len(u) : u[i] = a[Len(a) - Len(u) + i]
  <2>1. a \in Seq(S)
    BY <1>3
  <2> QED BY <2>1, LastOfProperties
<1>6. /\ v \in Seq(S) /\ Len(v) = IF Len(b) <= n THEN Len(b) ELSE n
      /\ \A i \in 1..Len(v) : v[i] = b[Len(b) - Len(v) + i]
  <2>1. b \in Seq(S)
    BY <1>4
  <2> QED BY <2>1, LastOfProperties
<1> HIDE DEF u, v
<1>7. Len(u) = Len(v) /\ Len(u) \in Nat /\ Len(u) <= Len(a) /\ Len(a) <= Len(b)
  <2>1. Len(l) = IF Len(s) <= n THEN Len(s) ELSE n
    BY <1>1
  <2>2. Len(u) = IF Len(a) <= n THEN Len(a) ELSE n
    BY <1>5
  <2>3. Len(v) = IF Len(b) <= n THEN Len(b) ELSE n
    BY <1>6
  <2>4. Len(a) = Len(l) + 1 /\ Len(b) = Len(s) + 1
    BY <1>3, <1>4
  <2> QED BY <1>2, <2>1, <2>2, <2>3, <2>4
<1>8. Len(a) = Len(l) + 1 /\ Len(b) = Len(s) + 1 /\ Len(l) <= Len(s)
  BY <1>1, <1>2, <1>3, <1>4
<1>9. ASSUME NEW i \in 1..Len(u) PROVE u[i] = v[i]
  <2> DEFINE j == Len(a) - Len(u) + i
             k == Len(b) - Len(v) + i
  <2>1. /\ j \in Int /\ k \in Int /\ k = Len(s) - Len(l) + j
        /\ \/ j = Len(l) + 1 /\ k = Len(s) + 1
           \/ j \in 1..Len(l) /\ k \in 1..Len(s)
    <3>1. j = Len(l) + 1 - Len(u) + i /\ k = Len(s) + 1 - Len(u) + i
      BY <1>7, <1>8
    <3>2. Len(l) <= Len(s) /\ Len(u) <= Len(l) + 1 /\ Len(u) \in Nat
      BY <1>7, <1>8
    <3> HIDE DEF j, k
    <3> QED BY <1>2, <3>1, <3>2, CutPositions
  <2>2. u[i] = a[j] /\ v[i] = b[k]
    BY <1>5, <1>6, <1>7
  <2> HIDE DEF j, k
  <2>3. CASE j = Len(l) + 1
    BY <1>3, <1>4, <2>1, <2>2, <2>3
  <2>4. CASE j \in 1..Len(l) /\ k \in 1..Len(s)
    <3>1. l[j] = s[k]
      BY <1>1, <2>1, <2>4
    <3> QED BY <1>3, <1>4, <2>2, <2>4, <3>1
  <2> QED BY <2>1, <2>3, <2>4
<1>10. u = v
  BY <1>5, <1>6, <1>7, <1>9, SeqEqual
<1> QED BY <1>10 DEF u, v, a, b, l

\* The first elements of a sequence, and one more.
LEMMA PrefixGrows ==
    ASSUME NEW S, NEW s \in Seq(S), NEW i \in 1..Len(s)
    PROVE  /\ SubSeq(s, 1, i - 1) \in Seq(S) /\ s[i] \in S
           /\ SubSeq(s, 1, i) = Append(SubSeq(s, 1, i - 1), s[i])
<1>1. Len(s) \in Nat
  BY LenProperties
<1>2. 1 \in Int /\ i - 1 \in Int /\ (\A j \in 1..(i - 1) : j \in 1..Len(s))
  BY <1>1
<1>3. \A j \in 1..(i - 1) : s[j] \in S
  BY <1>2, ElementOfSeq
<1>4. SubSeq(s, 1, i - 1) \in Seq(S)
  BY <1>2, <1>3, SubSeqProperties
<1>5. s[i] \in S
  BY ElementOfSeq
<1>6. 1 \in 1..Len(s) /\ i \in 1..Len(s)
  BY <1>1
<1>7. SubSeq(s, 1, i) = SubSeq(s, 1, i - 1) \o <<s[i]>>
  BY <1>6, SubSeqRecursiveSecond
<1> QED BY <1>4, <1>5, <1>7, AppendIsConcat

\* An element appended to the second of two sequences.
LEMMA ConcatAppend ==
    ASSUME NEW S, NEW s \in Seq(S), NEW t \in Seq(S), NEW x \in S
    PROVE  s \o Append(t, x) = Append(s \o t, x)
<1>0. <<x>> \in Seq(S)
  BY EmptySeq, AppendProperties
<1>1. PICK y : y = <<x>> /\ y \in Seq(S)
  BY <1>0
<1>2. Append(t, x) = t \o y
  BY <1>1, AppendIsConcat
<1>3. s \o t \in Seq(S)
  BY ConcatProperties
<1>4. Append(s \o t, x) = (s \o t) \o y
  BY <1>1, <1>3, AppendIsConcat
<1>5. s \o (t \o y) = (s \o t) \o y
  BY <1>1, ConcatAssociative
<1> QED BY <1>2, <1>4, <1>5

\* A Ringbuf holds the last of what was pushed into it.
LEMMA PushedResult ==
    ASSUME NEW messages \in Seq(Int)
    PROVE  Pushed(messages) = LastOf(messages, Cap)
<1> DEFINE Rings(n, f) ==
               f = [i \in 0..n |-> IF i = 0 THEN <<>> ELSE Push(f[i - 1], messages[i])]
           Missing == {n \in Nat : ~ \E f : Rings(n, f)}
           ring == CHOOSE f : Rings(Len(messages), f)
           Wrong == {n \in Nat : /\ n <= Len(messages)
                                 /\ ring[n] # LastOf(SubSeq(messages, 1, n), Cap)}
<1>1. Missing = {}
  <2> SUFFICES ASSUME Missing # {} PROVE FALSE
    OBVIOUS
  <2>1. PICK m \in Missing : \A j \in Missing : m <= j
    BY LeastNat
  <2>2. CASE m = 0
    <3>1. Rings(m, [i \in 0..0 |-> <<>>])
      BY <2>2
    <3> QED BY <3>1
  <2>3. CASE m # 0
    <3>1. m \in Nat /\ m - 1 \in Nat /\ ~(m <= m - 1)
      BY <2>3
    <3>2. PICK f : Rings(m - 1, f)
      <4>1. m - 1 \notin Missing
        <5> HIDE DEF Missing
        <5> QED BY <2>1, <3>1
      <4> HIDE DEF Rings
      <4> QED BY <3>1, <4>1
    <3> DEFINE g == [i \in 0..m |-> IF i = m THEN Push(f[m - 1], messages[m]) ELSE f[i]]
    <3>3. ASSUME NEW i \in 0..m
          PROVE  g[i] = IF i = 0 THEN <<>> ELSE Push(g[i - 1], messages[i])
      <4>1. CASE i = m
        <5>1. m - 1 \in 0..m /\ m - 1 # m /\ m \in 0..m
          BY <3>1
        <5> QED BY <2>3, <4>1, <5>1
      <4>2. CASE i # m
        <5>1. i \in 0..(m - 1) /\ (i # 0 => i - 1 \in 0..m /\ i - 1 # m)
          BY <4>2
        <5>2. f[i] = IF i = 0 THEN <<>> ELSE Push(f[i - 1], messages[i])
          BY <3>2, <5>1
        <5> QED BY <4>2, <5>1, <5>2
      <4> QED BY <4>1, <4>2
    <3>4. Rings(m, g)
      BY <3>3
    <3> QED BY <3>4
  <2> QED BY <2>2, <2>3
<1>2. Len(messages) \in Nat
  BY LenProperties
<1>3. Rings(Len(messages), ring)
  <2>1. \E f : Rings(Len(messages), f)
    <3> HIDE DEF Rings
    <3> QED BY <1>1, <1>2
  <2> HIDE DEF Rings
  <2> QED BY <2>1
<1>4. Pushed(messages) = ring[Len(messages)]
  BY DEF Pushed
<1> HIDE DEF ring
<1>5. /\ ring[0] = <<>>
      /\ \A i \in 1..Len(messages) : ring[i] = Push(ring[i - 1], messages[i])
  <2>1. ASSUME NEW i \in 0..Len(messages)
        PROVE  ring[i] = IF i = 0 THEN <<>> ELSE Push(ring[i - 1], messages[i])
    BY <1>3
  <2>2. 0 \in 0..Len(messages) /\ \A i \in 1..Len(messages) : i \in 0..Len(messages) /\ i # 0
    BY <1>2
  <2> QED BY <2>1, <2>2
<1>6. Wrong = {}
  <2> SUFFICES ASSUME Wrong # {} PROVE FALSE
    OBVIOUS
  <2>1. PICK m \in Wrong : \A j \in Wrong : m <= j
    BY LeastNat
  <2>2. m # 0
    <3>1. SubSeq(messages, 1, 0) = <<>>
      BY SubSeqEmpty
    <3>2. Len(<<>>) = 0 /\ 0 <= Cap
      BY SizesAssumption
    <3>3. LastOf(<<>>, Cap) = <<>>
      BY <3>2 DEF LastOf
    <3> QED BY <1>5, <3>1, <3>3
  <2>3. m \in 1..Len(messages) /\ m - 1 \in Nat /\ m - 1 <= Len(messages) /\ ~(m <= m - 1)
    BY <1>2, <2>2
  <2>4. ring[m - 1] = LastOf(SubSeq(messages, 1, m - 1), Cap)
    BY <2>1, <2>3
  <2>5. ring[m] = LastOf(Append(ring[m - 1], messages[m]), Cap)
    BY <1>5, <2>3 DEF Push
  <2> DEFINE front == SubSeq(messages, 1, m - 1)
  <2>6. /\ front \in Seq(Int) /\ messages[m] \in Int
        /\ SubSeq(messages, 1, m) = Append(front, messages[m])
    BY <2>3, PrefixGrows
  <2> HIDE DEF front
  <2>7. LastOf(Append(LastOf(front, Cap), messages[m]), Cap)
            = LastOf(Append(front, messages[m]), Cap)
    BY <2>6, LastOfAppend, SizesAssumption
  <2> QED BY <2>4, <2>5, <2>6, <2>7 DEF front
<1>7. ring[Len(messages)] = LastOf(SubSeq(messages, 1, Len(messages)), Cap)
  BY <1>2, <1>6
<1> QED BY <1>4, <1>7, SubSeqFull

\* To a view k of views a room's page has added cards.
CardsAdded(u, views, k, cards) ==
    /\ Views(u)
    /\ \A j \in Sockets : j # k => u[j] = views[j]
    /\ SameNumbers(u[k], views[k])
    /\ u[k].feed = LastOf(views[k].feed \o cards, FeedMax)

\* begin: the page gets the stored messages and the welcome, and no other page does.
LEMMA ReplayResult ==
    ASSUME NEW views, Views(views), NEW k \in Sockets, NEW r, r # Lobby, path[k[1]] = r,
           chat[r] \in Seq(Int), views[k].feed \in Seq(Int)
    PROVE  CardsAdded(Replay(views, k, r), views, k, Append(chat[r], Welcome))
<1> DEFINE messages == Append(chat[r], Welcome)
           Sends(n, f) ==
               f = [i \in 0..n |-> IF i = 0 THEN views
                                   ELSE Broadcast(f[i - 1], {k}, Text(messages[i]))]
           Missing == {n \in Nat : ~ \E f : Sends(n, f)}
           sent == CHOOSE f : Sends(Len(messages), f)
<1>1. Missing = {}
  <2> SUFFICES ASSUME Missing # {} PROVE FALSE
    OBVIOUS
  <2>1. PICK m \in Missing : \A j \in Missing : m <= j
    BY LeastNat
  <2>2. CASE m = 0
    <3>1. Sends(m, [i \in 0..0 |-> views])
      BY <2>2
    <3> QED BY <3>1
  <2>3. CASE m # 0
    <3> HIDE DEF messages
    <3>1. m \in Nat /\ m - 1 \in Nat /\ ~(m <= m - 1)
      BY <2>3
    <3>2. PICK f : Sends(m - 1, f)
      <4>1. m - 1 \notin Missing
        <5> HIDE DEF Missing
        <5> QED BY <2>1, <3>1
      <4> HIDE DEF Sends
      <4> QED BY <3>1, <4>1
    <3> DEFINE g == [i \in 0..m |-> IF i = m THEN Broadcast(f[m - 1], {k}, Text(messages[m]))
                                    ELSE f[i]]
    <3>3. ASSUME NEW i \in 0..m
          PROVE  g[i] = IF i = 0 THEN views ELSE Broadcast(g[i - 1], {k}, Text(messages[i]))
      <4>1. CASE i = m
        <5>1. m - 1 \in 0..m /\ m - 1 # m /\ m \in 0..m
          BY <3>1
        <5> QED BY <2>3, <4>1, <5>1
      <4>2. CASE i # m
        <5>1. i \in 0..(m - 1) /\ (i # 0 => i - 1 \in 0..m /\ i - 1 # m)
          BY <4>2
        <5>2. f[i] = IF i = 0 THEN views ELSE Broadcast(f[i - 1], {k}, Text(messages[i]))
          BY <3>2, <5>1
        <5> QED BY <4>2, <5>1, <5>2
      <4> QED BY <4>1, <4>2
    <3>4. Sends(m, g)
      BY <3>3
    <3> QED BY <3>4
  <2> QED BY <2>2, <2>3
<1>2. /\ messages \in Seq(Int) /\ Len(messages) = Len(chat[r]) + 1
      /\ Len(messages) \in Nat /\ Len(messages) # 0
  <2>1. Welcome \in Int
    BY DEF Welcome
  <2>2. Len(chat[r]) \in Nat
    BY LenProperties
  <2> QED BY <2>1, <2>2, AppendProperties
<1>3. Sends(Len(messages), sent)
  <2>1. \E f : Sends(Len(messages), f)
    <3> HIDE DEF Sends, messages
    <3> QED BY <1>1, <1>2
  <2> HIDE DEF Sends, messages
  <2> QED BY <2>1
<1>4. Replay(views, k, r) = sent[Len(messages)]
  BY DEF Replay
<1> HIDE DEF sent
<1>5. /\ sent[0] = views
      /\ \A i \in 1..Len(messages) :
             sent[i] = Broadcast(sent[i - 1], {k}, Text(messages[i]))
  <2> HIDE DEF messages
  <2>1. ASSUME NEW i \in 0..Len(messages)
        PROVE  sent[i] = IF i = 0 THEN views ELSE Broadcast(sent[i - 1], {k}, Text(messages[i]))
    BY <1>3
  <2>2. 0 \in 0..Len(messages) /\ \A i \in 1..Len(messages) : i \in 0..Len(messages) /\ i # 0
    BY <1>2
  <2> QED BY <2>1, <2>2
<1> HIDE DEF messages, Missing, Sends
<1> DEFINE Cut(i) == LastOf(views[k].feed \o SubSeq(messages, 1, i), FeedMax)
           Right(i) == /\ Views(sent[i])
                       /\ \A j \in Sockets : j # k => sent[i][j] = views[j]
                       /\ SameNumbers(sent[i][k], views[k])
                       /\ sent[i][k].feed = IF i = 0 THEN views[k].feed ELSE Cut(i)
           Wrong == {i \in Nat : i <= Len(messages) /\ ~Right(i)}
<1>6. Right(0)
  BY <1>5 DEF SameNumbers
<1>7. ASSUME NEW i \in 1..Len(messages), Right(i - 1) PROVE Right(i)
  <2> DEFINE front == SubSeq(messages, 1, i - 1)
             u == sent[i]
             v == sent[i - 1]
  <2>1. /\ front \in Seq(Int) /\ messages[i] \in Int
        /\ SubSeq(messages, 1, i) = Append(front, messages[i])
    BY <1>2, PrefixGrows
  <2>2. RoomShowsText(u, v, {k}, messages[i])
    <3>1. Views(v) /\ \A j \in {k} : path[j[1]] # Lobby
      BY <1>7
    <3>2. u = Broadcast(v, {k}, Text(messages[i]))
      BY <1>5
    <3> HIDE DEF u, v
    <3> QED BY <3>1, <3>2, RoomBroadcast
  <2>3. /\ Views(u) /\ (\A j \in Sockets : j # k => u[j] = v[j])
        /\ u[k].feed = LastOf(Append(v[k].feed, messages[i]), FeedMax)
        /\ SameNumbers(u[k], v[k])
    <3> HIDE DEF u, v
    <3> QED BY <2>2 DEF RoomShowsText
  <2>4. views[k].feed \o SubSeq(messages, 1, i) = Append(views[k].feed \o front, messages[i])
    <3>1. front \in Seq(Int)
      BY <2>1
    <3> HIDE DEF front, Cut, Right, Wrong
    <3>2. messages[i] \in Int
      BY <2>1
    <3>3. PICK old, new : old = views[k].feed /\ new = messages[i]
      OBVIOUS
    <3>4. old \in Seq(Int) /\ new \in Int
      BY <3>2, <3>3
    <3>5. old \o Append(front, new) = Append(old \o front, new)
      BY <3>1, <3>4, ConcatAppend
    <3> QED BY <2>1, <3>3, <3>5
  <2>5. u[k].feed = Cut(i)
    <3>1. CASE i = 1
      <4>1. front = <<>>
        BY <3>1, SubSeqEmpty
      <4>2. views[k].feed \o front = views[k].feed
        BY <4>1, ConcatEmptySeq
      <4>3. v[k].feed = views[k].feed
        BY <1>7, <3>1
      <4> QED BY <2>3, <2>4, <4>2, <4>3
    <3>2. CASE i # 1
      <4>1. v[k].feed = LastOf(views[k].feed \o front, FeedMax)
        BY <1>7, <3>2
      <4>2. views[k].feed \o front \in Seq(Int)
        BY <2>1, ConcatProperties
      <4>3. FeedMax \in Nat
        BY SizesAssumption
      <4>4. PICK all : all = views[k].feed \o front
        OBVIOUS
      <4> HIDE DEF front, u, v, Cut, Right, Wrong
      <4>5. LastOf(Append(LastOf(all, FeedMax), messages[i]), FeedMax)
                = LastOf(Append(all, messages[i]), FeedMax)
        BY <2>1, <4>2, <4>3, <4>4, LastOfAppend
      <4> QED BY <2>3, <2>4, <4>1, <4>4, <4>5 DEF Cut
    <3> QED BY <3>1, <3>2
  <2>6. \A j \in Sockets : j # k => u[j] = views[j]
    BY <1>7, <2>3
  <2>7. SameNumbers(u[k], views[k])
    BY <1>7, <2>3 DEF SameNumbers
  <2> QED BY <2>3, <2>5, <2>6, <2>7
<1> HIDE DEF Right
<1>8. Wrong = {}
  <2> SUFFICES ASSUME Wrong # {} PROVE FALSE
    OBVIOUS
  <2>1. PICK m \in Wrong : \A j \in Wrong : m <= j
    BY LeastNat
  <2>2. m # 0
    BY <1>6
  <2>3. m \in 1..Len(messages) /\ m - 1 \in Nat /\ m - 1 <= Len(messages) /\ ~(m <= m - 1)
    BY <1>2, <2>2
  <2>4. Right(m - 1)
    BY <2>1, <2>3
  <2> QED BY <1>7, <2>3, <2>4
<1>9. Right(Len(messages))
  BY <1>2, <1>8
<1>10. SubSeq(messages, 1, Len(messages)) = messages
  BY <1>2, SubSeqFull
<1>11. CardsAdded(sent[Len(messages)], views, k, messages)
  BY <1>2, <1>9, <1>10 DEF Right, CardsAdded
<1> QED BY <1>4, <1>11 DEF messages
-----------------------------------------------------------------------------
(* The channels. *)

Members(s, c) == {k \in OpenIn(s) : path[k[1]] = c}

\* The channel of a path holds the open sessions of the path, the index has a channel
\* from the start, and an open session has created its own.
ChannelsOK ==
    /\ DOMAIN channels \subseteq Paths /\ Lobby \in DOMAIN channels
    /\ \A c \in DOMAIN channels : channels[c] = Members(session, c)
    /\ \A k \in OpenIn(session) : path[k[1]] \in DOMAIN channels

\* The page of a socket looks at one of the paths.
LEMMA PathOfSocket ==
    ASSUME PagesOK, NEW k \in Sockets
    PROVE  path[k[1]] \in Paths
<1>1. k[1] \in Pages
  BY SocketsAssumption
<1> QED BY <1>1 DEF PagesOK

\* The channels of a server that just started hold nobody, as no session is open.
LEMMA FreshChannelsOK ==
    ASSUME channels' = FreshChannels, OpenIn(session') = {}
    PROVE  ChannelsOK'
<1>1. DOMAIN channels' = Precreated /\ \A c \in DOMAIN channels' : channels'[c] = {}
  BY DEF FreshChannels
<1>2. \A c \in DOMAIN channels' : Members(session, c)' = {}
  BY DEF Members
<1> QED BY <1>1, <1>2, PathsAssumption DEF ChannelsOK

\* What a handler leaves when the session of k was opened.
LEMMA AcceptedChannels ==
    ASSUME PagesOK, CountOK, ChannelsOK, NEW k \in Sockets, session[k] = "asking",
           session' = [session EXCEPT ![k] = "open"],
           channels' = Join(channels, path[k[1]], k), path' = path
    PROVE  /\ ChannelsOK'
           /\ path[k[1]] \in DOMAIN channels'
           /\ \A c \in DOMAIN channels' : c # path[k[1]] =>
                  c \in DOMAIN channels /\ channels'[c] = channels[c]
           /\ OpenIn(session') = OpenIn(session) \cup {k} /\ k \notin OpenIn(session)
<1> DEFINE r == path[k[1]]
<1>1. OpenIn(session') = OpenIn(session) \cup {k} /\ k \notin OpenIn(session)
  BY DEF OpenIn, CountOK, CountTypes
<1>2. DOMAIN channels' = DOMAIN channels \cup {r}
  BY DEF Join
<1>3. \A c \in DOMAIN channels' :
          channels'[c] = (IF c \in DOMAIN channels THEN channels[c] ELSE {})
                             \cup (IF c = r THEN {k} ELSE {})
  BY <1>2 DEF Join
<1>4. r \in Paths
  BY PathOfSocket
<1>5. \A c : Members(session, c)' = Members(session, c) \cup (IF c = r THEN {k} ELSE {})
  BY <1>1 DEF Members
<1>6. \A c : c \notin DOMAIN channels => Members(session, c) = {}
  BY DEF ChannelsOK, Members
<1>7. ASSUME NEW c \in DOMAIN channels' PROVE channels'[c] = Members(session, c)'
  <2>1. CASE c \in DOMAIN channels
    <3>1. channels[c] = Members(session, c)
      BY <2>1 DEF ChannelsOK
    <3> QED BY <1>3, <1>5, <2>1, <3>1, Zenon
  <2>2. CASE c \notin DOMAIN channels
    <3>1. Members(session, c) = {}
      BY <1>6, <2>2
    <3> QED BY <1>3, <1>5, <2>2, <3>1, Zenon
  <2> QED BY <2>1, <2>2
<1>8. \A j \in OpenIn(session') : path'[j[1]] \in DOMAIN channels'
  BY <1>1, <1>2 DEF ChannelsOK
<1>9. ChannelsOK'
  BY <1>2, <1>4, <1>7, <1>8 DEF ChannelsOK
<1> QED BY <1>1, <1>2, <1>3, <1>9

\* What is left when the session of k has ended, or never was open.
LEMMA DestroyedChannels ==
    ASSUME PagesOK, CountOK, ChannelsOK, NEW k \in Sockets,
           session' = [session EXCEPT ![k] = Gone(k)], path[k[1]] \in DOMAIN channels,
           channels' = [channels EXCEPT ![path[k[1]]] = @ \ {k}], path' = path
    PROVE  /\ ChannelsOK'
           /\ DOMAIN channels' = DOMAIN channels
           /\ \A c \in DOMAIN channels' : c # path[k[1]] => channels'[c] = channels[c]
           /\ OpenIn(session') = OpenIn(session) \ {k}
<1> DEFINE r == path[k[1]]
<1>1. OpenIn(session') = OpenIn(session) \ {k}
  <2>1. Gone(k) # "open"
    BY GoneIsClosed
  <2> QED BY <2>1 DEF OpenIn, CountOK, CountTypes
<1>2. /\ DOMAIN channels' = DOMAIN channels
      /\ \A c \in DOMAIN channels' : channels'[c] = IF c = r THEN channels[c] \ {k}
                                                   ELSE channels[c]
  OBVIOUS
<1>3. \A c : Members(session, c)' = IF c = r THEN Members(session, c) \ {k}
                                    ELSE Members(session, c)
  BY <1>1 DEF Members
<1>4. \A c \in DOMAIN channels' : channels'[c] = Members(session, c)'
  BY <1>2, <1>3 DEF ChannelsOK
<1>5. ChannelsOK'
  BY <1>1, <1>2, <1>4 DEF ChannelsOK
<1> QED BY <1>1, <1>2, <1>5

\* The channels stay right when neither the sessions nor the paths change.
LEMMA SameChannels ==
    ASSUME ChannelsOK, OpenIn(session') = OpenIn(session), UNCHANGED <<path, channels>>
    PROVE  ChannelsOK'
  BY DEF ChannelsOK, Members
-----------------------------------------------------------------------------
(* The numbers. *)

ShownOK == Views(view) /\ NumbersAreCurrent

\* The numbers sent by on_websocket_connect or on_websocket_disconnect and by the
\* callback of path r have arrived, and the cards are as before.
NumbersShown(u, views, ch, r, users) ==
    /\ Views(u)
    /\ \A j \in Sockets :
           /\ u[j].feed = views[j].feed
           /\ j \in ch[Lobby] => OverviewOf(u[j], ch, users)
           /\ r # Lobby /\ j \in ch[r] => u[j].count = Cardinality(ch[r])
           /\ j \notin ch[Lobby] /\ j \notin ch[r] => u[j].count = views[j].count

\* Both orders of the two callbacks, when a session begins and when it ends.
LEMMA ConnectShown ==
    ASSUME NEW views, Views(views), NEW ch, NEW r, NEW users,
           \A j \in ch[Lobby] : path[j[1]] = Lobby, \A j \in ch[r] : path[j[1]] = r
    PROVE  NumbersShown(CountUsers(Overview(views, ch, users), ch, r), views, ch, r, users)
<1>1. PICK v, u : v = Overview(views, ch, users) /\ u = CountUsers(v, ch, r)
  OBVIOUS
<1>2. OverviewShown(v, views, ch, users)
  BY <1>1, OverviewResult
<1>3. UsersShown(u, v, ch, r)
  <2>1. Views(v)
    BY <1>2 DEF OverviewShown
  <2> QED BY <1>1, <2>1, CountUsersResult
<1>4. ASSUME NEW j \in Sockets
      PROVE  /\ u[j].feed = views[j].feed
             /\ j \in ch[Lobby] => OverviewOf(u[j], ch, users)
             /\ r # Lobby /\ j \in ch[r] => u[j].count = Cardinality(ch[r])
             /\ j \notin ch[Lobby] /\ j \notin ch[r] => u[j].count = views[j].count
  <2>1. /\ u[j].feed = v[j].feed /\ SameOverview(u[j], v[j])
        /\ j \notin ch[r] => u[j] = v[j]
        /\ r # Lobby /\ j \in ch[r] => u[j].count = Cardinality(ch[r])
    BY <1>3 DEF UsersShown
  <2> QED BY <1>2, <2>1 DEF OverviewShown, OverviewOf, SameOverview
<1>5. Views(u)
  BY <1>3 DEF UsersShown
<1> QED BY <1>1, <1>4, <1>5 DEF NumbersShown

\* on_websocket_disconnect sends the room its number and the index all numbers.
LEMMA DisconnectShown ==
    ASSUME NEW views, Views(views), NEW ch, NEW r, NEW users,
           \A j \in ch[Lobby] : path[j[1]] = Lobby, \A j \in ch[r] : path[j[1]] = r
    PROVE  NumbersShown(Overview(CountUsers(views, ch, r), ch, users), views, ch, r, users)
<1>1. PICK v, u : v = CountUsers(views, ch, r) /\ u = Overview(v, ch, users)
  OBVIOUS
<1>2. UsersShown(v, views, ch, r)
  BY <1>1, CountUsersResult
<1>3. OverviewShown(u, v, ch, users)
  <2>1. Views(v)
    BY <1>2 DEF UsersShown
  <2> QED BY <1>1, <2>1, OverviewResult
<1>4. ASSUME NEW j \in Sockets
      PROVE  /\ u[j].feed = views[j].feed
             /\ j \in ch[Lobby] => OverviewOf(u[j], ch, users)
             /\ r # Lobby /\ j \in ch[r] => u[j].count = Cardinality(ch[r])
             /\ j \notin ch[Lobby] /\ j \notin ch[r] => u[j].count = views[j].count
  <2>1. /\ v[j].feed = views[j].feed
        /\ j \notin ch[r] => v[j] = views[j]
        /\ r # Lobby /\ j \in ch[r] => v[j].count = Cardinality(ch[r])
    BY <1>2 DEF UsersShown
  <2> QED BY <1>3, <2>1 DEF OverviewShown
<1>5. Views(u)
  BY <1>3 DEF OverviewShown
<1> QED BY <1>1, <1>4, <1>5 DEF NumbersShown

\* Once they have arrived, the numbers are current: those of the rooms whose channel did
\* not change have been so before.
LEMMA CurrentAfter ==
    ASSUME PagesOK, ChannelsOK', NumbersAreCurrent, path' = path,
           NEW r, r \in DOMAIN channels', NEW views, NEW u,
           NumbersShown(u, views, channels', r, userCount'),
           \A j \in OpenIn(session') : SameNumbers(view'[j], u[j]),
           \A j \in OpenIn(session') : path[j[1]] # r =>
               /\ j \in OpenIn(session) /\ views[j].count = view[j].count
               /\ channels'[path[j[1]]] = channels[path[j[1]]]
    PROVE  NumbersAreCurrent'
<1> SUFFICES ASSUME NEW j \in Sockets, session'[j] = "open"
             PROVE  IF path[j[1]] \in Rooms
                    THEN view'[j].count = Cardinality(channels'[path[j[1]]])
                    ELSE /\ view'[j].rooms = Cardinality(DOMAIN channels')
                         /\ view'[j].users = userCount'
                         /\ \A c \in DOMAIN channels' :
                                /\ c \in DOMAIN view'[j].sizes
                                /\ view'[j].sizes[c] = Cardinality(channels'[c])
  BY DEF NumbersAreCurrent, Open
<1> DEFINE c == path[j[1]]
<1>1. /\ j \in OpenIn(session') /\ c \in Paths /\ c \in DOMAIN channels'
  BY PathOfSocket DEF ChannelsOK, OpenIn
<1>2. \A d \in DOMAIN channels' : j \in channels'[d] <=> d = c
  BY <1>1 DEF ChannelsOK, Members
<1>3. SameNumbers(view'[j], u[j])
  BY <1>1
<1>4. CASE c \in Rooms
  <2>1. c # Lobby
    BY <1>4, PathsAssumption
  <2>2. CASE c = r
    BY <1>1, <1>2, <1>3, <1>4, <2>1, <2>2 DEF NumbersShown, SameNumbers
  <2>3. CASE c # r
    <3>1. /\ j \in OpenIn(session) /\ views[j].count = view[j].count
          /\ channels'[c] = channels[c]
      BY <1>1, <2>3
    <3>2. view[j].count = Cardinality(channels[c])
      BY <1>4, <3>1 DEF NumbersAreCurrent, OpenIn, Open
    <3>3. j \notin channels'[Lobby] /\ j \notin channels'[r]
      <4>1. Lobby \in DOMAIN channels'
        BY DEF ChannelsOK
      <4> QED BY <1>2, <2>1, <2>3, <4>1, Zenon
    <3>4. u[j].count = views[j].count
      BY <3>3 DEF NumbersShown
    <3> QED BY <1>3, <1>4, <3>1, <3>2, <3>4 DEF SameNumbers
  <2> QED BY <2>2, <2>3
<1>5. CASE c \notin Rooms
  <2>1. c = Lobby /\ j \in channels'[Lobby]
    BY <1>1, <1>2, <1>5 DEF Paths
  <2> QED BY <1>3, <1>5, <2>1 DEF NumbersShown, OverviewOf, SameNumbers
<1> QED BY <1>4, <1>5
-----------------------------------------------------------------------------
(* The messages. *)

\* What a room's page shows of the messages, all, that came before and after the n-th,
\* when it joined.
FeedOf(all, n) ==
    LastOf(<<Connected>> \o LastOf(SubSeq(all, 1, n), Cap) \o <<Welcome>>
               \o SubSeq(all, n + 1, Len(all)), FeedMax)

\* One card makes a feed.
LEMMA CardSequence ==
    ASSUME NEW x \in Int
    PROVE  <<x>> \in Seq(Int)
  BY EmptySeq, AppendProperties

\* The cards before those that came after the page joined.
LEMMA FirstCards ==
    ASSUME NEW kept \in Seq(Int)
    PROVE  /\ <<Connected>> \in Seq(Int) /\ <<Welcome>> \in Seq(Int)
           /\ <<Connected>> \o kept \in Seq(Int)
           /\ <<Connected>> \o kept \o <<Welcome>> \in Seq(Int)
           /\ <<Connected>> \o kept \o <<Welcome>> = <<Connected>> \o Append(kept, Welcome)
<1>1. Connected \in Int /\ Welcome \in Int
  BY DEF Connected, Welcome
<1>2. <<Connected>> \in Seq(Int) /\ <<Welcome>> \in Seq(Int)
  BY <1>1, CardSequence
<1>3. PICK c, w : c = <<Connected>> /\ w = <<Welcome>>
  OBVIOUS
<1>4. c \in Seq(Int) /\ w \in Seq(Int)
  BY <1>2, <1>3
<1>5. c \o kept \in Seq(Int)
  BY <1>4, ConcatProperties
<1>6. (c \o kept) \o w \in Seq(Int)
  BY <1>4, <1>5, ConcatProperties
<1>7. (c \o kept) \o w = c \o (kept \o w)
  BY <1>4, ConcatAssociative, SMTT(30)
<1>8. Append(kept, Welcome) = kept \o <<Welcome>>
  BY <1>1, AppendIsConcat
<1>9. /\ <<Connected>> \o kept \in Seq(Int)
      /\ <<Connected>> \o kept \o <<Welcome>> \in Seq(Int)
  BY <1>3, <1>5, <1>6
<1>10. <<Connected>> \o kept \o <<Welcome>> = <<Connected>> \o Append(kept, Welcome)
  BY <1>3, <1>7, <1>8
<1> QED BY <1>2, <1>9, <1>10

\* What it shows when it joins.
LEMMA FeedBegins ==
    ASSUME NEW all \in Seq(Int)
    PROVE  FeedOf(all, Len(all)) =
               LastOf(<<Connected>> \o Append(LastOf(all, Cap), Welcome), FeedMax)
<1>1. LastOf(all, Cap) \in Seq(Int)
  BY LastOfProperties, SizesAssumption
<1>2. SubSeq(all, 1, Len(all)) = all
  BY SubSeqFull
<1>3. SubSeq(all, Len(all) + 1, Len(all)) = <<>>
  BY LenProperties, SubSeqEmpty
<1>4. PICK old : old = <<Connected>> \o LastOf(all, Cap) \o <<Welcome>>
  OBVIOUS
<1>5. FeedOf(all, Len(all)) = LastOf(old \o <<>>, FeedMax)
  BY <1>2, <1>3, <1>4 DEF FeedOf
<1>6. old \in Seq(Int) /\ old = <<Connected>> \o Append(LastOf(all, Cap), Welcome)
  BY <1>1, <1>4, FirstCards
<1>7. old \in Seq(Int)
  BY <1>6
<1>8. old \o <<>> = old
  BY <1>7, ConcatEmptySeq
<1> QED BY <1>5, <1>6, <1>8

\* A sequence that grows: what was before a place, and what comes after it.
LEMMA SubSeqOfAppend ==
    ASSUME NEW all \in Seq(Int), NEW m \in Int, NEW n \in 0..Len(all)
    PROVE  /\ SubSeq(Append(all, m), 1, n) = SubSeq(all, 1, n)
           /\ SubSeq(all, 1, n) \in Seq(Int)
           /\ SubSeq(all, n + 1, Len(all)) \in Seq(Int)
           /\ SubSeq(Append(all, m), n + 1, Len(all) + 1) =
                  Append(SubSeq(all, n + 1, Len(all)), m)
<1>1. PICK w : w = <<m>> /\ w \in Seq(Int)
  BY CardSequence
<1>2. /\ Len(all) \in Nat /\ Append(all, m) \in Seq(Int)
      /\ Len(Append(all, m)) = Len(all) + 1 /\ Append(all, m)[Len(all) + 1] = m
  BY LenProperties, AppendProperties
<1>3. PICK more : more = Append(all, m) /\ more = all \o w
  BY <1>1, AppendIsConcat
<1>4. /\ more \in Seq(Int) /\ Len(more) = Len(all) + 1 /\ more[Len(all) + 1] = m
  BY <1>2, <1>3
<1>5. SubSeq(more, 1, n) = SubSeq(all, 1, n)
  <2>1. SubSeq(all \o w, 1, n) = SubSeq(all, 1, n)
    BY <1>1, <1>2, SubSeqOfConcat1
  <2> QED BY <1>3, <2>1
<1>6. SubSeq(more, n + 1, Len(all)) = SubSeq(all, n + 1, Len(all))
  <2>1. SubSeq(all \o w, n + 1, Len(all)) = SubSeq(all, n + 1, Len(all))
    BY <1>1, <1>2, SubSeqOfConcat1
  <2> QED BY <1>3, <2>1
<1>7. SubSeq(all, n + 1, Len(all)) \in Seq(Int)
  <2>1. \A i \in (n + 1)..Len(all) : all[i] \in Int
    <3>1. \A i \in (n + 1)..Len(all) : i \in 1..Len(all)
      BY <1>2
    <3> QED BY <3>1, ElementOfSeq
  <2> QED BY <1>2, <2>1, SubSeqProperties
<1>8. SubSeq(all, 1, n) \in Seq(Int)
  <2>1. \A i \in 1..n : all[i] \in Int
    <3>1. \A i \in 1..n : i \in 1..Len(all)
      BY <1>2
    <3> QED BY <3>1, ElementOfSeq
  <2> QED BY <1>2, <2>1, SubSeqProperties
<1>9. SubSeq(more, n + 1, Len(all) + 1) =
          SubSeq(more, n + 1, Len(all)) \o <<more[Len(all) + 1]>>
  <2>1. PICK a, b : a = n + 1 /\ b = Len(all) + 1
    OBVIOUS
  <2>2. a \in 1..Len(more) /\ b \in a..Len(more) /\ b - 1 = Len(all)
    BY <1>2, <1>4, <2>1
  <2>3. SubSeq(more, a, b) = SubSeq(more, a, b - 1) \o <<more[b]>>
    BY <1>4, <2>2, SubSeqRecursiveSecond
  <2> QED BY <2>1, <2>2, <2>3
<1>10. Append(SubSeq(all, n + 1, Len(all)), m) = SubSeq(all, n + 1, Len(all)) \o <<m>>
  BY <1>7, AppendIsConcat
<1> QED BY <1>3, <1>4, <1>5, <1>6, <1>7, <1>8, <1>9, <1>10

\* A feed that was cut and has got one more card.
LEMMA CutGrows ==
    ASSUME NEW old \in Seq(Int), NEW later \in Seq(Int), NEW m \in Int
    PROVE  LastOf(old \o Append(later, m), FeedMax) =
               LastOf(Append(LastOf(old \o later, FeedMax), m), FeedMax)
<1>1. old \o Append(later, m) = Append(old \o later, m)
  BY ConcatAppend
<1>2. old \o later \in Seq(Int) /\ FeedMax \in Nat
  BY ConcatProperties, SizesAssumption
<1>3. PICK shown \in Seq(Int) : shown = old \o later
  BY <1>2
<1>4. LastOf(Append(LastOf(shown, FeedMax), m), FeedMax) = LastOf(Append(shown, m), FeedMax)
  BY <1>2, LastOfAppend
<1> QED BY <1>1, <1>3, <1>4

\* What it shows when one more message came.
LEMMA FeedGrows ==
    ASSUME NEW all \in Seq(Int), NEW m \in Int, NEW n \in 0..Len(all)
    PROVE  FeedOf(Append(all, m), n) = LastOf(Append(FeedOf(all, n), m), FeedMax)
<1>1. PICK more : more = Append(all, m)
  OBVIOUS
<1>2. /\ SubSeq(more, 1, n) = SubSeq(all, 1, n)
      /\ SubSeq(more, n + 1, Len(all) + 1) = Append(SubSeq(all, n + 1, Len(all)), m)
      /\ SubSeq(all, 1, n) \in Seq(Int) /\ SubSeq(all, n + 1, Len(all)) \in Seq(Int)
  BY <1>1, SubSeqOfAppend
<1>3. Len(more) = Len(all) + 1
  BY <1>1, AppendProperties
<1>4. PICK later : later = SubSeq(all, n + 1, Len(all))
  OBVIOUS
<1>5. PICK old : old = <<Connected>> \o LastOf(SubSeq(all, 1, n), Cap) \o <<Welcome>>
  OBVIOUS
<1>6. old \in Seq(Int) /\ later \in Seq(Int)
  <2>1. LastOf(SubSeq(all, 1, n), Cap) \in Seq(Int)
    BY <1>2, LastOfProperties, SizesAssumption
  <2> QED BY <1>2, <1>4, <1>5, <2>1, FirstCards
<1>7. FeedOf(all, n) = LastOf(old \o later, FeedMax)
  BY <1>4, <1>5 DEF FeedOf
<1>8. FeedOf(more, n) = LastOf(old \o Append(later, m), FeedMax)
  BY <1>2, <1>3, <1>4, <1>5 DEF FeedOf
<1>9. LastOf(old \o Append(later, m), FeedMax) =
          LastOf(Append(LastOf(old \o later, FeedMax), m), FeedMax)
  BY <1>6, CutGrows
<1> QED BY <1>1, <1>7, <1>8, <1>9
\* A ring is the end of its room's log, only users in rooms write, and a page in a room
\* shows what FeedOf says.
FeedsOK ==
    /\ log \in [Rooms -> Seq(Int)] /\ mail \in [Sockets -> Seq(Int)]
    /\ chat = [r \in Rooms |-> LastOf(log[r], Cap)]
    /\ joined \in [Sockets -> Nat]
    /\ \A k \in Sockets : mail[k] # <<>> => path[k[1]] \in Rooms
    /\ \A k \in OpenIn(session) : path[k[1]] \in Rooms =>
           /\ joined[k] \in 0..Len(log[path[k[1]]])
           /\ view[k].feed = FeedOf(log[path[k[1]]], joined[k])

BoundsOK == posts \in 0..MaxPosts /\ starts \in 0..MaxStarts

ChatOK == ChannelsOK /\ ShownOK /\ FeedsOK /\ BoundsOK

\* How the program begins, and what is left when it ends.
Fresh ==
    /\ channels = FreshChannels /\ chat = FreshChat /\ log = FreshLog
    /\ OpenIn(session) = {}
    /\ mail = [k \in Sockets |-> <<>>] /\ joined = [k \in Sockets |-> 0]
    /\ view = [k \in Sockets |-> NoView]
    /\ BoundsOK

\* With a server that was never started and pages that show nothing, all is in order.
LEMMA FreshIsOK == Fresh => ChatOK
<1> SUFFICES ASSUME Fresh PROVE ChatOK
  OBVIOUS
<1>1. ChannelsOK
  <2>1. DOMAIN channels = Precreated /\ \A c \in DOMAIN channels : channels[c] = {}
    BY DEF Fresh, FreshChannels
  <2>2. \A c : Members(session, c) = {}
    BY DEF Fresh, Members
  <2> QED BY <2>1, <2>2, PathsAssumption DEF ChannelsOK, Fresh
<1>2. ShownOK
  <2>1. Views(view)
    BY DEF Fresh, Views, IsView
  <2>2. NumbersAreCurrent
    BY DEF Fresh, NumbersAreCurrent, Open, OpenIn
  <2> QED BY <2>1, <2>2 DEF ShownOK
<1>3. FeedsOK
  <2>1. Seeds \in Seq(Int)
    <3>1. \A i \in 1..Len(Seeds) : Seeds[i] \in Int
      BY SeedsAssumption, ElementOfSeq
    <3> QED BY <3>1, SeedsAssumption, SeqMonotonic
  <2>2. <<>> \in Seq(Int)
    OBVIOUS
  <2>3. log \in [Rooms -> Seq(Int)]
    BY <2>1, <2>2 DEF Fresh, FreshLog
  <2>4. Pushed(Seeds) = LastOf(Seeds, Cap)
    BY <2>1, PushedResult
  <2>5. LastOf(<<>>, Cap) = <<>>
    <3>1. Len(<<>>) = 0 /\ 0 <= Cap
      BY SizesAssumption
    <3> QED BY <3>1 DEF LastOf
  <2>6. chat = [r \in Rooms |-> LastOf(log[r], Cap)]
    BY <2>4, <2>5 DEF Fresh, FreshChat, FreshLog
  <2>7. mail \in [Sockets -> Seq(Int)] /\ joined \in [Sockets -> Nat]
    BY <2>2 DEF Fresh
  <2>8. \A k \in Sockets : mail[k] = <<>>
    BY DEF Fresh
  <2> QED BY <2>3, <2>6, <2>7, <2>8 DEF FeedsOK, Fresh
<1> QED BY <1>1, <1>2, <1>3 DEF ChatOK, Fresh

\* The same of the state after a step.
LEMMA FreshAgainIsOK == Fresh' => ChatOK'
  BY FreshIsOK, PTL

\* The exit of the program ends all sessions: no open page is left to be wrong.
LEMMA ExitChat ==
    ASSUME CountOK, ChatOK, Exit
    PROVE  ChatOK'
<1>1. OpenIn(session') = {}
  <2>1. session' = [k \in Sockets |-> Gone(k)]
    BY DEF Exit
  <2>2. \A k \in Sockets : session'[k] # "open"
    BY <2>1, GoneIsClosed
  <2> QED BY <2>2 DEF OpenIn
<1>2. BoundsOK'
  BY DEF Exit, pageVars, ChatOK, BoundsOK
<1>3. Fresh'
  BY <1>1, <1>2 DEF Exit, Fresh
<1> QED BY <1>3, FreshAgainIsOK

\* A step of which only the states of sessions that are not open, and the counts, know.
LEMMA UnchangedChat ==
    ASSUME ChatOK, OpenIn(session') = OpenIn(session), BoundsOK',
           UNCHANGED <<path, channels, chat, userCount, log, joined, view, mail>>
    PROVE  ChatOK'
<1>1. ChannelsOK'
  BY SameChannels DEF ChatOK
<1>2. ShownOK'
  BY DEF ChatOK, ShownOK, NumbersAreCurrent, Open, OpenIn
<1>3. FeedsOK'
  BY DEF ChatOK, FeedsOK
<1> QED BY <1>1, <1>2, <1>3 DEF ChatOK

\* A user writes a message.
LEMMA SubmitChat ==
    ASSUME ChatOK, NEW p \in Pages, Submit(p)
    PROVE  ChatOK'
<1> DEFINE k == <<p, page[p].ws>>
           m == Len(Seeds) + posts'
<1>1. /\ path[p] \in Rooms /\ posts < MaxPosts /\ posts' = posts + 1
      /\ mail' = IF session[k] = "open" THEN [mail EXCEPT ![k] = Append(@, m)] ELSE mail
      /\ UNCHANGED <<path, page, serverVars, job, session>>
  BY DEF Submit
<1>2. UNCHANGED <<path, starts, channels, chat, userCount, log, joined, view, session>>
  BY <1>1 DEF serverVars
<1>3. BoundsOK'
  BY <1>1, <1>2, SizesAssumption DEF ChatOK, BoundsOK
<1>4. m \in Int
  BY <1>3, SeedsAssumption, LenProperties DEF BoundsOK
<1>5. mail' \in [Sockets -> Seq(Int)]
  <2> HIDE DEF m
  <2>1. mail \in [Sockets -> Seq(Int)]
    BY DEF ChatOK, FeedsOK
  <2>2. k \in Sockets => Append(mail[k], m) \in Seq(Int)
    BY <1>4, <2>1, AppendProperties
  <2> HIDE DEF k
  <2> QED BY <1>1, <2>1, <2>2
<1>6. \A j \in Sockets : mail'[j] # <<>> => path'[j[1]] \in Rooms
  <2> SUFFICES ASSUME NEW j \in Sockets, mail'[j] # <<>> PROVE path[j[1]] \in Rooms
    BY <1>2
  <2>1. mail \in [Sockets -> Seq(Int)]
    BY DEF ChatOK, FeedsOK
  <2>2. CASE j = k
    BY <1>1, <2>2
  <2>3. CASE j # k
    <3>1. mail'[j] = mail[j]
      BY <1>1, <2>1, <2>3
    <3> QED BY <3>1 DEF ChatOK, FeedsOK
  <2> QED BY <2>2, <2>3
<1>7. FeedsOK'
  BY <1>2, <1>5, <1>6 DEF ChatOK, FeedsOK, OpenIn
<1>8. ChannelsOK'
  BY <1>2 DEF ChatOK, ChannelsOK, Members, OpenIn
<1>9. ShownOK'
  BY <1>2 DEF ChatOK, ShownOK, NumbersAreCurrent, Open
<1> QED BY <1>3, <1>7, <1>8, <1>9 DEF ChatOK
\* on_read: the message is kept, and everybody in the room shows it.
LEMMA ReadChat ==
    ASSUME PagesOK, CountOK, ChatOK, NEW k \in Sockets, OnRead(k)
    PROVE  ChatOK'
<1> DEFINE r == path[k[1]]
           m == Head(mail[k])
<1>1. /\ session[k] = "open" /\ mail[k] # <<>>
      /\ mail' = [mail EXCEPT ![k] = Tail(@)]
      /\ chat' = [chat EXCEPT ![r] = Push(@, m)]
      /\ log' = [log EXCEPT ![r] = Append(@, m)]
      /\ view' = Broadcast(view, channels[r], Text(m))
      /\ UNCHANGED <<path, posts, starts, channels, userCount, joined, session>>
  BY DEF OnRead, pageVars
<1>2. /\ log \in [Rooms -> Seq(Int)] /\ mail \in [Sockets -> Seq(Int)]
      /\ chat = [c \in Rooms |-> LastOf(log[c], Cap)]
  BY DEF ChatOK, FeedsOK
<1>3. /\ r \in Rooms /\ r # Lobby /\ r \in DOMAIN channels
      /\ channels[r] = Members(session, r)
  BY <1>1, PathsAssumption DEF ChatOK, FeedsOK, ChannelsOK, OpenIn
<1>4. m \in Int /\ Tail(mail[k]) \in Seq(Int)
  <2>1. mail[k] \in Seq(Int)
    BY <1>2
  <2> QED BY <1>1, <2>1, HeadTailProperties
<1>5. RoomShowsText(view', view, channels[r], m)
  <2>1. \A j \in channels[r] : path[j[1]] # Lobby
    BY <1>3 DEF Members
  <2>2. Views(view)
    BY DEF ChatOK, ShownOK
  <2> HIDE DEF r, m
  <2> QED BY <1>1, <2>1, <2>2, RoomBroadcast
<1> HIDE DEF m
<1>6. ASSUME NEW j \in Sockets PROVE SameNumbers(view'[j], view[j])
  BY <1>5 DEF RoomShowsText, SameNumbers
<1>7. ShownOK'
  <2>1. Views(view')
    BY <1>5 DEF RoomShowsText
  <2>2. \A j \in Sockets : /\ view'[j].count = view[j].count /\ view'[j].rooms = view[j].rooms
                           /\ view'[j].users = view[j].users /\ view'[j].sizes = view[j].sizes
    BY <1>6 DEF SameNumbers
  <2>3. NumbersAreCurrent'
    BY <1>1, <2>2 DEF ChatOK, ShownOK, NumbersAreCurrent, Open
  <2> QED BY <2>1, <2>3 DEF ShownOK
<1>8. ChannelsOK' /\ BoundsOK'
  BY <1>1 DEF ChatOK, ChannelsOK, BoundsOK, Members, OpenIn
<1>9. log[r] \in Seq(Int) /\ Append(log[r], m) \in Seq(Int)
      /\ Len(Append(log[r], m)) = Len(log[r]) + 1 /\ Len(log[r]) \in Nat
  BY <1>2, <1>3, <1>4, AppendProperties, LenProperties
<1>10. log' \in [Rooms -> Seq(Int)] /\ mail' \in [Sockets -> Seq(Int)]
  BY <1>1, <1>2, <1>4, <1>9
<1>11. chat' = [c \in Rooms |-> LastOf(log'[c], Cap)]
  <2>1. Push(chat[r], m) = LastOf(Append(log[r], m), Cap)
    <3>1. chat[r] = LastOf(log[r], Cap)
      BY <1>2, <1>3
    <3>2. LastOf(Append(LastOf(log[r], Cap), m), Cap) = LastOf(Append(log[r], m), Cap)
      BY <1>4, <1>9, LastOfAppend, SizesAssumption, SMTT(30)
    <3>3. Push(chat[r], m) = LastOf(Append(chat[r], m), Cap)
      BY DEF Push
    <3> QED BY <3>1, <3>2, <3>3, Zenon
  <2>2. \A c \in Rooms : log'[c] = IF c = r THEN Append(log[r], m) ELSE log[c]
    BY <1>1, <1>2
  <2>3. \A c \in Rooms : chat'[c] = IF c = r THEN Push(chat[r], m) ELSE chat[c]
    BY <1>1, <1>2
  <2>4. \A c \in Rooms : chat[c] = LastOf(log[c], Cap)
    BY <1>2
  <2>5. chat' = [c \in Rooms |-> chat'[c]]
    BY <1>1, <1>2
  <2>6. \A c \in Rooms : chat'[c] = LastOf(log'[c], Cap)
    BY <2>1, <2>2, <2>3, <2>4, Zenon
  <2> QED BY <2>5, <2>6
<1>12. \A j \in Sockets : mail'[j] # <<>> => path[j[1]] \in Rooms
  <2> SUFFICES ASSUME NEW j \in Sockets, mail'[j] # <<>> PROVE path[j[1]] \in Rooms
    OBVIOUS
  <2>1. CASE j = k
    BY <1>3, <2>1
  <2>2. CASE j # k
    <3>1. mail'[j] = mail[j]
      BY <1>1, <1>2, <2>2
    <3> QED BY <3>1 DEF ChatOK, FeedsOK
  <2> QED BY <2>1, <2>2
<1>13. ASSUME NEW j \in OpenIn(session), path[j[1]] \in Rooms
       PROVE  /\ joined[j] \in 0..Len(log'[path[j[1]]])
              /\ view'[j].feed = FeedOf(log'[path[j[1]]], joined[j])
  <2>1. /\ joined[j] \in 0..Len(log[path[j[1]]])
        /\ view[j].feed = FeedOf(log[path[j[1]]], joined[j])
    BY <1>13 DEF ChatOK, FeedsOK
  <2>2. j \in Sockets
    BY DEF OpenIn
  <2>3. CASE path[j[1]] = r
    <3>1. log'[path[j[1]]] = Append(log[r], m)
      BY <1>1, <1>2, <1>3, <2>3
    <3>2. j \in channels[r]
      BY <1>3, <2>3 DEF Members
    <3>3. view'[j].feed = LastOf(Append(view[j].feed, m), FeedMax)
      BY <1>5, <2>2, <3>2 DEF RoomShowsText
    <3>4. joined[j] \in 0..Len(log[r])
      BY <2>1, <2>3
    <3>5. FeedOf(Append(log[r], m), joined[j]) =
              LastOf(Append(FeedOf(log[r], joined[j]), m), FeedMax)
      BY <1>4, <1>9, <3>4, FeedGrows
    <3>6. joined[j] \in 0..Len(Append(log[r], m))
      BY <1>9, <3>4
    <3> QED BY <2>1, <2>3, <3>1, <3>3, <3>5, <3>6
  <2>4. CASE path[j[1]] # r
    <3>1. log'[path[j[1]]] = log[path[j[1]]]
      BY <1>1, <1>2, <1>13, <2>4
    <3>2. j \notin channels[r]
      BY <1>3, <2>4 DEF Members
    <3>3. view'[j] = view[j]
      BY <1>5, <2>2, <3>2 DEF RoomShowsText
    <3> QED BY <2>1, <3>1, <3>3
  <2> QED BY <2>3, <2>4
<1>14. FeedsOK'
  <2>1. path' = path /\ joined' = joined /\ OpenIn(session') = OpenIn(session)
        /\ joined \in [Sockets -> Nat]
    BY <1>1 DEF ChatOK, FeedsOK
  <2> QED BY <1>10, <1>11, <1>12, <1>13, <2>1 DEF FeedsOK
<1> QED BY <1>7, <1>8, <1>14 DEF ChatOK

\* Type of the views that begin and end a session.
LEMMA OpenedView == IsView(NoView) /\ IsView(OpenView) /\ OpenView.feed = <<Connected>>
  BY DEF IsView, NoView, OpenView

\* on_accept: everybody's numbers are current again, and the new page shows what the
\* ring had kept.
LEMMA AcceptedChat ==
    ASSUME PagesOK, CountOK, ChatOK, NEW t \in 1..Asked, job[t] # Idle,
           job[t].kind = "accept", Accepted(t),
           UNCHANGED <<pageVars, starts, threads, chat, log>>
    PROVE  ChatOK'
<1> DEFINE k == job[t].socket
           r == path[k[1]]
           opening == [view EXCEPT ![k] = OpenView]
           counted == CountUsers(Overview(opening, channels', userCount'), channels', r)
<1>1. k \in Sockets /\ session[k] = "asking"
  BY JobFacts
<1>2. /\ session' = [session EXCEPT ![k] = "open"] /\ channels' = Join(channels, r, k)
      /\ view' = Replay(counted, k, r)
      /\ joined' = [joined EXCEPT ![k] = IF r = Lobby THEN 0 ELSE Len(log[r])]
      /\ UNCHANGED <<mail, path, posts, starts, chat, log>>
  BY DEF Accepted, pageVars
<1> HIDE DEF k
<1>3. /\ ChannelsOK' /\ r \in DOMAIN channels'
      /\ OpenIn(session') = OpenIn(session) \cup {k} /\ k \notin OpenIn(session)
      /\ \A c \in DOMAIN channels' : c # r => channels'[c] = channels[c]
  BY <1>1, <1>2, AcceptedChannels DEF ChatOK
<1>4. /\ Views(opening) /\ opening[k].feed = <<Connected>>
      /\ \A j \in Sockets : j # k => opening[j] = view[j]
  <2>1. Views(view)
    BY DEF ChatOK, ShownOK
  <2> QED BY <1>1, <2>1, OpenedView DEF Views
<1>5. /\ \A j \in channels'[Lobby] : path[j[1]] = Lobby
      /\ \A j \in channels'[r] : path[j[1]] = r
  BY <1>2, <1>3 DEF ChannelsOK, Members
<1> HIDE DEF opening, r
<1>6. NumbersShown(counted, opening, channels', r, userCount')
  BY <1>4, <1>5, ConnectShown
<1> HIDE DEF counted
<1>7. /\ log \in [Rooms -> Seq(Int)] /\ joined \in [Sockets -> Nat]
      /\ chat = [c \in Rooms |-> LastOf(log[c], Cap)]
  BY DEF ChatOK, FeedsOK
<1>8. r \in Paths /\ path[k[1]] = r
  BY <1>1, PathOfSocket DEF r
<1>9. Views(counted) /\ counted[k].feed = <<Connected>>
  BY <1>1, <1>4, <1>6 DEF NumbersShown
<1>10. /\ Views(view')
       /\ \A j \in Sockets : SameNumbers(view'[j], counted[j])
       /\ \A j \in Sockets : j # k => view'[j].feed = counted[j].feed
       /\ r # Lobby => view'[k].feed = FeedOf(log[r], Len(log[r]))
  <2>1. CASE r = Lobby
    <3>1. view' = counted
      BY <1>2, <2>1 DEF Replay
    <3> QED BY <1>9, <2>1, <3>1 DEF SameNumbers
  <2>2. CASE r # Lobby
    <3>1. r \in Rooms /\ chat[r] = LastOf(log[r], Cap) /\ log[r] \in Seq(Int)
      BY <1>7, <1>8, <2>2 DEF Paths
    <3>2. chat[r] \in Seq(Int) /\ counted[k].feed \in Seq(Int)
      <4>1. Connected \in Int
        BY DEF Connected
      <4> QED BY <1>9, <3>1, <4>1, CardSequence, LastOfProperties, SizesAssumption
    <3>3. CardsAdded(view', counted, k, Append(chat[r], Welcome))
      BY <1>1, <1>2, <1>8, <1>9, <2>2, <3>2, ReplayResult
    <3>4. view'[k].feed = LastOf(<<Connected>> \o Append(LastOf(log[r], Cap), Welcome), FeedMax)
      BY <1>9, <3>1, <3>3 DEF CardsAdded
    <3>5. view'[k].feed = FeedOf(log[r], Len(log[r]))
      BY <3>1, <3>4, FeedBegins
    <3> QED BY <1>1, <3>3, <3>5 DEF CardsAdded, SameNumbers
  <2> QED BY <2>1, <2>2
<1>11. NumbersAreCurrent'
  <2>1. ASSUME NEW j \in OpenIn(session'), path[j[1]] # r
        PROVE  /\ j \in OpenIn(session) /\ opening[j].count = view[j].count
               /\ channels'[path[j[1]]] = channels[path[j[1]]]
    <3>1. j # k /\ j \in OpenIn(session) /\ j \in Sockets
      BY <1>3, <1>8, <2>1 DEF OpenIn
    <3>2. path[j[1]] \in DOMAIN channels'
      BY <1>2, <1>3 DEF ChannelsOK
    <3> QED BY <1>3, <1>4, <2>1, <3>1, <3>2
  <2>2. \A j \in OpenIn(session') : SameNumbers(view'[j], counted[j])
    BY <1>10 DEF OpenIn
  <2>3. NumbersAreCurrent
    BY DEF ChatOK, ShownOK
  <2>4. path' = path
    BY <1>2
  <2> QED BY <1>3, <1>6, <2>1, <2>2, <2>3, <2>4, CurrentAfter
<1>12. ASSUME NEW j \in OpenIn(session'), path[j[1]] \in Rooms
       PROVE  /\ joined'[j] \in 0..Len(log[path[j[1]]])
              /\ view'[j].feed = FeedOf(log[path[j[1]]], joined'[j])
  <2>1. CASE j = k
    <3>1. r # Lobby /\ path[j[1]] = r /\ log[r] \in Seq(Int)
      BY <1>7, <1>8, <1>12, <2>1, PathsAssumption
    <3>2. joined'[j] = Len(log[r])
      BY <1>1, <1>2, <1>7, <2>1, <3>1
    <3>3. Len(log[r]) \in 0..Len(log[r])
      BY <3>1, LenProperties
    <3> QED BY <1>10, <2>1, <3>1, <3>2, <3>3
  <2>2. CASE j # k
    <3>1. j \in OpenIn(session) /\ j \in Sockets
      BY <1>3, <2>2 DEF OpenIn
    <3>2. joined'[j] = joined[j]
      BY <1>2, <1>7, <2>2, <3>1
    <3>3. view'[j].feed = view[j].feed
      BY <1>4, <1>6, <1>10, <2>2, <3>1 DEF NumbersShown
    <3> QED BY <1>12, <3>1, <3>2, <3>3 DEF ChatOK, FeedsOK
  <2> QED BY <2>1, <2>2
<1>13. joined' \in [Sockets -> Nat]
  <2>1. (IF r = Lobby THEN 0 ELSE Len(log[r])) \in Nat
    <3>1. r # Lobby => log[r] \in Seq(Int)
      BY <1>7, <1>8 DEF Paths
    <3> QED BY <3>1, LenProperties
  <2> QED BY <1>2, <1>7, <2>1
<1>14. FeedsOK'
  BY <1>2, <1>7, <1>12, <1>13 DEF ChatOK, FeedsOK
<1>15. BoundsOK' /\ ShownOK'
  BY <1>2, <1>10, <1>11 DEF ChatOK, BoundsOK, ShownOK
<1> QED BY <1>3, <1>14, <1>15 DEF ChatOK

\* The end of a session: it has left its channel when the numbers are sent.
LEMMA DestroyedChat ==
    ASSUME PagesOK, CountOK, ChatOK, NEW t \in 1..Asked, job[t] # Idle,
           path[job[t].socket[1]] \in DOMAIN channels, Destroyed(t),
           UNCHANGED <<pageVars, starts, threads, chat, log>>
    PROVE  ChatOK'
<1> DEFINE k == job[t].socket
           r == path[k[1]]
           shown == Overview(CountUsers(view, channels', r), channels', userCount')
<1>1. k \in Sockets /\ r \in DOMAIN channels
  BY JobFacts
<1>2. /\ session' = [session EXCEPT ![k] = Gone(k)]
      /\ channels' = [channels EXCEPT ![r] = @ \ {k}]
      /\ view' = [shown EXCEPT ![k] = NoView]
      /\ joined' = [joined EXCEPT ![k] = 0] /\ mail' = [mail EXCEPT ![k] = <<>>]
      /\ UNCHANGED <<path, posts, starts, chat, log>>
  BY DEF Destroyed, pageVars
<1> HIDE DEF k
<1>3. /\ ChannelsOK' /\ DOMAIN channels' = DOMAIN channels
      /\ OpenIn(session') = OpenIn(session) \ {k}
      /\ \A c \in DOMAIN channels' : c # r => channels'[c] = channels[c]
  BY <1>1, <1>2, DestroyedChannels DEF ChatOK
<1>4. Views(view) /\ NumbersAreCurrent
  BY DEF ChatOK, ShownOK
<1>5. /\ \A j \in channels'[Lobby] : path[j[1]] = Lobby
      /\ \A j \in channels'[r] : path[j[1]] = r
  BY <1>1, <1>2, <1>3 DEF ChannelsOK, Members
<1> HIDE DEF r
<1>6. NumbersShown(shown, view, channels', r, userCount')
  BY <1>4, <1>5, DisconnectShown
<1> HIDE DEF shown
<1>7. Views(view') /\ \A j \in Sockets : j # k => view'[j] = shown[j]
  <2>1. Views(shown)
    BY <1>6 DEF NumbersShown
  <2> QED BY <1>1, <1>2, <2>1, OpenedView DEF Views
<1>8. NumbersAreCurrent'
  <2>1. ASSUME NEW j \in OpenIn(session'), path[j[1]] # r
        PROVE  /\ j \in OpenIn(session) /\ view[j].count = view[j].count
               /\ channels'[path[j[1]]] = channels[path[j[1]]]
    <3>1. path[j[1]] \in DOMAIN channels'
      BY <1>2, <1>3 DEF ChannelsOK
    <3> QED BY <1>3, <2>1, <3>1
  <2>2. \A j \in OpenIn(session') : SameNumbers(view'[j], shown[j])
    BY <1>3, <1>7 DEF OpenIn, SameNumbers
  <2>3. path' = path /\ r \in DOMAIN channels'
    BY <1>1, <1>2, <1>3
  <2> QED BY <1>3, <1>4, <1>6, <2>1, <2>2, <2>3, CurrentAfter
<1>9. /\ log \in [Rooms -> Seq(Int)] /\ joined \in [Sockets -> Nat]
      /\ mail \in [Sockets -> Seq(Int)]
  BY DEF ChatOK, FeedsOK
<1>10. ASSUME NEW j \in OpenIn(session'), path[j[1]] \in Rooms
       PROVE  /\ joined'[j] \in 0..Len(log[path[j[1]]])
              /\ view'[j].feed = FeedOf(log[path[j[1]]], joined'[j])
  <2>1. j \in OpenIn(session) /\ j \in Sockets /\ j # k
    BY <1>3 DEF OpenIn
  <2>2. joined'[j] = joined[j]
    BY <1>2, <1>9, <2>1
  <2>3. view'[j].feed = view[j].feed
    BY <1>6, <1>7, <2>1 DEF NumbersShown
  <2> QED BY <1>10, <2>1, <2>2, <2>3 DEF ChatOK, FeedsOK
<1>11. joined' \in [Sockets -> Nat] /\ mail' \in [Sockets -> Seq(Int)]
  <2>1. <<>> \in Seq(Int)
    OBVIOUS
  <2> QED BY <1>2, <1>9, <2>1
<1>12. \A j \in Sockets : mail'[j] # <<>> => mail'[j] = mail[j]
  BY <1>2, <1>9
<1>13. FeedsOK'
  BY <1>2, <1>9, <1>10, <1>11, <1>12 DEF ChatOK, FeedsOK
<1>14. BoundsOK' /\ ShownOK'
  BY <1>2, <1>7, <1>8 DEF ChatOK, BoundsOK, ShownOK
<1> QED BY <1>3, <1>13, <1>14 DEF ChatOK
\* Every step leaves the channels, and what the pages show, right.
LEMMA ChatStep == PagesOK /\ CountOK /\ ChatOK /\ [Next]_vars => ChatOK'
<1> SUFFICES ASSUME PagesOK, CountOK, ChatOK, [Next]_vars PROVE ChatOK'
  OBVIOUS
<1> DEFINE Kept == UNCHANGED <<path, channels, chat, userCount, log, joined, view, mail>>
<1>1. CASE \E p \in Pages : Websocket(p) \/ OnOpen(p)
  <2>1. Kept /\ UNCHANGED <<session, posts, starts>>
    BY <1>1 DEF Websocket, OnOpen, serverVars
  <2> QED BY <2>1, UnchangedChat DEF ChatOK, BoundsOK, OpenIn
<1>2. CASE \E p \in Pages : OnClose(p)
  <2>1. PICK p \in Pages : OnClose(p)
    BY <1>2
  <2>2. Kept /\ UNCHANGED <<posts, starts>>
    BY <2>1 DEF OnClose, serverVars
  <2>3. \A k \in Sockets : session'[k] = "open" <=> session[k] = "open"
    BY <2>1 DEF OnClose
  <2>4. OpenIn(session') = OpenIn(session)
    BY <2>3 DEF OpenIn
  <2> QED BY <2>2, <2>4, UnchangedChat DEF ChatOK, BoundsOK
<1>3. CASE \E p \in Pages : Submit(p)
  BY <1>3, SubmitChat
<1>4. CASE Listen
  <2>1. Kept /\ UNCHANGED <<session, posts>> /\ starts < MaxStarts /\ starts' = starts + 1
    BY <1>4 DEF Listen, pageVars
  <2>2. BoundsOK'
    BY <2>1, SizesAssumption DEF ChatOK, BoundsOK
  <2> QED BY <2>1, <2>2, UnchangedChat DEF OpenIn
<1>5. CASE OnSignal
  BY <1>5, ExitChat DEF OnSignal
<1>6. CASE \E k \in Sockets : Upgrade(k)
  <2>1. PICK k \in Sockets : Upgrade(k)
    BY <1>6
  <2>2. Kept /\ UNCHANGED <<posts, starts>>
    BY <2>1 DEF Upgrade, serverVars, pageVars
  <2>3. OpenIn(session') = OpenIn(session)
    BY <2>1 DEF Upgrade, OpenIn, CountOK, CountTypes
  <2> QED BY <2>2, <2>3, UnchangedChat DEF ChatOK, BoundsOK
<1>7. CASE \E k \in Sockets : OnAccept(k) \/ OnAcceptFail(k) \/ OnReadFail(k)
  <2>1. Kept /\ UNCHANGED <<session, posts, starts>>
    BY <1>7 DEF OnAccept, OnAcceptFail, OnReadFail, Enter, serverVars, pageVars
  <2> QED BY <2>1, UnchangedChat DEF ChatOK, BoundsOK, OpenIn
<1>8. CASE \E k \in Sockets : OnRead(k)
  BY <1>8, ReadChat
<1>9. CASE \E t \in 1..Asked : Finish(t)
  <2>1. PICK t \in 1..Asked : Finish(t)
    BY <1>9
  <2>2. job[t] # Idle
    BY <2>1 DEF Finish
  <2>3. CASE /\ job[t].kind = "accept" /\ Accepted(t)
             /\ UNCHANGED <<pageVars, starts, threads, chat, log>>
    BY <2>2, <2>3, AcceptedChat
  <2>4. CASE /\ path[job[t].socket[1]] \in DOMAIN channels /\ Destroyed(t)
             /\ UNCHANGED <<pageVars, starts, threads, chat, log>>
    BY <2>2, <2>4, DestroyedChat
  <2>5. CASE Exit
    BY <2>5, ExitChat
  <2> QED BY <2>1, <2>3, <2>4, <2>5 DEF Finish
<1>10. CASE UNCHANGED vars
  <2>1. Kept /\ UNCHANGED <<session, posts, starts>>
    BY <1>10 DEF vars, serverVars, pageVars
  <2> QED BY <2>1, UnchangedChat DEF ChatOK, BoundsOK, OpenIn
<1> QED BY <1>1, <1>2, <1>3, <1>4, <1>5, <1>6, <1>7, <1>8, <1>9, <1>10 DEF Next

\* The channels, the numbers and the messages stay right together.
THEOREM ChatInductive == Spec => []ChatOK
<1>1. Init => ChatOK
  <2> SUFFICES ASSUME Init PROVE ChatOK
    OBVIOUS
  <2>1. OpenIn(session) = {} /\ BoundsOK
    BY SizesAssumption DEF Init, OpenIn, BoundsOK
  <2>2. Fresh
    BY <2>1 DEF Init, Fresh
  <2> QED BY <2>2, FreshIsOK
<1> QED BY <1>1, PagesInductive, CountInductive, ChatStep, PTL DEF Spec

\* Everybody is told of every change: what a connected page shows is true.
THEOREM NumbersAreCurrentAlways == Spec => []NumbersAreCurrent
<1>1. ChatOK => NumbersAreCurrent
  BY DEF ChatOK, ShownOK
<1> QED BY <1>1, ChatInductive, PTL

\* A room's page shows the room's messages, from those the ring had kept when it joined.
THEOREM FeedIsLogAlways == Spec => []FeedIsLog
<1>1. ChatOK => FeedIsLog
  BY DEF ChatOK, FeedsOK, FeedIsLog, FeedOf, Open, OpenIn
<1> QED BY <1>1, ChatInductive, PTL

\* The types of the chat's variables, and no ring is longer than it may be.
THEOREM ChatTypeOK == Spec => []TypeOK
<1>1. PagesOK /\ CountOK /\ ChatOK => TypeOK
  <2> SUFFICES ASSUME PagesOK, CountOK, ChatOK PROVE TypeOK
    OBVIOUS
  <2>1. /\ path \in [Pages -> Paths]
        /\ page \in [Pages -> [ready : {"loading", "connecting", "open", "waiting", "stopped"},
                               ws : 0..2, retry : 0..RetryMax + 1, wait : 1..TimeoutMax]]
    BY DEF PagesOK, PageRecord, ReadyStates, Attempts, Waits
  <2>2. /\ server \in {"off", "on", "deaf"} /\ threads \in 1..Asked
        /\ session \in [Sockets -> {"none", "asking", "open", "ended"}]
        /\ userCount \in Int /\ refused \in 0..MaxRefused
    BY DEF CountOK, CountTypes, SessionStates
  <2>3. /\ DOMAIN channels \subseteq Paths
        /\ \A c \in DOMAIN channels : channels[c] \subseteq Sockets
    BY DEF ChatOK, ChannelsOK, Members, OpenIn
  <2>4. ASSUME NEW r \in Rooms PROVE Len(chat[r]) <= Cap
    <3>1. chat[r] = LastOf(log[r], Cap) /\ log[r] \in Seq(Int)
      BY DEF ChatOK, FeedsOK
    <3>2. Len(LastOf(log[r], Cap)) = IF Len(log[r]) <= Cap THEN Len(log[r]) ELSE Cap
      BY <3>1, LastOfProperties, SizesAssumption
    <3> QED BY <3>1, <3>2, SizesAssumption
  <2>5. starts \in 0..MaxStarts /\ posts \in 0..MaxPosts
    BY DEF ChatOK, BoundsOK
  <2> QED BY <2>1, <2>2, <2>3, <2>4, <2>5 DEF TypeOK
<1> QED BY <1>1, PagesInductive, CountInductive, ChatInductive, PTL
=============================================================================
