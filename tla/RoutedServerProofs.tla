------------------------- MODULE RoutedServerProofs -------------------------
(***************************************************************************)
(* Proofs about Routing, RouteTable and RoutedServer: which route answers  *)
(* a request, how often it is answered and what may escape, for any server,*)
(* request and callbacks; and that the table of routes is what the calls   *)
(* that made it say, for any routes, methods and number of calls.          *)
(***************************************************************************)
EXTENDS RoutedServer, SequenceTheorems, WellFoundedInduction, TLAPS

\* A set of positions that is not empty has a first one.
LEMMA FirstOfIsLeast ==
    ASSUME NEW S, S \subseteq Nat, S # {}
    PROVE  FirstOf(S) \in S /\ \A j \in S : FirstOf(S) <= j
<1> DEFINE R == OpToRel(<, Nat)
<1>1. IsWellFoundedOn(R, Nat)
  BY NatLessThanWellFounded
<1>2. \A i, j \in Nat : i < j => <<i, j>> \in R
  BY Zenon DEF OpToRel
<1> HIDE DEF R
<1>3. PICK i \in S : \A j \in S : ~(<<j, i>> \in R)
  BY <1>1, WFMin
<1>4. ASSUME NEW j \in S PROVE i <= j
  <2>1. i \in Nat /\ j \in Nat
    OBVIOUS
  <2>2. ~(j < i)
    BY <1>2, <1>3, <2>1, Zenon
  <2> QED BY <2>1, <2>2
<1> QED BY <1>4 DEF FirstOf

\* The value of a catch clause.
LEMMA CaughtValue ==
    ASSUME NEW c \in Ends, c.ends # "returns"
    PROVE  /\ Caught(c) \in Int
           /\ c.ends = "status" => Caught(c) = c.value
           /\ c.ends = "exception" => Caught(c) = 500
           /\ ~ValidStatus(Caught(c)) => ThrewNoStatus(c)
           /\ Caught(c) = 0 => c = Throws(0)
           /\ Caught(c) = 404 => c = Throws(404)
           /\ c = Throws(0) => Caught(c) = 0
  BY DEF Ends, Caught, ValidStatus, ThrewNoStatus, Throws

-----------------------------------------------------------------------------
(* One request, on any server. *)

\* An outcome has the fields of NoOutcome, whatever was assigned to them.
IsOutcome(o) == DOMAIN o = DOMAIN NoOutcome

\* An outcome with which nothing was sent yet: that of a callback that threw, too.
Unsent(o) == IsOutcome(o) /\ o.sends = 0 /\ o.escaped = FALSE /\ o.errors = 0 /\ o.file = FALSE

\* A route takes the request, and is called.
Taken(a, r) == a.http_dynamic /\ Matching(a, r) # {}

FirstCalled(o, a, r) ==
    LET first == FirstOf(Matching(a, r))
    IN  o.route = first /\ o.entry = Entry(a.http_routes[first], r.method)

\* What serve_dynamic has done: it called the first route that takes the request if
\* there is one, and it sent a response, or counts as if it had, or failed.
FromDynamic(d, a, r, c) ==
    /\ IF Taken(a, r) THEN FirstCalled(d.outcome, a, r)
       ELSE d.outcome = NoOutcome /\ d.code = 404
    /\ \/ /\ d.code = 0 /\ c.ends = "returns" /\ IsOutcome(d.outcome) /\ Taken(a, r)
          /\ d.outcome.sends = 1 /\ d.outcome.escaped = FALSE /\ d.outcome.file = FALSE
       \/ /\ Unsent(d.outcome)
          /\ ~ValidStatus(d.code) => ThrewNoStatus(c)
          /\ Taken(a, r) /\ d.code = 404 => c = Throws(404)
          /\ Taken(a, r) /\ c.ends = "status" => d.code = c.value
          /\ d.code = 0 <=> Taken(a, r) /\ c = Throws(0)

\* What serve_static has done: it sent a file, or nothing.
FromStatic(s, o) ==
    \/ /\ s.code = 0
       /\ s.outcome.sends = 1 /\ s.outcome.escaped = FALSE /\ s.outcome.errors = 0
       /\ s.outcome.route = o.route /\ s.outcome.entry = o.entry
       /\ s.outcome.file = TRUE
    \/ s.code = 404 /\ s.outcome = o

\* The response, if there is one, answers with the status v, of which on_http_error, if
\* set, was told.
AnswersWith(x, a, v, e) ==
    /\ x.errors = IF a.on_http_error THEN 1 ELSE 0
    /\ ~a.on_http_error \/ e.ends = "returns" => x.status = v
    /\ x.file = FALSE

\* What serve_error has done: it sent one response unless err is no status, or what
\* on_http_error threw is none.
FromError(x, a, o, err, e) ==
    /\ x.route = o.route /\ x.entry = o.entry /\ x.file = FALSE
    /\ ValidStatus(err) => AnswersWith(x, a, err, e)
    /\ \/ x.escaped = FALSE /\ x.sends = 1
       \/ x.escaped = TRUE /\ x.sends = 0 /\ (~ValidStatus(err) \/ ThrewNoStatus(e))

\* A request begins with nothing sent.
LEMMA NoOutcomeUnsent == Unsent(NoOutcome) /\ NoOutcome.route = 0 /\ NoOutcome.entry = "none"
  BY DEF Unsent, IsOutcome, NoOutcome

\* What serve_dynamic returns: the status of the first route that takes the request.
LEMMA ServeDynamicResult ==
    ASSUME NEW a, NEW r, NEW c \in Ends
    PROVE  FromDynamic(ServeDynamic(a, r, c), a, r, c)
<1> SUFFICES ASSUME NEW d, d = ServeDynamic(a, r, c) PROVE FromDynamic(d, a, r, c)
  OBVIOUS
<1> DEFINE first == FirstOf(Matching(a, r))
           entry == Entry(a.http_routes[first], r.method)
           called == [NoOutcome EXCEPT !.route = first, !.entry = entry]
           done == [called EXCEPT !.sends = 1, !.status = 200]
<1>1. /\ Unsent(called) /\ called.route = first /\ called.entry = entry
      /\ IsOutcome(done) /\ done.sends = 1 /\ done.escaped = FALSE /\ done.file = FALSE
      /\ done.route = first /\ done.entry = entry
  <2> HIDE DEF first, entry
  <2> QED BY DEF Unsent, IsOutcome, NoOutcome
<1>2. CASE ~Taken(a, r)
  <2>1. d = [code |-> 404, outcome |-> NoOutcome]
    BY <1>2 DEF ServeDynamic, Taken
  <2> QED BY <1>2, <2>1, NoOutcomeUnsent DEF ValidStatus, FromDynamic
<1>3. CASE Taken(a, r) /\ c.ends = "returns"
  <2>1. d = [code |-> 0, outcome |-> done]
    BY <1>3 DEF ServeDynamic, Taken
  <2>2. FirstCalled(done, a, r)
    BY <1>1 DEF FirstCalled
  <2> HIDE DEF done
  <2> QED BY <1>1, <1>3, <2>1, <2>2 DEF FromDynamic
<1>4. CASE Taken(a, r) /\ c.ends # "returns"
  <2>1. d = [code |-> Caught(c), outcome |-> called]
    BY <1>4 DEF ServeDynamic, Taken
  <2>2. FirstCalled(called, a, r)
    BY <1>1 DEF FirstCalled
  <2> HIDE DEF called
  <2> QED BY <1>1, <1>4, <2>1, <2>2, CaughtValue DEF FromDynamic
<1> QED BY <1>2, <1>3, <1>4

\* What serve_static returns: the file is sent, or it is not there.
LEMMA ServeStaticResult ==
    ASSUME NEW a, NEW r, NEW o, Unsent(o)
    PROVE  FromStatic(ServeStatic(a, r, o), o)
<1> DEFINE sent == [o EXCEPT !.sends = @ + 1, !.status = 200, !.file = TRUE]
<1>1. /\ sent.sends = 1 /\ sent.escaped = FALSE /\ sent.errors = 0
      /\ sent.route = o.route /\ sent.entry = o.entry /\ sent.file = TRUE
  BY DEF Unsent, IsOutcome, NoOutcome
<1>2. \/ ServeStatic(a, r, o) = [code |-> 0, outcome |-> sent]
      \/ ServeStatic(a, r, o) = [code |-> 404, outcome |-> o]
  BY DEF ServeStatic
<1> HIDE DEF sent
<1> QED BY <1>1, <1>2 DEF FromStatic

\* What serve_error returns: one answer, or an exception for a status that is none.
LEMMA ServeErrorResult ==
    ASSUME NEW a, NEW err, NEW e \in Ends, NEW o, Unsent(o)
    PROVE  FromError(ServeError(a, err, e, o), a, o, err, e)
<1> DEFINE offered  == IF a.on_http_error THEN 1 ELSE 0
           status == IF a.on_http_error /\ e.ends # "returns" THEN Caught(e) ELSE err
<1> SUFFICES ASSUME NEW x, x = ServeError(a, err, e, o) PROVE FromError(x, a, o, err, e)
  OBVIOUS
<1>1. CASE ~ValidStatus(err)
  <2>1. x = [o EXCEPT !.escaped = TRUE]
    BY <1>1 DEF ServeError
  <2>2. /\ x.route = o.route /\ x.entry = o.entry /\ x.file = FALSE
        /\ x.escaped = TRUE /\ x.sends = 0
    BY <2>1 DEF Unsent, IsOutcome, NoOutcome
  <2> QED BY <1>1, <2>2 DEF FromError
<1>2. CASE ValidStatus(err) /\ ~ValidStatus(status)
  <2>1. x = [o EXCEPT !.escaped = TRUE, !.errors = offered]
    BY <1>2 DEF ServeError
  <2>2. ThrewNoStatus(e)
    BY <1>2, CaughtValue
  <2>3. a.on_http_error /\ e.ends # "returns"
    BY <1>2
  <2>4. offered = 1
    BY <2>3
  <2> HIDE DEF offered
  <2>5. /\ x.route = o.route /\ x.entry = o.entry /\ x.file = FALSE
        /\ x.escaped = TRUE /\ x.sends = 0 /\ x.errors = offered
    BY <2>1 DEF Unsent, IsOutcome, NoOutcome
  <2> QED BY <2>2, <2>3, <2>4, <2>5 DEF FromError, AnswersWith
<1>3. CASE ValidStatus(err) /\ ValidStatus(status)
  <2>1. x = [o EXCEPT !.sends = @ + 1, !.status = status, !.errors = offered]
    BY <1>3 DEF ServeError
  <2>2. /\ offered = IF a.on_http_error THEN 1 ELSE 0
        /\ ~a.on_http_error \/ e.ends = "returns" => status = err
    OBVIOUS
  <2> HIDE DEF offered, status
  <2>3. /\ x.route = o.route /\ x.entry = o.entry /\ x.file = FALSE
        /\ x.escaped = FALSE /\ x.sends = 1 /\ x.errors = offered /\ x.status = status
    BY <2>1 DEF Unsent, IsOutcome, NoOutcome
  <2> QED BY <2>2, <2>3 DEF FromError, AnswersWith
<1> QED BY <1>1, <1>2, <1>3

\* The routes that take a request are positions of the table, of which there is a first.
LEMMA MatchingPositions ==
    ASSUME NEW a, NEW r, Len(a.http_routes) \in Nat, Matching(a, r) # {}
    PROVE  /\ FirstOf(Matching(a, r)) \in Matching(a, r)
           /\ \A j \in Matching(a, r) : FirstOf(Matching(a, r)) <= j
           /\ Matching(a, r) \subseteq 1..Len(a.http_routes)
<1>1. Matching(a, r) \subseteq 1..Len(a.http_routes)
  BY DEF Matching
<1>2. Matching(a, r) \subseteq Nat
  BY <1>1
<1> QED BY <1>1, <1>2, FirstOfIsLeast

\* The callback threw a status that a response can have and that is not taken for "look
\* for a file".
ThrewOther(c) == c.ends = "status" /\ c.value \in (1..999) \ {404}

\* Such a status is one, and no other end of a callback counts as it.
LEMMA OtherStatus ==
    ASSUME NEW c, ThrewOther(c)
    PROVE  /\ c.ends = "status" /\ ValidStatus(c.value)
           /\ c.value # 0 /\ c.value # 404
<1>1. PICK v \in 1..999 : v = c.value /\ v # 404 /\ c.ends = "status"
  BY DEF ThrewOther
<1> QED BY <1>1 DEF ValidStatus

\* One response is sent, but none if an exception escapes or a route's callback
\* throws 0; only what is no status escapes; a status that the callback throws is answered
\* with unless it is 404; and the route that is called is the first that takes the request.
HandledWell(o, a, r, c, e) ==
    /\ o.escaped \in BOOLEAN
    /\ IF o.escaped = TRUE \/ (o.route # 0 /\ c = Throws(0)) THEN o.sends = 0 ELSE o.sends = 1
    /\ o.escaped = TRUE => ThrewNoStatus(c) \/ ThrewNoStatus(e)
    /\ o.route # 0 /\ ThrewOther(c) => AnswersWith(o, a, c.value, e)
    /\ r.wellformed => IF Taken(a, r) THEN FirstCalled(o, a, r) ELSE o.route = 0

\* handle_request, whatever the server, the request and the ends of the callbacks.
THEOREM RequestHandled ==
    ASSUME NEW a, Len(a.http_routes) \in Nat, NEW r, NEW c \in Ends, NEW e \in Ends
    PROVE  HandledWell(HandleRequest(a, r, c, e), a, r, c, e)
<1> SUFFICES ASSUME NEW o, o = HandleRequest(a, r, c, e) PROVE HandledWell(o, a, r, c, e)
  OBVIOUS
<1>1. PICK d : d = ServeDynamic(a, r, c)
  OBVIOUS
<1>2. PICK s : s = ServeStatic(a, r, d.outcome)
  OBVIOUS
<1>3. /\ ~r.wellformed => o = ServeError(a, 404, e, NoOutcome)
      /\ r.wellformed /\ d.code = 0 => o = d.outcome
      /\ r.wellformed /\ d.code # 0 /\ d.code # 404 => o = ServeError(a, d.code, e, d.outcome)
      /\ r.wellformed /\ d.code = 404 /\ s.code = 0 => o = s.outcome
      /\ r.wellformed /\ d.code = 404 /\ s.code # 0 =>
            o = ServeError(a, s.code, e, s.outcome)
  BY <1>1, <1>2 DEF HandleRequest
<1>4. FromDynamic(d, a, r, c)
  BY <1>1, ServeDynamicResult
<1>5. Taken(a, r) => FirstOf(Matching(a, r)) # 0
  BY MatchingPositions DEF Taken
<1>6. ValidStatus(404) /\ Throws(404) # Throws(0) /\ (c.ends = "returns" => c # Throws(0))
  BY DEF ValidStatus, Throws
<1>11. /\ c.ends = "returns" \/ c = Throws(0) \/ c = Throws(404) => ~ThrewOther(c)
       /\ ThrewOther(c) => c.ends = "status" /\ ValidStatus(c.value)
  BY OtherStatus DEF Throws
<1>7. CASE ~r.wellformed
  <2>1. FromError(o, a, NoOutcome, 404, e)
    BY <1>3, <1>7, ServeErrorResult, NoOutcomeUnsent
  <2> QED BY <1>6, <1>7, <2>1, NoOutcomeUnsent DEF FromError, HandledWell
<1>8. CASE r.wellformed /\ d.code = 0
  <2>1. o = d.outcome /\ Taken(a, r)
    BY <1>3, <1>4, <1>8 DEF FromDynamic
  <2>2. FirstCalled(o, a, r) /\ o.route # 0
    BY <1>4, <1>5, <2>1 DEF FromDynamic, FirstCalled
  <2>3. o.escaped = FALSE /\ o.file = FALSE /\ IF c = Throws(0) THEN o.sends = 0 ELSE o.sends = 1
    <3>1. CASE c = Throws(0)
      <4>1. Unsent(o)
        BY <1>4, <1>6, <2>1, <3>1 DEF FromDynamic
      <4> QED BY <3>1, <4>1 DEF Unsent
    <3>2. CASE c # Throws(0)
      BY <1>4, <1>8, <2>1, <3>2 DEF FromDynamic
    <3> QED BY <3>1, <3>2
  <2>4. ~ThrewOther(c)
    BY <1>4, <1>8, <1>11, <2>1 DEF FromDynamic
  <2> QED BY <1>8, <2>1, <2>2, <2>3, <2>4 DEF HandledWell
<1>9. CASE r.wellformed /\ d.code # 0 /\ d.code # 404
  <2>1. Unsent(d.outcome) /\ Taken(a, r) /\ FirstCalled(d.outcome, a, r) /\ c # Throws(0)
        /\ (~ValidStatus(d.code) => ThrewNoStatus(c))
        /\ (c.ends = "status" => d.code = c.value)
    BY <1>4, <1>9 DEF FromDynamic
  <2>2. FromError(o, a, d.outcome, d.code, e)
    BY <1>3, <1>9, <2>1, ServeErrorResult
  <2>3. ThrewOther(c) => AnswersWith(o, a, c.value, e)
    BY <1>11, <2>1, <2>2 DEF FromError
  <2>4. FirstCalled(o, a, r) /\ o.escaped \in BOOLEAN
    BY <2>1, <2>2 DEF FromError, FirstCalled
  <2>5. IF o.escaped = TRUE THEN o.sends = 0 /\ (ThrewNoStatus(c) \/ ThrewNoStatus(e))
        ELSE o.sends = 1
    BY <2>1, <2>2 DEF FromError
  <2> QED BY <1>9, <2>1, <2>3, <2>4, <2>5 DEF HandledWell
<1>10. CASE r.wellformed /\ d.code = 404
  <2>1. /\ Unsent(d.outcome) /\ ~(Taken(a, r) /\ c = Throws(0))
        /\ Taken(a, r) => c = Throws(404)
        /\ IF Taken(a, r) THEN FirstCalled(d.outcome, a, r) ELSE d.outcome.route = 0
    BY <1>4, <1>10, NoOutcomeUnsent DEF FromDynamic
  <2>2. FromStatic(s, d.outcome)
    BY <1>2, <2>1, ServeStaticResult
  <2>3. CASE s.code = 0
    <3>1. /\ o.sends = 1 /\ o.escaped = FALSE /\ o.errors = 0
          /\ o.route = d.outcome.route /\ o.entry = d.outcome.entry
      <4>1. o = s.outcome
        BY <1>3, <1>10, <2>3
      <4> QED BY <2>2, <2>3, <4>1 DEF FromStatic
    <3>2. IF Taken(a, r) THEN FirstCalled(o, a, r) ELSE o.route = 0
      BY <2>1, <3>1 DEF FirstCalled
    <3>3. o.route # 0 => c = Throws(404)
      BY <2>1, <3>2
    <3>4. ~(o.escaped = TRUE) /\ ~(o.route # 0 /\ c = Throws(0))
      BY <1>6, <3>1, <3>3
    <3>5. o.escaped \in BOOLEAN
      BY <3>1
    <3>6. o.route # 0 => ~ThrewOther(c)
      BY <1>11, <3>3
    <3> QED BY <1>10, <3>1, <3>2, <3>4, <3>5, <3>6, Zenon DEF HandledWell
  <2>4. CASE s.code # 0
    <3>1. s.code = 404 /\ s.outcome = d.outcome
      BY <2>2, <2>4 DEF FromStatic
    <3>2. FromError(o, a, d.outcome, 404, e)
      BY <1>3, <1>10, <2>1, <3>1, ServeErrorResult
    <3>3. o.route # 0 => ~ThrewOther(c)
      BY <1>11, <2>1, <3>2 DEF FromError
    <3> QED BY <1>6, <1>10, <2>1, <3>2, <3>3 DEF FromError, HandledWell, FirstCalled
  <2> QED BY <2>3, <2>4
<1> QED BY <1>7, <1>8, <1>9, <1>10
-----------------------------------------------------------------------------
(* The table of routes. *)

\* No element of a sequence stands in two places.
Distinct(s) == \A i, j \in 1..Len(s) : i < j => s[i] # s[j]

\* What RemoveFirst leaves: everything but one place, in the same order.
LEMMA RemoveFirstResult ==
    ASSUME NEW S, NEW s \in Seq(S), NEW k \in ToSet(s)
    PROVE  \E p \in 1..Len(s) :
               /\ s[p] = k
               /\ RemoveFirst(s, k) \in Seq(S)
               /\ Len(RemoveFirst(s, k)) = Len(s) - 1
               /\ \A i \in 1..(Len(s) - 1) :
                      RemoveFirst(s, k)[i] = IF i < p THEN s[i] ELSE s[i + 1]
<1> DEFINE I == {i \in 1..Len(s) : s[i] = k}
           p == FirstOf(I)
           front == SubSeq(s, 1, p - 1)
           back == SubSeq(s, p + 1, Len(s))
<1>1. Len(s) \in Nat /\ DOMAIN s = 1..Len(s)
  BY LenProperties
<1>2. I # {} /\ I \subseteq Nat
  BY <1>1 DEF ToSet
<1>3. p \in I
  BY <1>2, FirstOfIsLeast
<1>4. SelectInSeq(s, LAMBDA v : v = k) = p
  BY <1>2 DEF SelectInSeq, Min, FirstOf
<1>5. RemoveFirst(s, k) = front \o back
  BY <1>2, <1>4 DEF RemoveFirst, RemoveAt
<1> HIDE DEF p
<1>6. p \in 1..Len(s) /\ s[p] = k
  BY <1>3
<1>7. /\ front \in Seq(S) /\ Len(front) = p - 1
      /\ \A i \in 1..(p - 1) : front[i] = s[i]
  <2>1. \A i \in 1..(p - 1) : s[1 + i - 1] = s[i]
    BY <1>1, <1>6
  <2>2. \A i \in 1..(p - 1) : i \in 1..(p - 1 - 1 + 1)
    BY <1>1, <1>6
  <2>3. 1 \in 1..(Len(s) + 1) /\ p - 1 \in (1 - 1)..Len(s)
    BY <1>1, <1>6
  <2>4. /\ front \in Seq(S)
        /\ Len(front) = IF 1 <= p - 1 THEN p - 1 - 1 + 1 ELSE 0
        /\ \A i \in 1..(p - 1 - 1 + 1) : front[i] = s[1 + i - 1]
    BY <2>3, SubSeqProperties
  <2> HIDE DEF front
  <2>5. Len(front) = p - 1
    BY <1>1, <1>6, <2>4
  <2> QED
    BY <2>1, <2>2, <2>4, <2>5
<1>8. /\ back \in Seq(S) /\ Len(back) = Len(s) - p
      /\ \A i \in 1..(Len(s) - p) : back[i] = s[p + i]
  <2>1. \A i \in 1..(Len(s) - p) : p + 1 + i - 1 = p + i /\ i \in 1..(Len(s) - (p + 1) + 1)
    BY <1>1, <1>6
  <2>2. /\ p + 1 \in Int /\ Len(s) \in Int
        /\ \A i \in (p + 1)..Len(s) : s[i] \in S
    BY <1>1, <1>6, ElementOfSeq
  <2>3. /\ back \in Seq(S)
        /\ Len(back) = IF p + 1 <= Len(s) THEN Len(s) - (p + 1) + 1 ELSE 0
        /\ \A i \in 1..(Len(s) - (p + 1) + 1) : back[i] = s[p + 1 + i - 1]
    BY <2>2, SubSeqProperties
  <2> HIDE DEF back
  <2>4. Len(back) = Len(s) - p
    <3>1. Len(back) = IF p + 1 <= Len(s) THEN Len(s) - (p + 1) + 1 ELSE 0
      BY <2>3
    <3>2. p \in Nat /\ p <= Len(s) /\ Len(s) \in Nat
      BY <1>1, <1>6
    <3> QED BY <3>1, <3>2
  <2> QED
    BY <2>1, <2>3, <2>4
<1> HIDE DEF front, back
<1>9. /\ front \o back \in Seq(S) /\ Len(front \o back) = Len(front) + Len(back)
      /\ \A i \in 1..(Len(front) + Len(back)) :
             (front \o back)[i] = IF i <= Len(front) THEN front[i] ELSE back[i - Len(front)]
  BY <1>7, <1>8, ConcatProperties
<1>10. ASSUME NEW i \in 1..(Len(s) - 1)
       PROVE  (front \o back)[i] = IF i < p THEN s[i] ELSE s[i + 1]
  <2>1. (front \o back)[i] = IF i <= Len(front) THEN front[i] ELSE back[i - Len(front)]
    BY <1>1, <1>6, <1>7, <1>8, <1>9
  <2>2. CASE i < p
    BY <1>1, <1>6, <1>7, <2>1, <2>2
  <2>3. CASE ~(i < p)
    <3>1. i - Len(front) \in 1..(Len(s) - p) /\ p + (i - Len(front)) = i + 1
      BY <1>1, <1>6, <1>7, <2>3
    <3> QED BY <1>1, <1>6, <1>7, <1>8, <2>1, <2>3, <3>1
  <2> QED BY <2>2, <2>3
<1>11. Len(front \o back) = Len(s) - 1
  BY <1>1, <1>6, <1>7, <1>8, <1>9
<1> QED BY <1>5, <1>6, <1>9, <1>10, <1>11

CallRecord == [op : {"on_http", "erase", "clear"}, route : Patterns, methods : SUBSET Methods]

\* Call i of the history still stands, see TableAsGiven; the calls that gave route k.
StandsIn(cs, i) ==
    /\ cs[i].op = "on_http" /\ cs[i].methods # {}
    /\ \A j \in i..Len(cs) : /\ cs[j].op # "clear"
                             /\ cs[j].op = "erase" => cs[j].route # cs[i].route

GivenIn(cs, k) == {i \in 1..Len(cs) : StandsIn(cs, i) /\ cs[i].route = k}

\* What one more call does to the calls that gave a route.
GivenAfter(cs, c, k) ==
    (IF c.op = "clear" \/ (c.op = "erase" /\ c.route = k) THEN {} ELSE GivenIn(cs, k))
    \cup (IF c.op = "on_http" /\ c.methods # {} /\ c.route = k THEN {Len(cs) + 1} ELSE {})

\* Whether a route was given, told from the calls before the last and the last.
LEMMA GivenIsGivenAfter ==
    ASSUME NEW cs \in Seq(CallRecord), NEW c \in CallRecord, NEW k
    PROVE  GivenIn(Append(cs, c), k) = GivenAfter(cs, c, k)
<1> DEFINE more == Append(cs, c)
           n == Len(cs)
<1>1. n \in Nat /\ Len(more) = n + 1 /\ more[n + 1] = c /\ \A i \in 1..n : more[i] = cs[i]
  BY LenProperties, AppendProperties
<1> HIDE DEF more, n
<1>2. ASSUME NEW i \in 1..n
      PROVE  StandsIn(more, i) <=>
                 StandsIn(cs, i) /\ c.op # "clear" /\ (c.op = "erase" => c.route # cs[i].route)
  <2>1. /\ more[i] = cs[i] /\ i..Len(more) = (i..n) \cup {n + 1}
        /\ \A j \in i..n : more[j] = cs[j]
    BY <1>1
  <2>2. StandsIn(cs, i) <=>
            /\ cs[i].op = "on_http" /\ cs[i].methods # {}
            /\ \A j \in i..n : /\ cs[j].op # "clear"
                               /\ cs[j].op = "erase" => cs[j].route # cs[i].route
    BY DEF StandsIn, n
  <2>3. StandsIn(more, i) <=>
            /\ cs[i].op = "on_http" /\ cs[i].methods # {}
            /\ \A j \in (i..n) \cup {n + 1} :
                   /\ more[j].op # "clear"
                   /\ more[j].op = "erase" => more[j].route # cs[i].route
    BY <2>1 DEF StandsIn
  <2> QED BY <1>1, <2>1, <2>2, <2>3
<1>3. StandsIn(more, n + 1) <=> c.op = "on_http" /\ c.methods # {}
  <2>1. (n + 1)..Len(more) = {n + 1}
    BY <1>1
  <2> QED BY <1>1, <2>1 DEF StandsIn
<1>4. ASSUME NEW i
      PROVE  i \in GivenIn(more, k) <=>
                 \/ i \in GivenIn(cs, k) /\ c.op # "clear" /\ (c.op = "erase" => c.route # k)
                 \/ i = n + 1 /\ c.op = "on_http" /\ c.methods # {} /\ c.route = k
  <2>1. i \in 1..Len(more) <=> i \in 1..n \/ i = n + 1
    BY <1>1
  <2>2. n + 1 \notin 1..n
    BY <1>1
  <2>3. i \in GivenIn(cs, k) <=> i \in 1..n /\ StandsIn(cs, i) /\ cs[i].route = k
    BY DEF GivenIn, n
  <2>4. i \in GivenIn(more, k) <=> i \in 1..Len(more) /\ StandsIn(more, i) /\ more[i].route = k
    BY DEF GivenIn
  <2> QED BY <1>1, <1>2, <1>3, <2>1, <2>2, <2>3, <2>4
<1>5. ASSUME NEW i
      PROVE  i \in GivenAfter(cs, c, k) <=>
                 \/ i \in GivenIn(cs, k) /\ c.op # "clear" /\ (c.op = "erase" => c.route # k)
                 \/ i = n + 1 /\ c.op = "on_http" /\ c.methods # {} /\ c.route = k
  BY Zenon DEF GivenAfter, n
<1> QED BY <1>4, <1>5 DEF more

\* The callbacks of a route, of TableAsGiven.
MethodsAsGiven(f, cs, k) ==
    /\ DOMAIN f = UNION {cs[i].methods : i \in GivenIn(cs, k)}
    /\ \A m \in DOMAIN f :
           /\ f[m] \in GivenIn(cs, k) /\ m \in cs[f[m]].methods
           /\ \A i \in GivenIn(cs, k) : m \in cs[i].methods => i <= f[m]

\* TableAsGiven, of any table and any history.
AsGiven(t, cs) ==
    /\ ToSet(t.it) = {k \in Patterns : GivenIn(cs, k) # {}}
    /\ \A a, b \in 1..Len(t.it) :
           a < b => \E i \in GivenIn(cs, t.it[a]) : \A j \in GivenIn(cs, t.it[b]) : i < j
    /\ \A k \in Patterns : GivenIn(cs, k) # {} => MethodsAsGiven(t.map[k], cs, k)

\* A table is a map and a sequence of the keys of the map.
IsTable(t) ==
    t = [map |-> t.map, it |-> t.it] /\ t.it \in Seq(Patterns) /\ DOMAIN t.map = ToSet(t.it)

\* What the lemmas below know of the history after one more call.
LEMMA OneMoreCall ==
    ASSUME NEW cs \in Seq(CallRecord), NEW c \in CallRecord
    PROVE  /\ Append(cs, c) \in Seq(CallRecord)
           /\ Len(cs) \in Nat /\ Len(Append(cs, c)) = Len(cs) + 1
           /\ Append(cs, c)[Len(cs) + 1] = c
           /\ \A i \in 1..Len(cs) : Append(cs, c)[i] = cs[i]
           /\ \A k : GivenIn(cs, k) \subseteq 1..Len(cs)
           /\ \A k : GivenIn(Append(cs, c), k) = GivenAfter(cs, c, k)
<1>1. \A k : GivenIn(cs, k) \subseteq 1..Len(cs)
  BY DEF GivenIn
<1>2. \A k : GivenIn(Append(cs, c), k) = GivenAfter(cs, c, k)
  BY GivenIsGivenAfter
<1> QED BY <1>1, <1>2, LenProperties, AppendProperties

\* A table in which the routes are as given has each of them once.
LEMMA DistinctRoutes ==
    ASSUME NEW t, NEW cs \in Seq(CallRecord), AsGiven(t, cs)
    PROVE  Distinct(t.it)
<1> SUFFICES ASSUME NEW i \in 1..Len(t.it), NEW j \in 1..Len(t.it), i < j, t.it[i] = t.it[j]
             PROVE  FALSE
  BY DEF Distinct
<1>1. PICK x \in GivenIn(cs, t.it[i]) : \A y \in GivenIn(cs, t.it[j]) : x < y
  BY DEF AsGiven
<1>2. x < x
  BY <1>1
<1>3. x \in Nat
  BY LenProperties DEF GivenIn
<1> QED BY <1>2, <1>3

\* A call that gives no callback for a route leaves those it has.
LEMMA MethodsKept ==
    ASSUME NEW cs \in Seq(CallRecord), NEW c \in CallRecord, NEW k, NEW f,
           GivenIn(Append(cs, c), k) = GivenIn(cs, k), MethodsAsGiven(f, cs, k)
    PROVE  MethodsAsGiven(f, Append(cs, c), k)
<1> DEFINE more == Append(cs, c)
<1>1. GivenIn(more, k) = GivenIn(cs, k) /\ \A i \in GivenIn(cs, k) : more[i] = cs[i]
  BY OneMoreCall
<1> HIDE DEF more
<1>2. {more[i].methods : i \in GivenIn(cs, k)} = {cs[i].methods : i \in GivenIn(cs, k)}
  BY <1>1
<1>3. MethodsAsGiven(f, more, k)
  BY <1>1, <1>2 DEF MethodsAsGiven
<1> QED BY <1>3 DEF more

\* A call that changes neither what was given nor the table.
LEMMA SameTable ==
    ASSUME NEW t, NEW cs \in Seq(CallRecord), NEW c \in CallRecord, IsTable(t), AsGiven(t, cs),
           \A k \in Patterns : GivenAfter(cs, c, k) = GivenIn(cs, k)
    PROVE  AsGiven(t, Append(cs, c))
<1> DEFINE more == Append(cs, c)
<1>1. /\ \A k \in Patterns : GivenIn(more, k) = GivenIn(cs, k)
      /\ \A i \in 1..Len(cs) : more[i] = cs[i]
      /\ \A k : GivenIn(cs, k) \subseteq 1..Len(cs)
  BY OneMoreCall
<1> HIDE DEF more
<1>2. \A i \in 1..Len(t.it) : t.it[i] \in Patterns
  BY ElementOfSeq DEF IsTable
<1>3. ToSet(t.it) = {k \in Patterns : GivenIn(more, k) # {}}
  BY <1>1 DEF AsGiven
<1>4. ASSUME NEW a \in 1..Len(t.it), NEW b \in 1..Len(t.it), a < b
      PROVE  \E i \in GivenIn(more, t.it[a]) : \A j \in GivenIn(more, t.it[b]) : i < j
  BY <1>1, <1>2, <1>4 DEF AsGiven
<1>5. ASSUME NEW k \in Patterns, GivenIn(more, k) # {}
      PROVE  MethodsAsGiven(t.map[k], more, k)
  BY <1>1, <1>5, MethodsKept DEF AsGiven, more
<1> QED BY <1>3, <1>4, <1>5 DEF AsGiven, more

\* A call that leaves no route: clear.
LEMMA ClearedTable ==
    ASSUME NEW cs \in Seq(CallRecord), NEW c \in CallRecord, c.op = "clear"
    PROVE  IsTable(EmptyMap) /\ AsGiven(EmptyMap, Append(cs, c))
<1>1. EmptyMap.it = <<>> /\ DOMAIN EmptyMap.map = {} /\ ToSet(EmptyMap.it) = {}
      /\ EmptyMap.it \in Seq(Patterns) /\ Len(EmptyMap.it) = 0
      /\ EmptyMap = [map |-> EmptyMap.map, it |-> EmptyMap.it]
  BY EmptySeq DEF EmptyMap, ToSet
<1>2. \A k : GivenIn(Append(cs, c), k) = {}
  BY OneMoreCall DEF GivenAfter
<1> QED BY <1>1, <1>2 DEF IsTable, AsGiven

\* erase.
LEMMA ErasedTable ==
    ASSUME NEW t, NEW cs \in Seq(CallRecord), NEW c \in CallRecord, IsTable(t), AsGiven(t, cs),
           c.op = "erase"
    PROVE  IsTable(Erase(t, c.route)) /\ AsGiven(Erase(t, c.route), Append(cs, c))
<1> DEFINE more == Append(cs, c)
           k == c.route
           u == Erase(t, k)
<1>1. /\ \A i \in 1..Len(cs) : more[i] = cs[i]
      /\ \A j : GivenIn(more, j) = IF j = k THEN {} ELSE GivenIn(cs, j)
  <2>1. ASSUME NEW j PROVE GivenAfter(cs, c, j) = IF j = k THEN {} ELSE GivenIn(cs, j)
    <3>1. c.op # "clear" /\ c.op # "on_http"
      OBVIOUS
    <3> QED BY <3>1 DEF GivenAfter
  <2> QED BY <2>1, OneMoreCall
<1>2. /\ t.it \in Seq(Patterns) /\ DOMAIN t.map = ToSet(t.it) /\ t = [map |-> t.map, it |-> t.it]
      /\ Len(t.it) \in Nat /\ DOMAIN t.it = 1..Len(t.it)
      /\ \A i \in 1..Len(t.it) : t.it[i] \in Patterns /\ t.it[i] \in ToSet(t.it)
      /\ ToSet(t.it) = {j \in Patterns : GivenIn(cs, j) # {}}
  BY LenProperties, ElementOfSeq DEF IsTable, AsGiven, ToSet
<1>3. k \in Patterns
  BY DEF CallRecord
<1>4. CASE ~Has(t, k)
  <2>1. u = t
    BY <1>4 DEF Erase
  <2>2. GivenIn(cs, k) = {}
    BY <1>2, <1>3, <1>4 DEF Has
  <2>3. \A j \in Patterns : GivenAfter(cs, c, j) = GivenIn(cs, j)
    <3>1. \A j : GivenIn(more, j) = GivenAfter(cs, c, j)
      BY OneMoreCall
    <3> QED BY <1>1, <2>2, <3>1
  <2> QED BY <2>1, <2>3, SameTable
<1>5. CASE Has(t, k)
  <2>1. /\ u.map = [j \in DOMAIN t.map \ {k} |-> t.map[j]] /\ u.it = RemoveFirst(t.it, k)
        /\ u = [map |-> u.map, it |-> u.it]
    BY <1>5 DEF Erase
  <2>2. k \in ToSet(t.it)
    BY <1>2, <1>5 DEF Has
  <2> HIDE DEF u, more, k
  <2>3. PICK p \in 1..Len(t.it) :
            /\ t.it[p] = k
            /\ u.it \in Seq(Patterns) /\ Len(u.it) = Len(t.it) - 1
            /\ \A i \in 1..(Len(t.it) - 1) : u.it[i] = IF i < p THEN t.it[i] ELSE t.it[i + 1]
    <3>1. PICK s, x : s = t.it /\ x = k
      OBVIOUS
    <3>2. s \in Seq(Patterns) /\ x \in ToSet(s)
      BY <1>2, <2>2, <3>1
    <3>3. PICK p \in 1..Len(s) :
              /\ s[p] = x
              /\ RemoveFirst(s, x) \in Seq(Patterns) /\ Len(RemoveFirst(s, x)) = Len(s) - 1
              /\ \A i \in 1..(Len(s) - 1) :
                     RemoveFirst(s, x)[i] = IF i < p THEN s[i] ELSE s[i + 1]
      BY <3>2, RemoveFirstResult
    <3>4. u.it = RemoveFirst(s, x)
      BY <2>1, <3>1
    <3> QED BY <3>1, <3>3, <3>4
  <2>4. \A i \in 1..Len(t.it) : i # p => t.it[i] # k
    <3>1. \A i, j \in 1..Len(t.it) : i < j => t.it[i] # t.it[j]
      BY DistinctRoutes DEF Distinct
    <3>2. \A i \in 1..Len(t.it) : i < p \/ i = p \/ p < i
      BY <1>2
    <3> QED BY <2>3, <3>1, <3>2
  <2> DEFINE Was(i) == IF i < p THEN i ELSE i + 1
  <2>5. ASSUME NEW i \in 1..Len(u.it)
        PROVE  /\ Was(i) \in 1..Len(t.it) /\ u.it[i] = t.it[Was(i)] /\ u.it[i] # k
               /\ u.it[i] \in Patterns
    <3>1. Was(i) \in 1..Len(t.it) /\ Was(i) # p
      BY <1>2, <2>3
    <3>2. u.it[i] = t.it[Was(i)]
      BY <2>3
    <3> QED BY <1>2, <2>4, <3>1, <3>2
  <2>6. ASSUME NEW i \in 1..Len(t.it), i # p
        PROVE  \E j \in 1..Len(u.it) : u.it[j] = t.it[i]
    <3>1. CASE i < p
      BY <1>2, <2>3, <3>1
    <3>2. CASE p < i
      <4>1. /\ i - 1 \in 1..Len(u.it) /\ i - 1 \in 1..(Len(t.it) - 1)
            /\ ~(i - 1 < p) /\ i - 1 + 1 = i
        BY <1>2, <2>3, <3>2
      <4>2. u.it[i - 1] = t.it[i]
        BY <2>3, <4>1
      <4> QED BY <4>1, <4>2
    <3> QED BY <1>2, <2>6, <3>1, <3>2
  <2>7. ToSet(u.it) = ToSet(t.it) \ {k}
    <3>1. DOMAIN u.it = 1..Len(u.it)
      BY <2>3, LenProperties
    <3>2. ASSUME NEW x \in ToSet(u.it) PROVE x \in ToSet(t.it) /\ x # k
      BY <1>2, <2>5, <3>1, <3>2 DEF ToSet
    <3>3. ASSUME NEW x \in ToSet(t.it), x # k PROVE x \in ToSet(u.it)
      <4>1. PICK i \in 1..Len(t.it) : t.it[i] = x
        BY <1>2 DEF ToSet
      <4> QED BY <2>3, <2>6, <3>1, <3>3, <4>1 DEF ToSet
    <3> QED BY <3>2, <3>3
  <2>8. IsTable(u)
    BY <1>2, <2>1, <2>3, <2>7 DEF IsTable
  <2>9. ToSet(u.it) = {j \in Patterns : GivenIn(more, j) # {}}
    BY <1>1, <1>2, <2>7
  <2>10. ASSUME NEW a \in 1..Len(u.it), NEW b \in 1..Len(u.it), a < b
         PROVE  \E i \in GivenIn(more, u.it[a]) : \A j \in GivenIn(more, u.it[b]) : i < j
    <3>1. Was(a) < Was(b)
      BY <1>2, <2>3, <2>10
    <3>2. /\ GivenIn(more, u.it[a]) = GivenIn(cs, t.it[Was(a)])
          /\ GivenIn(more, u.it[b]) = GivenIn(cs, t.it[Was(b)])
      BY <1>1, <2>5
    <3>3. \E i \in GivenIn(cs, t.it[Was(a)]) : \A j \in GivenIn(cs, t.it[Was(b)]) : i < j
      <4>1. Was(a) \in 1..Len(t.it) /\ Was(b) \in 1..Len(t.it)
        BY <2>5
      <4> HIDE DEF Was
      <4> QED BY <3>1, <4>1 DEF AsGiven
    <3> QED BY <3>2, <3>3
  <2>11. ASSUME NEW j \in Patterns, GivenIn(more, j) # {} PROVE MethodsAsGiven(u.map[j], more, j)
    <3>1. j # k /\ GivenIn(more, j) = GivenIn(cs, j)
      BY <1>1, <2>11
    <3>2. MethodsAsGiven(t.map[j], cs, j) /\ j \in DOMAIN t.map
      BY <1>2, <2>11, <3>1 DEF AsGiven
    <3>3. u.map[j] = t.map[j]
      BY <2>1, <3>1, <3>2
    <3> QED BY <3>1, <3>2, <3>3, MethodsKept DEF more
  <2>12. AsGiven(u, more)
    BY <2>9, <2>10, <2>11 DEF AsGiven
  <2> QED BY <2>8, <2>12 DEF u, more, k
<1> QED BY <1>4, <1>5

\* What on_http keeps for the route it is given.
Added(t, k, methods, callback) ==
    LET entry == IF Has(t, k) THEN t.map[k] ELSE <<>>
    IN  [m \in DOMAIN entry \cup methods |-> IF m \in methods THEN callback ELSE entry[m]]

\* on_http keeps the callbacks the route had for its other methods.
LEMMA AddedAsGiven ==
    ASSUME NEW t, NEW cs \in Seq(CallRecord), NEW c \in CallRecord, IsTable(t), AsGiven(t, cs),
           c.op = "on_http", c.methods # {}
    PROVE  MethodsAsGiven(Added(t, c.route, c.methods, Len(cs) + 1), Append(cs, c), c.route)
<1> DEFINE more == Append(cs, c)
           k == c.route
           n == Len(cs)
           entry == IF Has(t, k) THEN t.map[k] ELSE <<>>
           new == Added(t, k, c.methods, n + 1)
           old == GivenIn(cs, k)
<1>1. /\ n \in Nat /\ more[n + 1] = c /\ \A i \in old : more[i] = cs[i]
      /\ old \subseteq 1..n
      /\ GivenIn(more, k) = old \cup {n + 1}
  <2>1. GivenAfter(cs, c, k) = old \cup {n + 1}
    <3>1. c.op # "clear" /\ c.op # "erase"
      OBVIOUS
    <3> QED BY <3>1, Zenon DEF GivenAfter
  <2> QED BY <2>1, OneMoreCall
<1>2. /\ DOMAIN entry = UNION {cs[i].methods : i \in old}
      /\ \A m \in DOMAIN entry :
             /\ entry[m] \in old /\ m \in cs[entry[m]].methods
             /\ \A i \in old : m \in cs[i].methods => i <= entry[m]
  <2>1. k \in Patterns
    BY DEF CallRecord
  <2>2. CASE Has(t, k)
    <3>1. old # {}
      BY <2>1, <2>2 DEF Has, IsTable, AsGiven
    <3>2. MethodsAsGiven(t.map[k], cs, k)
      BY <2>1, <3>1 DEF AsGiven
    <3>3. entry = t.map[k]
      BY <2>2
    <3> QED BY <3>2, <3>3 DEF MethodsAsGiven
  <2>3. CASE ~Has(t, k)
    <3>1. old = {}
      BY <2>1, <2>3 DEF Has, IsTable, AsGiven
    <3>2. entry = <<>> /\ DOMAIN entry = {}
      BY <2>3
    <3> QED BY <3>1, <3>2
  <2> QED BY <2>2, <2>3
<1>3. /\ DOMAIN new = DOMAIN entry \cup c.methods
      /\ \A m \in DOMAIN new : new[m] = IF m \in c.methods THEN n + 1 ELSE entry[m]
  BY DEF Added
<1> HIDE DEF more, entry, new, old, n, k
<1>4. DOMAIN new = UNION {more[i].methods : i \in GivenIn(more, k)}
  <2>1. ASSUME NEW m
        PROVE  m \in UNION {more[i].methods : i \in GivenIn(more, k)} <=>
                   m \in c.methods \/ \E i \in old : m \in cs[i].methods
    BY <1>1
  <2>2. ASSUME NEW m
        PROVE  m \in DOMAIN new <=> m \in c.methods \/ \E i \in old : m \in cs[i].methods
    BY <1>2, <1>3
  <2> QED BY <2>1, <2>2
<1>5. ASSUME NEW m \in DOMAIN new
      PROVE  /\ new[m] \in GivenIn(more, k) /\ m \in more[new[m]].methods
             /\ \A i \in GivenIn(more, k) : m \in more[i].methods => i <= new[m]
  <2>1. CASE m \in c.methods
    <3>1. new[m] = n + 1 /\ n + 1 \in GivenIn(more, k) /\ more[n + 1] = c
      BY <1>1, <1>3, <2>1
    <3>2. ASSUME NEW i \in GivenIn(more, k) PROVE i <= n + 1
      <4>1. i \in 1..n \/ i = n + 1
        BY <1>1
      <4>2. n \in Nat
        BY <1>1
      <4> QED BY <4>1, <4>2
    <3> QED BY <2>1, <3>1, <3>2
  <2>2. CASE m \notin c.methods
    <3>1. new[m] = entry[m] /\ m \in DOMAIN entry
      BY <1>3, <2>2
    <3>2. entry[m] \in old /\ more[entry[m]] = cs[entry[m]]
      BY <1>1, <1>2, <3>1
    <3>3. ASSUME NEW i \in GivenIn(more, k), m \in more[i].methods PROVE i <= new[m]
      <4>1. i \in old /\ more[i] = cs[i]
        BY <1>1, <2>2, <3>3
      <4> QED BY <1>2, <3>1, <3>3, <4>1
    <3> QED BY <1>1, <1>2, <3>1, <3>2, <3>3
  <2> QED BY <2>1, <2>2
<1>6. MethodsAsGiven(new, more, k)
  BY <1>4, <1>5 DEF MethodsAsGiven
<1> QED BY <1>6 DEF new, more, k, n

\* on_http.
LEMMA GivenTable ==
    ASSUME NEW t, NEW cs \in Seq(CallRecord), NEW c \in CallRecord, IsTable(t), AsGiven(t, cs),
           c.op = "on_http"
    PROVE  /\ IsTable(OnHttp(t, c.route, c.methods, Len(cs) + 1))
           /\ AsGiven(OnHttp(t, c.route, c.methods, Len(cs) + 1), Append(cs, c))
<1> DEFINE more == Append(cs, c)
           k == c.route
           n == Len(cs)
           u == OnHttp(t, k, c.methods, n + 1)
           new == Added(t, k, c.methods, n + 1)
<1>1. /\ t.it \in Seq(Patterns) /\ DOMAIN t.map = ToSet(t.it)
      /\ Len(t.it) \in Nat /\ DOMAIN t.it = 1..Len(t.it)
      /\ \A i \in 1..Len(t.it) : t.it[i] \in Patterns /\ t.it[i] \in ToSet(t.it)
      /\ ToSet(t.it) = {j \in Patterns : GivenIn(cs, j) # {}}
  BY LenProperties, ElementOfSeq DEF IsTable, AsGiven, ToSet
<1>2. k \in Patterns
  BY DEF CallRecord
<1>3. CASE c.methods = {}
  <2>1. u = t
    BY <1>3 DEF OnHttp
  <2>2. ASSUME NEW j PROVE GivenAfter(cs, c, j) = GivenIn(cs, j)
    <3>1. c.op # "clear" /\ c.op # "erase"
      OBVIOUS
    <3> QED BY <1>3, <3>1, Zenon DEF GivenAfter
  <2> QED BY <2>1, <2>2, SameTable
<1>4. CASE c.methods # {}
  <2>1. /\ n \in Nat /\ \A j : GivenIn(cs, j) \subseteq 1..n
        /\ \A j : GivenIn(more, j) = IF j = k THEN GivenIn(cs, j) \cup {n + 1} ELSE GivenIn(cs, j)
    <3>1. ASSUME NEW j
          PROVE  GivenAfter(cs, c, j) =
                     IF j = k THEN GivenIn(cs, j) \cup {n + 1} ELSE GivenIn(cs, j)
      <4>1. c.op # "clear" /\ c.op # "erase"
        OBVIOUS
      <4> QED BY <1>4, <4>1, Zenon DEF GivenAfter
    <3> QED BY <3>1, OneMoreCall
  <2>2. MethodsAsGiven(new, more, k)
    BY <1>4, AddedAsGiven
  <2>3. ASSUME NEW j \in Patterns, j # k, GivenIn(more, j) # {}
        PROVE  MethodsAsGiven(t.map[j], more, j)
    <3>1. GivenIn(more, j) = GivenIn(cs, j)
      BY <2>1, <2>3
    <3>2. MethodsAsGiven(t.map[j], cs, j)
      BY <2>3, <3>1 DEF AsGiven
    <3> QED BY <3>1, <3>2, MethodsKept
  <2>4. CASE Has(t, k)
    <3>1. u = [t EXCEPT !.map[k] = new]
      BY <1>4, <2>4 DEF OnHttp, Added
    <3> HIDE DEF u, new, more, k, n
    <3>2. u.it = t.it /\ u.map = [t.map EXCEPT ![k] = new] /\ u = [map |-> u.map, it |-> u.it]
      BY <3>1 DEF IsTable
    <3>3. k \in DOMAIN t.map
      BY <2>4 DEF Has
    <3>4. IsTable(u)
      BY <1>1, <3>2 DEF IsTable
    <3>5. ToSet(u.it) = {j \in Patterns : GivenIn(more, j) # {}}
      BY <1>1, <2>1, <3>2, <3>3
    <3>6. ASSUME NEW a \in 1..Len(u.it), NEW b \in 1..Len(u.it), a < b
          PROVE  \E i \in GivenIn(more, u.it[a]) : \A j \in GivenIn(more, u.it[b]) : i < j
      <4>1. PICK i \in GivenIn(cs, t.it[a]) : \A j \in GivenIn(cs, t.it[b]) : i < j
        BY <3>2, <3>6 DEF AsGiven
      <4>2. i \in 1..n /\ i < n + 1
        BY <2>1
      <4> QED BY <2>1, <3>2, <4>1, <4>2
    <3>7. ASSUME NEW j \in Patterns, GivenIn(more, j) # {} PROVE MethodsAsGiven(u.map[j], more, j)
      <4>1. CASE j = k
        BY <2>2, <3>2, <3>3, <4>1
      <4>2. CASE j # k
        <5>1. u.map[j] = t.map[j]
          <6>1. j \in DOMAIN t.map
            BY <1>1, <2>1, <3>7, <4>2
          <6> QED BY <3>2, <4>2, <6>1
        <5> QED BY <2>3, <3>7, <4>2, <5>1
      <4> QED BY <4>1, <4>2
    <3>8. AsGiven(u, more)
      BY <3>5, <3>6, <3>7 DEF AsGiven
    <3> QED BY <3>4, <3>8 DEF u, more, k, n
  <2>5. CASE ~Has(t, k)
    <3>1. u = Call(t, k, new)
      BY <1>4, <2>5 DEF OnHttp, Added
    <3> HIDE DEF u, new, more, k, n
    <3>2. /\ u.it = Append(t.it, k) /\ u = [map |-> u.map, it |-> u.it]
          /\ u.map = [j \in DOMAIN t.map \cup {k} |-> IF j = k THEN new ELSE t.map[j]]
      BY <2>5, <3>1 DEF Call, Assigned
    <3>3. /\ u.it \in Seq(Patterns) /\ Len(u.it) = Len(t.it) + 1 /\ u.it[Len(t.it) + 1] = k
          /\ DOMAIN u.it = 1..Len(u.it) /\ \A i \in 1..Len(t.it) : u.it[i] = t.it[i]
      BY <1>1, <1>2, <3>2, AppendProperties, LenProperties
    <3>4. k \notin ToSet(t.it) /\ GivenIn(cs, k) = {}
      BY <1>1, <1>2, <2>5 DEF Has
    <3>5. ToSet(u.it) = ToSet(t.it) \cup {k}
      <4>1. DOMAIN u.it = DOMAIN t.it \cup {Len(t.it) + 1}
        BY <1>1, <3>3
      <4>2. ASSUME NEW x
            PROVE  x \in ToSet(u.it) <=> \E i \in DOMAIN t.it \cup {Len(t.it) + 1} : x = u.it[i]
        BY <4>1 DEF ToSet
      <4>3. ASSUME NEW x
            PROVE  x \in ToSet(t.it) <=> \E i \in DOMAIN t.it : x = t.it[i]
        BY DEF ToSet
      <4>4. Len(t.it) + 1 \notin DOMAIN t.it /\ \A i \in DOMAIN t.it : u.it[i] = t.it[i]
        BY <1>1, <3>3, LenProperties
      <4>5. ASSUME NEW x
            PROVE  x \in ToSet(u.it) <=> x \in ToSet(t.it) \/ x = k
        <5>1. x \in ToSet(u.it) <=> (\E i \in DOMAIN t.it : x = u.it[i]) \/ x = u.it[Len(t.it) + 1]
          BY <4>2
        <5>2. (\E i \in DOMAIN t.it : x = u.it[i]) <=> x \in ToSet(t.it)
          BY <4>3, <4>4
        <5> QED BY <3>3, <5>1, <5>2
      <4> QED BY <4>5
    <3>6. IsTable(u)
      BY <1>1, <3>2, <3>3, <3>5 DEF IsTable
    <3>7. ToSet(u.it) = {j \in Patterns : GivenIn(more, j) # {}}
      BY <1>1, <1>2, <2>1, <3>5
    <3>8. ASSUME NEW a \in 1..Len(u.it), NEW b \in 1..Len(u.it), a < b
          PROVE  \E i \in GivenIn(more, u.it[a]) : \A j \in GivenIn(more, u.it[b]) : i < j
      <4>1. a \in 1..Len(t.it) /\ u.it[a] = t.it[a] /\ t.it[a] # k /\ t.it[a] \in ToSet(t.it)
        BY <1>1, <3>3, <3>4, <3>8
      <4>2. GivenIn(more, u.it[a]) = GivenIn(cs, t.it[a]) /\ GivenIn(cs, t.it[a]) # {}
        BY <1>1, <2>1, <4>1
      <4>3. CASE b \in 1..Len(t.it)
        <5>1. GivenIn(more, u.it[b]) = GivenIn(cs, t.it[b])
          BY <1>1, <2>1, <3>3, <3>4, <4>3
        <5> QED BY <3>8, <4>1, <4>2, <4>3, <5>1 DEF AsGiven
      <4>4. CASE b = Len(t.it) + 1
        <5>1. GivenIn(more, u.it[b]) = {n + 1}
          BY <2>1, <3>3, <3>4, <4>4
        <5>2. PICK i \in GivenIn(cs, t.it[a]) : i \in 1..n
          BY <2>1, <4>2
        <5> QED BY <2>1, <4>2, <5>1, <5>2
      <4> QED BY <1>1, <3>3, <4>3, <4>4
    <3>9. ASSUME NEW j \in Patterns, GivenIn(more, j) # {} PROVE MethodsAsGiven(u.map[j], more, j)
      <4>1. CASE j = k
        BY <2>2, <3>2, <4>1
      <4>2. CASE j # k
        <5>1. u.map[j] = t.map[j]
          <6>1. j \in DOMAIN t.map
            BY <1>1, <2>1, <3>9, <4>2
          <6> QED BY <3>2, <4>2, <6>1
        <5> QED BY <2>3, <3>9, <4>2, <5>1
      <4> QED BY <4>1, <4>2
    <3>10. AsGiven(u, more)
      BY <3>7, <3>8, <3>9 DEF AsGiven
    <3> QED BY <3>6, <3>10 DEF u, more, k, n
  <2> QED BY <2>4, <2>5
<1> QED BY <1>3, <1>4
-----------------------------------------------------------------------------
(* The server. *)

\* The table is as given until the request comes; from then on the request is handled
\* well, by the routes as they then were.
IInv ==
    /\ handled \in BOOLEAN
    /\ ~handled => /\ calls \in Seq(CallRecord) /\ IsTable(table) /\ AsGiven(table, calls)
                   /\ outcome = NoOutcome
    /\ handled => /\ Len(attr.http_routes) \in Nat /\ req.method # "none"
                  /\ HandledWell(outcome, attr, req, cb, ecb)

\* An empty table is the table of no call.
LEMMA InitInv == RoutedInit => IInv
<1> SUFFICES ASSUME RoutedInit PROVE IInv
  OBVIOUS
<1>1. calls \in Seq(CallRecord) /\ Len(calls) = 0 /\ table = EmptyMap
  BY EmptySeq DEF RoutedInit
<1>2. \A k : GivenIn(calls, k) = {}
  BY <1>1 DEF GivenIn
<1>3. /\ EmptyMap.it = <<>> /\ DOMAIN EmptyMap.map = {} /\ ToSet(EmptyMap.it) = {}
      /\ EmptyMap.it \in Seq(Patterns) /\ Len(EmptyMap.it) = 0
      /\ EmptyMap = [map |-> EmptyMap.map, it |-> EmptyMap.it]
  BY EmptySeq DEF EmptyMap, ToSet
<1>4. IsTable(table) /\ AsGiven(table, calls)
  BY <1>1, <1>2, <1>3 DEF IsTable, AsGiven
<1> QED BY <1>1, <1>4 DEF RoutedInit, IInv

\* A call of on_http changes the table as the calls say.
LEMMA ChangeInv == IInv /\ Change => IInv'
<1> SUFFICES ASSUME IInv, Change PROVE IInv'
  OBVIOUS
<1>1. PICK c \in Changes :
          /\ calls' = Append(calls, c)
          /\ \/ c.op = "on_http" /\ table' = OnHttp(table, c.route, c.methods, Len(calls'))
             \/ c.op = "erase" /\ table' = Erase(table, c.route)
             \/ c.op = "clear" /\ table' = Clear(table)
  BY DEF Change
<1>2. /\ calls \in Seq(CallRecord) /\ IsTable(table) /\ AsGiven(table, calls)
      /\ ~handled /\ handled' = handled /\ outcome' = outcome /\ outcome = NoOutcome
  BY DEF IInv, Change
<1>3. c \in CallRecord
  BY ChangesAssumption DEF CallRecord
<1>4. calls' \in Seq(CallRecord) /\ Len(calls') = Len(calls) + 1
  BY <1>1, <1>2, <1>3, OneMoreCall
<1>5. IsTable(table') /\ AsGiven(table', calls')
  <2>1. CASE c.op = "on_http" /\ table' = OnHttp(table, c.route, c.methods, Len(calls'))
    BY <1>1, <1>2, <1>3, <1>4, <2>1, GivenTable
  <2>2. CASE c.op = "erase" /\ table' = Erase(table, c.route)
    BY <1>1, <1>2, <1>3, <2>2, ErasedTable
  <2>3. CASE c.op = "clear" /\ table' = Clear(table)
    BY <1>1, <1>2, <1>3, <2>3, ClearedTable DEF Clear
  <2> QED BY <1>1, <2>1, <2>2, <2>3
<1> QED BY <1>2, <1>4, <1>5 DEF IInv

\* A handled request leaves the table, and its outcome is as the table says.
LEMMA HandleInv == IInv /\ Handle => IInv'
<1> SUFFICES ASSUME IInv, Handle PROVE IInv'
  OBVIOUS
<1>1. PICK switches \in Switches :
          /\ attr' = Attr(switches)
          /\ req' \in Requests
          /\ cb' \in (IF switches.http_dynamic THEN Callbacks ELSE {Returns})
          /\ ecb' \in (IF switches.on_http_error THEN ErrorCallbacks ELSE {Returns})
  BY DEF Handle
<1>2. outcome' = HandleRequest(attr', req', cb', ecb') /\ handled' = TRUE
  BY DEF Handle
<1>3. Returns \in Ends
  BY DEF Returns, Ends
<1>4. cb' \in Ends /\ ecb' \in Ends
  BY <1>1, <1>3, CallbacksAssumption
<1>5. Len(attr'.http_routes) \in Nat
  <2>1. attr'.http_routes = Routes(table)
    BY <1>1 DEF Attr
  <2>2. Len(table.it) \in Nat
    BY LenProperties DEF IInv, IsTable, Handle
  <2>3. ASSUME NEW n \in Nat, NEW f, f = [i \in 1..n |-> f[i]] PROVE Len(f) \in Nat
    <3>1. PICK S : \A i \in 1..n : f[i] \in S
      <4> WITNESS {f[i] : i \in 1..n}
      <4> QED OBVIOUS
    <3>2. f \in [1..n -> S]
      BY <2>3, <3>1
    <3>3. f \in Seq(S)
      BY <3>2, SeqDef
    <3> QED BY <3>3, LenProperties
  <2>4. Routes(table) = [i \in 1..Len(table.it) |-> Routes(table)[i]]
    BY DEF Routes
  <2> QED BY <2>1, <2>2, <2>3, <2>4
<1>6. HandledWell(outcome', attr', req', cb', ecb')
  BY <1>2, <1>4, <1>5, RequestHandled
<1>7. req'.method # "none"
  BY <1>1, RequestsAssumption
<1> QED BY <1>2, <1>5, <1>6, <1>7 DEF IInv

\* The invariant holds, whatever the routes, the requests and the callbacks.
THEOREM Inductive == RoutedSpec => []IInv
<1>1. IInv /\ UNCHANGED routedVars => IInv'
  BY DEF IInv, routedVars
<1>2. IInv /\ [RoutedNext]_routedVars => IInv'
  BY <1>1, ChangeInv, HandleInv DEF RoutedNext
<1> QED BY <1>2, InitInv, PTL DEF RoutedSpec

\* The table is what the calls of on_http, erase and clear amount to.
THEOREM TableAsGivenAlways == RoutedSpec => []TableAsGiven
<1>1. IInv => TableAsGiven
  <2> SUFFICES ASSUME ~handled, AsGiven(table, calls) PROVE TableAsGiven
    BY DEF IInv, TableAsGiven
  <2> QED BY DEF TableAsGiven, AsGiven, MethodsAsGiven, GivenIn, StandsIn
<1> QED BY <1>1, Inductive, PTL

\* Every request is answered once, but for the two exceptions AnsweredOnce names.
THEOREM AnsweredOnceAlways == RoutedSpec => []AnsweredOnce
<1>1. IInv => AnsweredOnce
  BY Zenon DEF IInv, HandledWell, AnsweredOnce, Called
<1> QED BY <1>1, Inductive, PTL

\* Only an exception that is no status escapes.
THEOREM EscapesOnlyWithoutStatusAlways == RoutedSpec => []EscapesOnlyWithoutStatus
<1>1. NoOutcome.escaped = FALSE
  BY DEF NoOutcome
<1>2. IInv => EscapesOnlyWithoutStatus
  BY <1>1, Zenon DEF IInv, HandledWell, EscapesOnlyWithoutStatus
<1> QED BY <1>2, Inductive, PTL

\* A status that a callback throws, 404 apart, is answered with, after on_http_error.
THEOREM OtherStatusIsAnsweredAlways == RoutedSpec => []OtherStatusIsAnswered
<1>1. ~Called \/ handled \/ ~IInv
  BY DEF IInv, Called, NoOutcome
<1>2. ASSUME IInv, Called, cb.ends = "status", cb.value \in (1..999) \ {404}
      PROVE  AnswersThrown
  <2>1. ThrewOther(cb) /\ handled
    BY <1>1, <1>2 DEF ThrewOther
  <2>2. AnswersWith(outcome, attr, cb.value, ecb)
    BY <1>2, <2>1 DEF IInv, HandledWell, Called
  <2> QED BY <2>2 DEF AnswersWith, AnswersThrown
<1>3. IInv => OtherStatusIsAnswered
  BY <1>2 DEF OtherStatusIsAnswered
<1> QED BY <1>3, Inductive, PTL

\* The route that runs is the first registered one that accepts the request.
THEOREM FirstRegisteredRouteRunsAlways == RoutedSpec => []FirstRegisteredRouteRuns
<1> DEFINE Accepts(i) == /\ req.path \in attr.http_routes[i].paths
                         /\ {"any", req.method} \cap attr.http_routes[i].methods # {}
<1>1. ASSUME IInv, handled, req.wellformed, attr.http_dynamic
      PROVE  IF \E i \in 1..Len(attr.http_routes) : Accepts(i)
             THEN /\ Accepts(outcome.route)
                  /\ \A i \in 1..(outcome.route - 1) : ~Accepts(i)
                  /\ outcome.entry # "any" => "any" \notin attr.http_routes[outcome.route].methods
             ELSE ~Called
  <2>1. /\ Len(attr.http_routes) \in Nat /\ req.method # "none"
        /\ IF Taken(attr, req) THEN FirstCalled(outcome, attr, req) ELSE outcome.route = 0
    BY <1>1 DEF IInv, HandledWell
  <2>2. ASSUME NEW i PROVE i \in Matching(attr, req) <=> i \in 1..Len(attr.http_routes) /\ Accepts(i)
    <3>1. Entry(attr.http_routes[i], req.method) # "none" <=>
              {"any", req.method} \cap attr.http_routes[i].methods # {}
      BY <2>1 DEF Entry
    <3> QED BY <3>1 DEF Matching
  <2> HIDE DEF Accepts
  <2>3. CASE Matching(attr, req) = {}
    BY <2>1, <2>2, <2>3 DEF Taken, Called
  <2>4. CASE Matching(attr, req) # {}
    <3> DEFINE first == FirstOf(Matching(attr, req))
    <3>1. /\ first \in Matching(attr, req) /\ first \in 1..Len(attr.http_routes)
          /\ \A j \in Matching(attr, req) : first <= j
      BY <2>1, <2>4, MatchingPositions
    <3>2. outcome.route = first /\ outcome.entry = Entry(attr.http_routes[first], req.method)
      BY <1>1, <2>1, <2>4 DEF Taken, FirstCalled
    <3> HIDE DEF first
    <3>3. ASSUME NEW i \in 1..(first - 1) PROVE ~Accepts(i)
      <4>1. i \in 1..Len(attr.http_routes) /\ ~(first <= i)
        BY <2>1, <3>1
      <4> QED BY <2>2, <3>1, <4>1
    <3>4. outcome.entry # "any" => "any" \notin attr.http_routes[outcome.route].methods
      BY <3>2 DEF Entry
    <3> QED BY <2>2, <3>1, <3>2, <3>3, <3>4
  <2> QED BY <2>3, <2>4
<1>2. IInv => FirstRegisteredRouteRuns
  BY <1>1 DEF FirstRegisteredRouteRuns
<1> QED BY <1>2, Inductive, PTL
=============================================================================
