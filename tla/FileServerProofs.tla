-------------------------- MODULE FileServerProofs --------------------------
(***************************************************************************)
(* Proofs about FileServer for any number of threads, connections and      *)
(* status codes: the invariants that FileServer.cfg checks, from one       *)
(* inductive invariant.                                                    *)
(***************************************************************************)
EXTENDS FileServer, TLAPS

\* The thread inside serve_error for a session is inside run() and in no other handler.
Occupied ==
    \A s \in Sessions :
        /\ at[s] \in PageSteps <=> worker[s] # NoThread
        /\ worker[s] # NoThread => worker[s] \in inside
        /\ \A q \in Sessions : worker[s] = worker[q] /\ worker[s] # NoThread => s = q

\* What is known of a page at each step of serve_error.
PageOf(s) ==
    /\ at[s] \in PageSteps => status[s] \in Statuses
    /\ at[s] \notin {"send", "write"} => body[s] = "none"
    /\ clean[s] =>
        /\ at[s] \in {"open", "send"} => page = status[s]
        /\ at[s] = "send" => body[s] = "whole"
        /\ at[s] = "write" => body[s] \in {"none", status[s]}

PageInv == \A s \in Sessions : PageOf(s)

\* How far listen() has come, and what that says of the threads and the accept loop.
ListenInv ==
    /\ main = "idle" => pool = {} /\ stopped = "no"
    /\ main \in {"idle", "returned", "threw"} => inside = {}
    /\ main = "running" =>
        /\ Main \in pool
        /\ inside = pool \/ stopped # "no"
        /\ acceptor # "closed" => accepting
    /\ main = "returned" => stopped # "no"
    /\ stopped = "idle" => acceptor = "closed"

IInv == TypeOK /\ Occupied /\ PageInv /\ ListenInv
-----------------------------------------------------------------------------
\* What follows from the inductive invariant.
LEMMA Consequences == IInv => PageNamesStatus /\ QuietReturn /\ BlocksUntilSignal
<1> SUFFICES ASSUME IInv PROVE PageNamesStatus /\ QuietReturn /\ BlocksUntilSignal
    OBVIOUS
<1>1. PageNamesStatus
    BY DEF IInv, PageInv, PageOf, PageNamesStatus
<1>2. QuietReturn
    BY ThreadsAssumption DEF IInv, ListenInv, Occupied, QuietReturn
<1>3. BlocksUntilSignal
    BY DEF IInv, TypeOK, ListenInv, BlocksUntilSignal
<1> QED
    BY <1>1, <1>2, <1>3

\* The initial states.
LEMMA InitInv == Init => IInv
<1> SUFFICES ASSUME Init PROVE IInv
    OBVIOUS
<1>1. TypeOK
    BY SslAssumption DEF Init, TypeOK
<1>2. Occupied
    BY DEF Init, Occupied, PageSteps
<1>3. PageInv
    BY DEF Init, PageInv, PageOf, PageSteps
<1>4. ListenInv
    BY DEF Init, ListenInv
<1> QED
    BY <1>1, <1>2, <1>3, <1>4 DEF IInv

\* listen() begins.
LEMMA ListenStep == IInv /\ Listen => IInv'
<1> SUFFICES ASSUME IInv, Listen PROVE IInv'
    OBVIOUS
<1> USE DEF Listen, pageVars
<1>1. TypeOK'
    BY DEF IInv, TypeOK
<1>2. Occupied'
    BY DEF IInv, Occupied, ListenInv
<1>3. PageInv'
    BY DEF IInv, PageInv, PageOf
<1>4. ListenInv'
    BY DEF IInv, ListenInv
<1> QED
    BY <1>1, <1>2, <1>3, <1>4 DEF IInv

\* listen() returns.
LEMMA ReturnStep == IInv /\ Return => IInv'
<1> SUFFICES ASSUME IInv, Return PROVE IInv'
    OBVIOUS
<1> USE DEF Return, Joined, pageVars
<1>1. TypeOK'
    BY DEF IInv, TypeOK
<1>2. Occupied'
    BY DEF IInv, Occupied
<1>3. PageInv'
    BY DEF IInv, PageInv, PageOf
<1>4. ListenInv'
    BY DEF IInv, ListenInv
<1> QED
    BY <1>1, <1>2, <1>3, <1>4 DEF IInv

\* A thread leaves run(): it was in no handler, and when it leaves for want of work
\* no accept is pending.
LEMMA LeaveStep == ASSUME IInv, NEW t \in Threads, Leave(t) PROVE IInv'
<1> USE DEF Leave, Free, pageVars
<1>1. TypeOK'
    BY DEF IInv, TypeOK
<1>2. Occupied'
    BY DEF IInv, Occupied
<1>3. PageInv'
    BY DEF IInv, PageInv, PageOf
<1>4. ListenInv'
    BY DEF IInv, TypeOK, ListenInv, NoWork
<1> QED
    BY <1>1, <1>2, <1>3, <1>4 DEF IInv

\* The handlers of the listener and the signals.
LEMMA LoopStep == IInv /\ (OnAccept \/ OnSignal) => IInv'
<1> SUFFICES ASSUME IInv, OnAccept \/ OnSignal PROVE IInv'
    OBVIOUS
<1> USE DEF OnAccept, OnSignal, DoAccept, Dispatching, Run, PageSteps, Pending, pageVars
<1>1. TypeOK'
    BY DEF IInv, TypeOK
<1>2. Occupied'
    BY DEF IInv, TypeOK, Occupied
<1>3. PageInv'
    BY DEF IInv, TypeOK, PageInv, PageOf
<1>4. ListenInv'
    BY DEF IInv, ListenInv
<1> QED
    BY <1>1, <1>2, <1>3, <1>4 DEF IInv

\* A handler that moves its session from one operation to another, the write apart.
LEMMA MovesStep ==
    ASSUME IInv, NEW s \in Sessions,
           NEW from \in {"handshake", "read", "shutdown"},
           NEW to \in {"read", "shutdown", "gone"}, Moves(s, from, to)
    PROVE  IInv'
<1> USE DEF Moves, listenVars, pageVars, PageSteps, Pending
<1>1. TypeOK'
    BY DEF IInv, TypeOK
<1>2. Occupied'
    BY DEF IInv, TypeOK, Occupied
<1>3. PageInv'
    BY DEF IInv, TypeOK, PageInv, PageOf
<1>4. ListenInv'
    BY DEF IInv, ListenInv
<1> QED
    BY <1>1, <1>2, <1>3, <1>4 DEF IInv

\* A response that is no page is sent: the session's body is "none".
LEMMA ServedStep == ASSUME IInv, NEW s \in Sessions, OnReadServed(s) PROVE IInv'
<1> USE DEF OnReadServed, listenVars, PageSteps, Pending
<1>1. TypeOK'
    BY DEF IInv, TypeOK
<1>2. Occupied'
    BY DEF IInv, TypeOK, Occupied
<1>3. PageInv'
    BY DEF IInv, TypeOK, PageInv, PageOf
<1>4. ListenInv'
    BY DEF IInv, ListenInv
<1> QED
    BY <1>1, <1>2, <1>3, <1>4 DEF IInv

\* A write ends, and what the response left is forgotten.
LEMMA WriteStep == ASSUME IInv, NEW s \in Sessions, OnWrite(s) PROVE IInv'
<1> USE DEF OnWrite, Forget, DoShutdown, listenVars, PageSteps, Pending
<1>1. TypeOK'
    BY DEF IInv, TypeOK
<1>2. Occupied'
    BY DEF IInv, TypeOK, Occupied
<1>3. PageInv'
    BY DEF IInv, TypeOK, PageInv, PageOf
<1>4. ListenInv'
    BY DEF IInv, ListenInv
<1> QED
    BY <1>1, <1>2, <1>3, <1>4 DEF IInv

\* A free thread begins an error page.
LEMMA ErrorStep ==
    ASSUME IInv, NEW t \in Threads, NEW s \in Sessions, OnReadError(t, s) PROVE IInv'
<1> USE DEF OnReadError, Free, listenVars, PageSteps, Pending
<1>1. TypeOK'
    BY DEF IInv, TypeOK
<1>2. Occupied'
    BY ThreadsAssumption DEF IInv, TypeOK, Occupied
<1>3. PageInv'
    BY DEF IInv, TypeOK, PageInv, PageOf
<1>4. ListenInv'
    BY DEF IInv, ListenInv
<1> QED
    BY <1>1, <1>2, <1>3, <1>4 DEF IInv

\* An exception leaves run() on thread t, which is in no handler but that of s: alone
\* it leaves listen() empty, otherwise the process ends.
LEMMA EscapeStep ==
    ASSUME IInv, NEW t \in Threads, NEW s \in Sessions, Escape(t, s),
           main = "running", t \in inside,
           \A q \in Sessions : worker[q] = t => q = s
    PROVE  IInv'
<1> USE DEF Escape, Forget, PageSteps, Pending
<1>1. TypeOK'
    BY DEF IInv, TypeOK
<1>2. Occupied'
    BY DEF IInv, TypeOK, Occupied
<1>3. PageInv'
    BY DEF IInv, TypeOK, PageInv, PageOf
<1>4. ListenInv'
    <2>1. pool = {Main} => inside' = {}
        BY DEF IInv, TypeOK
    <2> QED
        BY <2>1 DEF IInv, ListenInv
<1> QED
    BY <1>1, <1>2, <1>3, <1>4 DEF IInv

\* The file is emptied: the pages of all other sessions are spoilt.
LEMMA TruncateStep ==
    ASSUME IInv, NEW t \in Threads, NEW s \in Sessions, Truncate(t, s) PROVE IInv'
<1> USE DEF Truncate, Step, Touched, listenVars, PageSteps, Pending
<1>1. TypeOK'
    BY DEF IInv, TypeOK
<1>2. Occupied'
    BY DEF IInv, TypeOK, Occupied
<1>3. PageInv'
    <2> SUFFICES ASSUME NEW q \in Sessions PROVE PageOf(q)'
        BY DEF PageInv, PageOf
    <2>1. q # s => at'[q] = at[q] /\ (clean'[q] => clean[q])
                   /\ (at[q] \in PageSteps /\ clean'[q] => page' = page)
        BY DEF IInv, TypeOK
    <2>2. at'[s] \in {"fill", "open"} /\ (at'[s] = "open" => ~clean'[s])
        BY DEF IInv, TypeOK
    <2>3. body[s] = "none" /\ status[s] \in Statuses
        BY DEF IInv, PageInv, PageOf
    <2> QED
        BY <2>1, <2>2, <2>3 DEF IInv, PageInv, PageOf
<1>4. ListenInv'
    BY DEF IInv, ListenInv
<1> QED
    BY <1>1, <1>2, <1>3, <1>4 DEF IInv

\* The text is written.
LEMMA FillStep ==
    ASSUME IInv, NEW t \in Threads, NEW s \in Sessions, Fill(t, s) PROVE IInv'
<1> USE DEF Fill, Written, Step, Touched, listenVars, PageSteps, Pending
<1>1. TypeOK'
    BY DEF IInv, TypeOK, PageInv, PageOf
<1>2. Occupied'
    BY DEF IInv, TypeOK, Occupied
<1>3. PageInv'
    BY DEF IInv, TypeOK, PageInv, PageOf
<1>4. ListenInv'
    BY DEF IInv, ListenInv
<1> QED
    BY <1>1, <1>2, <1>3, <1>4 DEF IInv

\* The file is opened and its size counted.
LEMMA OpenStep ==
    ASSUME IInv, NEW t \in Threads, NEW s \in Sessions, Open(t, s) PROVE IInv'
<1> USE DEF Open, Step, listenVars, PageSteps, Pending
<1>1. TypeOK'
    BY DEF IInv, TypeOK
<1>2. Occupied'
    BY DEF IInv, TypeOK, Occupied
<1>3. PageInv'
    BY StatusesAssumption DEF IInv, TypeOK, PageInv, PageOf
<1>4. ListenInv'
    BY DEF IInv, ListenInv
<1> QED
    BY <1>1, <1>2, <1>3, <1>4 DEF IInv

\* serve_error throws: its thread is in this handler only.
LEMMA PageThrowStep ==
    ASSUME IInv, NEW t \in Threads, NEW s \in Sessions, PageThrow(t, s) PROVE IInv'
<1>1. main = "running" /\ worker[s] = t /\ Escape(t, s)
    BY DEF PageThrow
<1>2. t \in inside /\ \A q \in Sessions : worker[q] = t => q = s
    BY <1>1, ThreadsAssumption DEF IInv, Occupied
<1> QED
    BY <1>1, <1>2, EscapeStep

\* The page is read and sent.
LEMMA SendPageStep ==
    ASSUME IInv, NEW t \in Threads, NEW s \in Sessions, SendPage(t, s) PROVE IInv'
<1> USE DEF SendPage, Step, listenVars, PageSteps, Pending
<1>1. TypeOK'
    BY DEF IInv, TypeOK, PageInv, PageOf
<1>2. Occupied'
    BY DEF IInv, TypeOK, Occupied
<1>3. PageInv'
    BY StatusesAssumption DEF IInv, TypeOK, PageInv, PageOf
<1>4. ListenInv'
    BY DEF IInv, ListenInv
<1> QED
    BY <1>1, <1>2, <1>3, <1>4 DEF IInv
-----------------------------------------------------------------------------
\* Every step preserves the invariant.
LEMMA StepInv == IInv /\ [Next]_vars => IInv'
<1> SUFFICES ASSUME IInv, [Next]_vars PROVE IInv'
    OBVIOUS
<1>1. CASE Listen
    BY <1>1, ListenStep
<1>2. CASE Return
    BY <1>2, ReturnStep
<1>3. CASE OnAccept \/ OnSignal
    BY <1>3, LoopStep
<1>4. ASSUME NEW s \in Sessions,
             OnHandshake(s) \/ OnShutdown(s) \/ OnReadEnd(s) \/ OnReadSilent(s)
      PROVE  IInv'
    BY <1>4, MovesStep DEF OnHandshake, OnShutdown, OnReadEnd, OnReadSilent, DoShutdown
<1>5. ASSUME NEW s \in Sessions, OnReadServed(s) PROVE IInv'
    BY <1>5, ServedStep
<1>6. ASSUME NEW s \in Sessions, OnWrite(s) PROVE IInv'
    BY <1>6, WriteStep
<1>7. ASSUME NEW t \in Threads, Leave(t) PROVE IInv'
    BY <1>7, LeaveStep
<1>8. ASSUME NEW t \in Threads, Continue(t) PROVE IInv'
    BY <1>8, TruncateStep, FillStep, OpenStep, SendPageStep, PageThrowStep DEF Continue
<1>9. ASSUME NEW t \in Threads, NEW s \in Sessions, OnReadError(t, s) PROVE IInv'
    BY <1>9, ErrorStep
<1>10. ASSUME NEW t \in Threads, NEW s \in Sessions, OnReadThrow(t, s) PROVE IInv'
    <2>1. /\ main = "running" /\ t \in inside /\ Escape(t, s)
          /\ \A q \in Sessions : worker[q] # t
        BY <1>10 DEF OnReadThrow, Free
    <2> QED
        BY <2>1, EscapeStep
<1>11. CASE UNCHANGED vars
    BY <1>11 DEF vars, listenVars, pageVars, IInv, TypeOK, Occupied, PageInv, PageOf,
                 ListenInv
<1> QED
    BY <1>1, <1>2, <1>3, <1>4, <1>5, <1>6, <1>7, <1>8, <1>9, <1>10, <1>11 DEF Next

\* The inductive invariant holds throughout.
THEOREM Invariance == Spec => []IInv
BY InitInv, StepInv, PTL DEF Spec

\* Type correctness.
THEOREM TypeCorrect == Spec => []TypeOK
<1>1. IInv => TypeOK
    BY DEF IInv
<1> QED
    BY <1>1, Invariance, PTL

\* serve_error: on any number of threads, a page that nothing interfered with names
\* the status of its own response.
THEOREM PageNamesStatusAlways == Spec => []PageNamesStatus
BY Consequences, Invariance, PTL

\* listen(): when it comes back, by returning or throwing, no thread is left behind.
THEOREM QuietReturnAlways == Spec => []QuietReturn
BY Consequences, Invariance, PTL

\* listen(): it returns only after a signal, unless the acceptor could not be opened.
THEOREM BlocksUntilSignalAlways == Spec => []BlocksUntilSignal
BY Consequences, Invariance, PTL
=============================================================================
