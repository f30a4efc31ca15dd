----------------------------- MODULE AsioTimer -----------------------------
(***************************************************************************)
(* The part of boost::asio::steady_timer that belle relies on (external    *)
(* code, modelled from how server.hpp and client.hpp use it).              *)
(*                                                                         *)
(* A timer has an expiry and at most one outstanding wait.  Time itself is *)
(* not counted: the expiry is one of                                       *)
(*   "max"     time_point::max(), never reached                            *)
(*   "min"     time_point::min(), the value cancel_timer stores            *)
(*   "later"   a deadline in the future                                    *)
(*   "passed"  a deadline that time has reached                            *)
(* and the wait is one of                                                  *)
(*   "none"    no async_wait is outstanding                                *)
(*   "armed"   async_wait was called and neither fired nor was cancelled   *)
(*   "due"     its handler is queued on the io_context and will run        *)
(* The point the model exists for: setting the expiry CANCELS the wait,    *)
(* whose handler then runs with operation_aborted and is not re-armed      *)
(* unless the handler does it.                                             *)
(***************************************************************************)

Expiries == {"max", "min", "later", "passed"}
Waits    == {"none", "armed", "due"}
Timers   == [expiry : Expiries, wait : Waits]

\* Constructed with an expiry of time_point::max() and no wait.
NewTimer == [expiry |-> "max", wait |-> "none"]

\* expires_at, expires_after: an armed wait is cancelled, so its handler is queued.
ExpiresAt(t, e) ==
    [expiry |-> e, wait |-> IF t.wait = "armed" THEN "due" ELSE t.wait]

\* async_wait: completes at once on a timer that has expired already.
AsyncWait(t) ==
    [t EXCEPT !.wait = IF t.expiry \in {"min", "passed"} THEN "due" ELSE "armed"]

\* The clock reaches the deadline: an armed wait fires.
Elapsed(t) ==
    [expiry |-> "passed", wait |-> IF t.wait = "armed" THEN "due" ELSE t.wait]

\* The queued handler is taken off the queue to be run.
HandlerTaken(t) == [t EXCEPT !.wait = "none"]

\* Whether a call of now() in the handler finds the expiry in the past.
HasExpired(t) == t.expiry \in {"min", "passed"}
=============================================================================
