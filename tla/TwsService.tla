------------------------------ MODULE TwsService ------------------------------
(***************************************************************************)
(* What the message layer promises a front-end, without processors' lists, *)
(* sockets or a back-end loop: a client has one request out at a time, a   *)
(* request goes through its stages once and in order, and the client is    *)
(* released by the return of that very request, or by the server stopping. *)
(* The layer may fail to hand a request over; such a request stays where   *)
(* it is for good and never comes back as something else.                  *)
(***************************************************************************)
EXTENDS Naturals

CONSTANTS FrontEnds, Requests, None

Stages == {"none",      \* never issued
           "asked",     \* on its way to the back-end
           "working",   \* with the back-end, not finished
           "finished",  \* answered or failed, on its way back
           "returned",  \* with its front-end again
           "unsent",    \* never left its front-end
           "vanished"}  \* dropped by a hand-over

VARIABLES
  stage,    \* the stage of every request
  asker,    \* the front-end that issued it
  blocked,  \* the request every front-end waits for
  closed    \* the server is stopping

vars == <<stage, asker, blocked, closed>>

Init ==
  /\ stage = [r \in Requests |-> "none"]
  /\ asker = [r \in Requests |-> None]
  /\ blocked = [f \in FrontEnds |-> None]
  /\ closed = FALSE

\* The hand-over to the back-end succeeds, fails visibly or fails silently. A
\* client that asks after the server was stopped does not wait.
Ask(f, r) ==
  /\ blocked[f] = None
  /\ stage[r] = "none"
  /\ \E s \in {"asked", "unsent", "vanished"} : stage' = [stage EXCEPT ![r] = s]
  /\ asker' = [asker EXCEPT ![r] = f]
  /\ blocked' = [blocked EXCEPT ![f] = IF closed THEN None ELSE r]
  /\ UNCHANGED closed

\* The back-end takes a request and may finish it on the spot.
Accept(r) ==
  /\ stage[r] = "asked"
  /\ \E s \in {"working", "finished"} : stage' = [stage EXCEPT ![r] = s]
  /\ UNCHANGED <<asker, blocked, closed>>

\* One answer may serve several requests, but only some that are being worked on.
Answer(served) ==
  /\ \A r \in served : stage[r] = "working"
  /\ stage' = [r \in Requests |-> IF r \in served THEN "finished" ELSE stage[r]]
  /\ UNCHANGED <<asker, blocked, closed>>

Vanish(r) ==
  /\ stage[r] = "finished"
  /\ stage' = [stage EXCEPT ![r] = "vanished"]
  /\ UNCHANGED <<asker, blocked, closed>>

\* The return of the awaited request releases its front-end, and may still do so
\* while the server is stopping.
Return(r) ==
  /\ stage[r] = "finished"
  /\ blocked[asker[r]] = r
  /\ stage' = [stage EXCEPT ![r] = "returned"]
  /\ blocked' = [blocked EXCEPT ![asker[r]] = None]
  /\ UNCHANGED <<asker, closed>>

GiveUp(f) ==
  /\ closed
  /\ blocked' = [blocked EXCEPT ![f] = None]
  /\ UNCHANGED <<stage, asker, closed>>

Close ==
  /\ closed' = TRUE
  /\ UNCHANGED <<stage, asker, blocked>>

Next ==
  \/ \E f \in FrontEnds, r \in Requests : Ask(f, r)
  \/ \E r \in Requests : Accept(r) \/ Vanish(r) \/ Return(r)
  \/ \E served \in SUBSET Requests : Answer(served)
  \/ \E f \in FrontEnds : GiveUp(f)
  \/ Close

Spec == Init /\ [][Next]_vars
=============================================================================
