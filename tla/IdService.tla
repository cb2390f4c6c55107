------------------------------ MODULE IdService ------------------------------
(***************************************************************************)
(* What the application manager's id generator promises to the threads     *)
(* that share it: every call takes effect at once. An id is the next one   *)
(* after the last; the ids wrap round; TWS's next valid id moves them up.  *)
(***************************************************************************)
EXTENDS Integers

CONSTANTS
  Width,  \* how many values an unsigned int has
  Valid   \* the ids TWS may announce

VARIABLES
  prev,   \* m_prev_id
  times,  \* how often each id was handed out
  laps    \* how often the ids wrapped round

vars == <<prev, times, laps>>

Ids == 0..(Width - 1)

\* unique_type_id_threadsafe_manager() subtracts one from the start id, 1, and
\* unique_type_id_manager() does so again: the first id is 0.
Init ==
  /\ prev = Width - 1
  /\ times = [id \in Ids |-> 0]
  /\ laps = 0

\* obtain_unique_id()
Obtain ==
  LET id == (prev + 1) % Width
  IN  /\ prev' = id
      /\ times' = [times EXCEPT ![id] = @ + 1]
      /\ laps' = IF id = 0 THEN laps + 1 ELSE laps

\* update_unique_id()
Update(id) ==
  /\ prev < id
  /\ prev' = id
  /\ UNCHANGED <<times, laps>>

Next == Obtain \/ \E id \in Valid : Update(id)

Spec == Init /\ [][Next]_vars
=============================================================================
