------------------------------ MODULE PathService ------------------------------
(***************************************************************************)
(* What the application manager promises about the paths between threads:  *)
(* asking for one takes effect at once, there is one between a front-end   *)
(* and the back-end, everybody is given that one, and when the back-end    *)
(* fetches it knows them all.  There is no list, no count and no mutex.    *)
(***************************************************************************)
EXTENDS Integers

CONSTANTS Fronts, Back

VARIABLES
  paths,  \* the paths there are: whose, and which pair of sockets
  given,  \* what each thread was given and has not put in its cache yet
  knows   \* the paths each thread uses

vars == <<paths, given, knows>>

Threads == Fronts \cup {Back}

Init ==
  /\ paths = {}
  /\ given = [t \in Threads |-> {}]
  /\ knows = [t \in Threads |-> {}]

\* A thread asks for a path between front-end f and the back-end; if there is
\* none yet, there is one now, with sockets no other path has.
Give(t, f) ==
  /\ t \in {f, Back}
  /\ given[t] = {}
  /\ ~\E q \in knows[t] : q.front = f
  /\ \E p \in paths' :
       /\ p.front = f /\ p.pair \in Nat
       /\ \/ p \in paths
          \/ ~\E q \in paths : q.front = f \/ q.pair = p.pair
       /\ paths' = paths \cup {p}
       /\ given' = [given EXCEPT ![t] = {p}]
  /\ UNCHANGED knows

Keep(t) ==
  /\ given[t] # {}
  /\ knows' = [knows EXCEPT ![t] = @ \cup given[t]]
  /\ given' = [given EXCEPT ![t] = {}]
  /\ UNCHANGED paths

\* The back-end fetches what is new; it has no call of its own under way.
Fetch ==
  /\ given[Back] = {}
  /\ knows' = [knows EXCEPT ![Back] = paths]
  /\ UNCHANGED <<paths, given>>

Next ==
  \/ \E t \in Threads : Keep(t) \/ \E f \in Fronts : Give(t, f)
  \/ Fetch

Spec == Init /\ [][Next]_vars
=============================================================================
