----------------------------- MODULE Tier2Proofs -----------------------------
(***************************************************************************)
(* Proofs about the message layer, for any number of front-ends and of     *)
(* messages and any number of lost connections, in three parts.            *)
(*                                                                         *)
(* Owners.  Placed says of every single message where it is, who owns it,  *)
(* who created it and in which lists it stands, by its state. It is        *)
(* inductive, and the invariants about owners, sockets and marks follow.   *)
(*                                                                         *)
(* Answers.  The message that arrives at a blocked front-end is the one it *)
(* waits for, no reply is given without it, every request that awaits the  *)
(* time has an answer to come; the response object of a callback is gone   *)
(* before the next one, and memory is freed by its creator only.           *)
(*                                                                         *)
(* Service.  The message layer implements TwsService: every step of the    *)
(* two threads moves one request on by one stage, answers some, or leaves  *)
(* all stages as they are.                                                 *)
(***************************************************************************)
EXTENDS Tier2, FiniteSetTheorems, SequenceTheorems, TLAPS

-----------------------------------------------------------------------------
(* Queues *)

\* Appending adds one member; a new one keeps the members distinct.
LEMMA AppendMembers ==
  ASSUME NEW S, NEW q \in Seq(S), NEW x \in S
  PROVE  /\ Append(q, x) \in Seq(S)
         /\ Range(Append(q, x)) = Range(q) \cup {x}
         /\ IsInjective(q) /\ x \notin Range(q) => IsInjective(Append(q, x))
<1> DEFINE a == Append(q, x)
<1>1. /\ a \in Seq(S)
      /\ DOMAIN a = 1..(Len(q) + 1)
      /\ DOMAIN q = 1..Len(q)
      /\ Len(q) \in Nat
      /\ \A i \in 1..Len(q) : a[i] = q[i]
      /\ a[Len(q) + 1] = x
  OBVIOUS
<1> HIDE DEF a
<1>2. Range(a) = Range(q) \cup {x}
  <2>1. ASSUME NEW y \in Range(a) PROVE y \in Range(q) \cup {x}
    <3>1. PICK i \in DOMAIN a : y = a[i]
      BY <2>1 DEF Range
    <3>2. CASE i \in 1..Len(q)
      BY <3>1, <3>2, <1>1 DEF Range
    <3>3. CASE i = Len(q) + 1
      BY <3>1, <3>3, <1>1
    <3> QED BY <3>2, <3>3, <1>1
  <2>2. ASSUME NEW y \in Range(q) PROVE y \in Range(a)
    <3>1. PICK i \in DOMAIN q : y = q[i]
      BY <2>2 DEF Range
    <3>2. i \in DOMAIN a /\ a[i] = y
      BY <3>1, <1>1
    <3> QED BY <3>2 DEF Range
  <2>3. x \in Range(a)
    <3>1. Len(q) + 1 \in DOMAIN a
      BY <1>1
    <3> QED BY <3>1, <1>1 DEF Range
  <2> QED BY <2>1, <2>2, <2>3
<1>3. IsInjective(q) /\ x \notin Range(q) => IsInjective(a)
  <2> SUFFICES ASSUME IsInjective(q), x \notin Range(q),
                      NEW i \in DOMAIN a, NEW j \in DOMAIN a, a[i] = a[j]
               PROVE  i = j
    BY DEF IsInjective
  <2>1. \A k \in 1..Len(q) : q[k] # x
    BY <1>1 DEF Range
  <2>2. CASE i \in 1..Len(q) /\ j \in 1..Len(q)
    BY <2>2, <1>1 DEF IsInjective
  <2>3. CASE i = Len(q) + 1 \/ j = Len(q) + 1
    BY <2>1, <2>3, <1>1
  <2> QED BY <2>2, <2>3, <1>1
<1> QED BY <1>1, <1>2, <1>3 DEF a

\* Removing the head of a queue without repetition removes that member only.
LEMMA TailMembers ==
  ASSUME NEW S, NEW q \in Seq(S), q # <<>>, IsInjective(q)
  PROVE  /\ Head(q) \in S
         /\ Head(q) \in Range(q)
         /\ Tail(q) \in Seq(S)
         /\ IsInjective(Tail(q))
         /\ Range(Tail(q)) = Range(q) \ {Head(q)}
<1> DEFINE t == Tail(q)
<1>1. /\ Head(q) = q[1]
      /\ Head(q) \in S
      /\ t \in Seq(S)
      /\ DOMAIN q = 1..Len(q)
      /\ DOMAIN t = 1..(Len(q) - 1)
      /\ Len(q) \in Nat /\ Len(q) >= 1
      /\ \A i \in 1..(Len(q) - 1) : t[i] = q[i + 1]
  BY HeadTailProperties, EmptySeq, LenProperties
<1> HIDE DEF t
<1>2. 1 \in DOMAIN q
  BY <1>1
<1>3. Head(q) \in Range(q)
  BY <1>1, <1>2 DEF Range
<1>4. IsInjective(t)
  <2> SUFFICES ASSUME NEW i \in DOMAIN t, NEW j \in DOMAIN t, t[i] = t[j]
               PROVE  i = j
    BY DEF IsInjective
  <2>1. i + 1 \in DOMAIN q /\ j + 1 \in DOMAIN q /\ q[i + 1] = q[j + 1]
    BY <1>1
  <2>2. i + 1 = j + 1
    BY <2>1 DEF IsInjective
  <2> QED BY <2>2, <1>1
<1>5. Range(t) = Range(q) \ {Head(q)}
  <2>1. ASSUME NEW y \in Range(t) PROVE y \in Range(q) \ {Head(q)}
    <3>1. PICK i \in DOMAIN t : y = t[i]
      BY <2>1 DEF Range
    <3>2. i + 1 \in DOMAIN q /\ i + 1 # 1 /\ y = q[i + 1]
      BY <3>1, <1>1
    <3>3. y # q[1]
      BY <3>2, <1>2 DEF IsInjective
    <3> QED BY <3>2, <3>3, <1>1 DEF Range
  <2>2. ASSUME NEW y \in Range(q), y # Head(q) PROVE y \in Range(t)
    <3>1. PICK i \in DOMAIN q : y = q[i]
      BY <2>2 DEF Range
    <3>2. i - 1 \in DOMAIN t /\ t[i - 1] = y
      BY <3>1, <2>2, <1>1
    <3> QED BY <3>2 DEF Range
  <2> QED BY <2>1, <2>2
<1> QED BY <1>1, <1>3, <1>4, <1>5 DEF t

\* Joining two queues joins their members; disjoint ones stay distinct.
LEMMA ConcatMembers ==
  ASSUME NEW S, NEW p \in Seq(S), NEW q \in Seq(S)
  PROVE  /\ p \o q \in Seq(S)
         /\ Range(p \o q) = Range(p) \cup Range(q)
         /\ IsInjective(p) /\ IsInjective(q) /\ Range(p) \cap Range(q) = {}
              => IsInjective(p \o q)
<1> DEFINE c == p \o q
<1>1. /\ c \in Seq(S)
      /\ Len(p) \in Nat /\ Len(q) \in Nat
      /\ DOMAIN p = 1..Len(p)
      /\ DOMAIN q = 1..Len(q)
      /\ DOMAIN c = 1..(Len(p) + Len(q))
      /\ \A i \in 1..Len(p) : c[i] = p[i]
      /\ \A i \in 1..Len(q) : c[Len(p) + i] = q[i]
      /\ \A i \in (Len(p) + 1)..(Len(p) + Len(q)) : c[i] = q[i - Len(p)]
  BY ConcatProperties, LenProperties
<1> HIDE DEF c
<1>2. Range(c) = Range(p) \cup Range(q)
  <2>1. ASSUME NEW y \in Range(c) PROVE y \in Range(p) \cup Range(q)
    <3>1. PICK i \in DOMAIN c : y = c[i]
      BY <2>1 DEF Range
    <3>2. CASE i \in 1..Len(p)
      BY <3>1, <3>2, <1>1 DEF Range
    <3>3. CASE i > Len(p)
      <4>1. i - Len(p) \in DOMAIN q /\ y = q[i - Len(p)]
        BY <3>1, <3>3, <1>1
      <4> QED BY <4>1 DEF Range
    <3> QED BY <3>2, <3>3, <1>1
  <2>2. ASSUME NEW y \in Range(p) PROVE y \in Range(c)
    <3>1. PICK i \in DOMAIN p : y = p[i]
      BY <2>2 DEF Range
    <3>2. i \in DOMAIN c /\ c[i] = y
      BY <3>1, <1>1
    <3> QED BY <3>2 DEF Range
  <2>3. ASSUME NEW y \in Range(q) PROVE y \in Range(c)
    <3>1. PICK i \in DOMAIN q : y = q[i]
      BY <2>3 DEF Range
    <3>2. Len(p) + i \in DOMAIN c /\ c[Len(p) + i] = y
      BY <3>1, <1>1
    <3> QED BY <3>2 DEF Range
  <2> QED BY <2>1, <2>2, <2>3
<1>3. IsInjective(p) /\ IsInjective(q) /\ Range(p) \cap Range(q) = {} => IsInjective(c)
  <2> SUFFICES ASSUME IsInjective(p), IsInjective(q), Range(p) \cap Range(q) = {},
                      NEW i \in DOMAIN c, NEW j \in DOMAIN c, c[i] = c[j]
               PROVE  i = j
    BY DEF IsInjective
  <2>1. ASSUME NEW a \in 1..Len(p), NEW b \in 1..Len(q) PROVE p[a] # q[b]
    BY <1>1 DEF Range
  <2>2. CASE i \in 1..Len(p) /\ j \in 1..Len(p)
    BY <2>2, <1>1 DEF IsInjective
  <2>3. CASE i > Len(p) /\ j > Len(p)
    <3>1. /\ i - Len(p) \in DOMAIN q /\ j - Len(p) \in DOMAIN q
          /\ c[i] = q[i - Len(p)]
      BY <2>3, <1>1
    <3>2. c[j] = q[j - Len(p)]
      BY <2>3, <1>1
    <3>3. q[i - Len(p)] = q[j - Len(p)]
      BY <3>1, <3>2
    <3>4. i - Len(p) = j - Len(p)
      BY <3>1, <3>3 DEF IsInjective
    <3> QED BY <3>4, <1>1
  <2>4. CASE i \in 1..Len(p) /\ j > Len(p)
    <3>1. j - Len(p) \in 1..Len(q) /\ c[j] = q[j - Len(p)] /\ c[i] = p[i]
      BY <2>4, <1>1
    <3> QED BY <3>1, <2>1, <2>4
  <2>5. CASE i > Len(p) /\ j \in 1..Len(p)
    <3>1. i - Len(p) \in 1..Len(q) /\ c[i] = q[i - Len(p)] /\ c[j] = p[j]
      BY <2>5, <1>1
    <3> QED BY <3>1, <2>1, <2>5
  <2> QED BY <2>2, <2>3, <2>4, <2>5, <1>1
<1> QED BY <1>1, <1>2, <1>3 DEF c

\* The empty queue has no members.
LEMMA EmptyMembers ==
  /\ Range(<<>>) = {}
  /\ IsInjective(<<>>)
  /\ \A S : <<>> \in Seq(S)
BY DEF Range, IsInjective

-----------------------------------------------------------------------------
(* Owners *)

\* Sockets and lists of marks do not repeat a message.
NoRepetition ==
  /\ \A f \in FrontEnds : IsInjective(toBE[f]) /\ IsInjective(toFE[f])
  /\ \A p \in Procs : IsInjective(pulsing[p])

\* Owner, requester and state of a message fit each other. A front-end's
\* request is only ever in the states of the current-time request.
Ownership ==
  \A m \in Msgs :
    /\ \A p \in Procs : m \in owned[p] <=> owner[m] = p
    /\ state[m] = "free" => owner[m] = None /\ requester[m] = None /\ m \notin lost
    /\ state[m] # "free" => requester[m] \in Procs
    /\ requester[m] \in FrontEnds =>
         state[m] \in {"EXEC_COMMAND", "READY_TO_RECEIVE_RESPONSE",
                       "RESPONSE_COMPLETE", "FAILED"}
    /\ m \in lost => owner[m] = None

\* What is in a socket is an unowned request of that front-end, to be executed
\* on its way out and finished on its way back.
Sockets ==
  \A f \in FrontEnds, m \in Msgs :
    /\ m \in Range(toBE[f]) \cup Range(toFE[f]) =>
         requester[m] = f /\ owner[m] = None /\ m \notin lost
    /\ m \in Range(toBE[f]) => state[m] = "EXEC_COMMAND"
    /\ m \in Range(toFE[f]) => state[m] \in {"RESPONSE_COMPLETE", "FAILED"}

\* Only the owner marks a message, and the back-end marks a front-end's request
\* only when it is finished.
Marks ==
  \A p \in Procs, m \in Msgs :
    m \in Range(pulsing[p]) =>
      /\ owner[m] = p
      /\ p = BE /\ requester[m] \in FrontEnds => state[m] \in TStates

\* Nobody's message is on its way, or was dropped by a write.
Limbo ==
  \A m \in Msgs : state[m] # "free" /\ owner[m] = None =>
    m \in lost \/ \E f \in FrontEnds : m \in Range(toBE[f]) \cup Range(toFE[f])

\* A message whose owner has to pass it on or delete it is marked.
Due ==
  \A m \in Msgs :
    /\ \A f \in FrontEnds : owner[m] = f =>
         /\ requester[m] = f
         /\ state[m] \in RStates => m \in Range(pulsing[f])
    /\ /\ owner[m] = BE
       /\ \/ state[m] = "DESTRUCTION"
          \/ state[m] \in TStates /\ requester[m] # BE
       => m \in Range(pulsing[BE])

Placed == TypeOK /\ NoRepetition /\ Ownership /\ Sockets /\ Marks /\ Limbo /\ Due

-----------------------------------------------------------------------------
(* What the list primitives do *)

\* queue_msg_for_pulsing() adds the message and keeps the list free of repetition.
LEMMA QueuedMembers ==
  ASSUME NEW S, NEW q \in Seq(S), NEW x \in S
  PROVE  /\ Queued(q, x) \in Seq(S)
         /\ Range(Queued(q, x)) = Range(q) \cup {x}
         /\ IsInjective(q) => IsInjective(Queued(q, x))
BY AppendMembers DEF Queued

\* A queue of messages holds messages.
LEMMA QueueOf ==
  ASSUME NEW S, NEW q \in Seq(S)
  PROVE  Range(q) \subseteq S
BY DEF Range

\* Everything that is in a list or a socket is a message.
LEMMA ListsHoldMessages ==
  ASSUME TypeOK
  PROVE  /\ \A p \in Procs : Range(pulsing[p]) \subseteq Msgs
         /\ \A f \in FrontEnds : /\ Range(toBE[f]) \subseteq Msgs
                                 /\ Range(toFE[f]) \subseteq Msgs
<1>1. \A p \in Procs : pulsing[p] \in Seq(Msgs)
  BY DEF TypeOK
<1>2. \A f \in FrontEnds : toBE[f] \in Seq(Msgs) /\ toFE[f] \in Seq(Msgs)
  BY DEF TypeOK
<1> QED BY <1>1, <1>2, QueueOf

\* An order of a finite set lists its members, each once.
LEMMA OrderMembers ==
  ASSUME NEW T, NEW S \in SUBSET T, IsFiniteSet(S), NEW s \in Orders(S)
  PROVE  s \in Seq(T) /\ Range(s) = S /\ IsInjective(s)
<1>1. Cardinality(S) \in Nat
  BY FS_CardinalityType
<1>2. s \in [1..Cardinality(S) -> T]
  BY DEF Orders
<1>3. s \in Seq(T)
  BY <1>1, <1>2
<1> QED BY <1>3 DEF Orders

\* Entering a state marks the message in the thread's own list, or nowhere.
LEMMA EnterMarks ==
  ASSUME TypeOK, NEW p \in Procs, NEW m \in Msgs, NEW s, Enter(p, m, s)
  PROVE  /\ pulsing' \in [Procs -> Seq(Msgs)]
         /\ \A r \in Procs \ {p} : pulsing'[r] = pulsing[r]
         /\ Range(pulsing'[p]) = Range(pulsing[p])
                                  \cup (IF NeedsPulse(m, p, s) THEN {m} ELSE {})
         /\ IsInjective(pulsing[p]) => IsInjective(pulsing'[p])
<1>1. /\ pulsing \in [Procs -> Seq(Msgs)]
      /\ pulsing[p] \in Seq(Msgs)
  BY DEF TypeOK
<1>2. CASE NeedsPulse(m, p, s)
  <2>1. pulsing' = [pulsing EXCEPT ![p] = Queued(@, m)]
    BY <1>2 DEF Enter
  <2>2. Queued(pulsing[p], m) \in Seq(Msgs)
    BY <1>1, QueuedMembers
  <2>3. pulsing'[p] = Queued(pulsing[p], m)
    BY <1>1, <2>1
  <2> QED BY <1>1, <1>2, <2>1, <2>2, <2>3, QueuedMembers
<1>3. CASE ~NeedsPulse(m, p, s)
  BY <1>1, <1>3 DEF Enter
<1> QED BY <1>2, <1>3

-----------------------------------------------------------------------------
(* The invariants that Placed implies *)

LEMMA PlacedImplies ==
  ASSUME Placed
  PROVE  /\ OneOwner /\ OnePointer /\ MarkedIsOwned /\ PipesCarryTheirOwn
         /\ LimboIsTransfer /\ HandOverPending
<1> USE DEF Placed
<1>1. \A f \in FrontEnds : Range(toBE[f]) \subseteq Msgs /\ Range(toFE[f]) \subseteq Msgs
  BY ListsHoldMessages
<1>2. \A f \in FrontEnds : \A m \in InPipe(f) :
        m \in Msgs /\ requester[m] = f /\ owner[m] = None /\ m \notin lost /\ state[m] # "free"
  BY <1>1 DEF InPipe, Sockets
<1>3. OneOwner
  BY <1>2 DEF OneOwner, Ownership, InTransit
<1>4. OnePointer
  <2>1. \A f \in FrontEnds : Range(toBE[f]) \cap Range(toFE[f]) = {}
    BY <1>1 DEF Sockets
  <2>2. \A f \in FrontEnds : \A g \in FrontEnds \ {f} : InPipe(f) \cap InPipe(g) = {}
    BY <1>2
  <2> QED BY <1>2, <2>1, <2>2 DEF OnePointer, NoRepetition
<1>5. MarkedIsOwned
  BY ListsHoldMessages DEF MarkedIsOwned, NoRepetition, Marks, Ownership
<1>6. PipesCarryTheirOwn
  BY <1>1, <1>2 DEF PipesCarryTheirOwn, Sockets
<1>7. LimboIsTransfer
  BY DEF LimboIsTransfer, Limbo, InTransit, InPipe
<1>8. HandOverPending
  BY Tier2Assumption DEF HandOverPending, Due, Ownership, Procs, RStates, TStates
<1> QED BY <1>3, <1>4, <1>5, <1>6, <1>7, <1>8

-----------------------------------------------------------------------------
(* Placed is inductive *)

LEMMA PlacedInit == Init => Placed
<1> SUFFICES ASSUME Init PROVE Placed
  OBVIOUS
<1>1. TypeOK
  <2>1. /\ pulsing \in [Procs -> Seq(Msgs)]
        /\ toBE \in [FrontEnds -> Seq(Msgs)]
        /\ toFE \in [FrontEnds -> Seq(Msgs)]
        /\ senders \in Seq(FrontEnds)
    BY EmptyMembers DEF Init
  <2>2. /\ requester \in [Msgs -> Procs \cup {None}]
        /\ state \in [Msgs -> States]
        /\ owner \in [Msgs -> Procs \cup {None}]
        /\ owned \in [Procs -> SUBSET Msgs]
        /\ waiting \in [FrontEnds -> Msgs \cup {None}]
        /\ lost \subseteq Msgs /\ paths \subseteq FrontEnds
    BY DEF Init, States
  <2>3. phase \in Phases /\ stopped \in BOOLEAN
    BY DEF Init, Phases
  <2>4. owed \in Nat /\ drops \in 0..MaxDrops
    BY Tier2Assumption DEF Init
  <2> QED BY <2>1, <2>2, <2>3, <2>4 DEF TypeOK
<1>2. /\ \A p \in Procs : owned[p] = {} /\ pulsing[p] = <<>>
      /\ \A f \in FrontEnds : toBE[f] = <<>> /\ toFE[f] = <<>>
      /\ \A m \in Msgs : state[m] = "free" /\ owner[m] = None /\ requester[m] = None
      /\ lost = {}
      /\ BE \in Procs /\ None \notin Procs
      /\ FrontEnds \subseteq Procs
  BY Tier2Assumption DEF Init, Procs
<1>3. NoRepetition /\ Marks
  BY <1>2, EmptyMembers DEF NoRepetition, Marks
<1>4. Ownership
  BY <1>2 DEF Ownership
<1>5. Sockets
  BY <1>2, EmptyMembers DEF Sockets
<1>6. Limbo /\ Due
  BY <1>2 DEF Limbo, Due
<1> QED BY <1>1, <1>3, <1>4, <1>5, <1>6 DEF Placed

\* The front-end creates a request and hands it over, or fails to.
LEMMA PlacedFeRequest ==
  ASSUME Placed, NEW f \in FrontEnds, NEW m \in Msgs, FeRequest(f, m)
  PROVE  Placed'
<1> USE DEF Placed
<1>1. /\ \A g \in FrontEnds \ {f} : toBE'[g] = toBE[g]
      /\ \A n \in Msgs \ {m} : state'[n] = state[n] /\ requester'[n] = requester[n]
      /\ state'[m] = "EXEC_COMMAND" /\ requester'[m] = f
      /\ state[m] = "free" /\ owner[m] = None /\ m \notin lost
      /\ UNCHANGED <<toFE, owner, owned, pulsing, lost>>
      /\ f \in Procs /\ BE \in Procs /\ f # BE /\ None \notin Procs
  BY Tier2Assumption DEF FeRequest, BeginRequest, TypeOK, Ownership, Procs
<1>2. /\ toBE'[f] \in Seq(Msgs)
      /\ Range(toBE'[f]) = Range(toBE[f]) \cup {m}
      /\ IsInjective(toBE[f]) /\ m \notin Range(toBE[f]) => IsInjective(toBE'[f])
  <2>1. toBE[f] \in Seq(Msgs) /\ toBE'[f] = Append(toBE[f], m)
    BY DEF FeRequest, TypeOK
  <2> QED BY <2>1, AppendMembers
<1>3. TypeOK'
  BY <1>2, Tier2Assumption DEF FeRequest, BeginRequest, TypeOK, Procs, States, RStates
<1>4. m \notin Range(toBE[f])
  BY <1>1 DEF Sockets
<1>5. NoRepetition'
  BY <1>1, <1>2, <1>4 DEF NoRepetition
<1>6. Ownership'
  BY <1>1 DEF Ownership
<1>7. Sockets'
  BY <1>1, <1>2 DEF Sockets
<1>8. Marks'
  BY <1>1 DEF Marks
<1>9. Limbo'
  BY <1>1, <1>2 DEF Limbo
<1>10. Due'
  <2>1. \A g \in FrontEnds : g # None
    BY Tier2Assumption
  <2>2. ASSUME NEW n \in Msgs, n # m
        PROVE  /\ state'[n] = state[n] /\ requester'[n] = requester[n]
               /\ owner'[n] = owner[n] /\ pulsing' = pulsing
    BY <1>1, <2>2
  <2>3. owner'[m] = None /\ None # BE
    BY <1>1
  <2> QED BY <2>1, <2>2, <2>3 DEF Due
<1> QED BY <1>3, <1>5, <1>6, <1>7, <1>8, <1>9, <1>10

LEMMA PlacedFeRequestFailed ==
  ASSUME Placed, NEW f \in FrontEnds, NEW m \in Msgs, FeRequestFailed(f, m)
  PROVE  Placed'
<1> USE DEF Placed
<1>1. /\ \A p \in Procs \ {f} : pulsing'[p] = pulsing[p] /\ owned'[p] = owned[p]
      /\ \A n \in Msgs \ {m} : /\ state'[n] = state[n] /\ requester'[n] = requester[n]
                              /\ owner'[n] = owner[n]
      /\ state'[m] = "EXEC_COMMAND" /\ requester'[m] = f /\ owner'[m] = f
      /\ owned'[f] = owned[f] \cup {m}
      /\ state[m] = "free" /\ owner[m] = None /\ m \notin lost
      /\ UNCHANGED <<toBE, toFE, lost>>
      /\ f \in Procs /\ BE \in Procs /\ f # BE /\ None \notin Procs
  BY Tier2Assumption DEF FeRequestFailed, BeginRequest, TypeOK, Ownership, Procs
<1>2. /\ pulsing'[f] \in Seq(Msgs)
      /\ Range(pulsing'[f]) = Range(pulsing[f]) \cup {m}
      /\ IsInjective(pulsing[f]) /\ m \notin Range(pulsing[f]) => IsInjective(pulsing'[f])
  <2>1. pulsing[f] \in Seq(Msgs) /\ pulsing'[f] = Append(pulsing[f], m)
    BY <1>1 DEF FeRequestFailed, TypeOK
  <2> QED BY <2>1, AppendMembers
<1>3. TypeOK'
  BY <1>2, Tier2Assumption
     DEF FeRequestFailed, BeginRequest, TypeOK, Procs, States, RStates
<1>4. m \notin Range(pulsing[f])
  BY <1>1 DEF Marks
<1>5. NoRepetition'
  BY <1>1, <1>2, <1>4 DEF NoRepetition
<1>6. Ownership'
  BY <1>1 DEF Ownership
<1>7. Sockets'
  BY <1>1 DEF Sockets
<1>8. Marks'
  BY <1>1, <1>2 DEF Marks
<1>9. Limbo'
  BY <1>1 DEF Limbo
<1>10. Due'
  <2>1. \A g \in FrontEnds : g \in Procs /\ g # BE
    BY Tier2Assumption DEF Procs
  <2>2. \A p \in Procs : Range(pulsing[p]) \subseteq Range(pulsing'[p])
    BY <1>1, <1>2
  <2>3. ASSUME NEW n \in Msgs, n # m
        PROVE  /\ state'[n] = state[n] /\ requester'[n] = requester[n]
               /\ owner'[n] = owner[n]
    BY <1>1, <2>3
  <2>4. /\ owner'[m] = f /\ requester'[m] = f /\ m \in Range(pulsing'[f])
        /\ f # BE /\ BE \in Procs
    BY <1>1, <1>2
  <2> QED BY <2>1, <2>2, <2>3, <2>4 DEF Due
<1> QED BY <1>3, <1>5, <1>6, <1>7, <1>8, <1>9, <1>10

LEMMA PlacedFeRequestVanished ==
  ASSUME Placed, NEW f \in FrontEnds, NEW m \in Msgs, FeRequestVanished(f, m)
  PROVE  Placed'
<1> USE DEF Placed
<1>1. /\ \A n \in Msgs \ {m} : state'[n] = state[n] /\ requester'[n] = requester[n]
      /\ state'[m] = "EXEC_COMMAND" /\ requester'[m] = f
      /\ state[m] = "free" /\ owner[m] = None
      /\ lost' = lost \cup {m}
      /\ UNCHANGED <<owner, owned, pulsing, toBE, toFE>>
      /\ f \in Procs /\ BE \in Procs /\ f # BE /\ None \notin Procs
  BY Tier2Assumption DEF FeRequestVanished, BeginRequest, TypeOK, Ownership, Procs
<1>2. TypeOK'
  BY Tier2Assumption DEF FeRequestVanished, BeginRequest, TypeOK, Procs, States, RStates
<1>3. NoRepetition' /\ Ownership'
  BY <1>1 DEF NoRepetition, Ownership
<1>4. Sockets' /\ Marks'
  BY <1>1 DEF Sockets, Marks
<1>5. Limbo'
  BY <1>1 DEF Limbo
<1>6. Due'
  <2>1. \A g \in FrontEnds : g # None
    BY Tier2Assumption
  <2>2. ASSUME NEW n \in Msgs, n # m
        PROVE  /\ state'[n] = state[n] /\ requester'[n] = requester[n]
               /\ owner'[n] = owner[n] /\ pulsing' = pulsing
    BY <1>1, <2>2
  <2>3. owner'[m] = None /\ None # BE
    BY <1>1
  <2> QED BY <2>1, <2>2, <2>3 DEF Due
<1> QED BY <1>2, <1>3, <1>4, <1>5, <1>6

\* A front-end pops a finished request of its own: it need not pass it on.
LEMMA PlacedFePop ==
  ASSUME Placed, NEW f \in FrontEnds, FePop(f)
  PROVE  Placed'
<1> USE DEF Placed
<1> DEFINE m == Head(toFE[f])
<1>1. /\ m \in Msgs /\ m \in Range(toFE[f])
      /\ Tail(toFE[f]) \in Seq(Msgs)
      /\ IsInjective(Tail(toFE[f]))
      /\ Range(Tail(toFE[f])) = Range(toFE[f]) \ {m}
  BY TailMembers DEF FePop, TypeOK, NoRepetition
<1>2. Receive(f, m, state[m]) /\ toFE' = [toFE EXCEPT ![f] = Tail(@)]
  BY DEF FePop
<1> HIDE DEF m
<1>3. /\ requester[m] = f /\ owner[m] = None
      /\ state[m] \in {"RESPONSE_COMPLETE", "FAILED"}
      /\ m \notin lost
      /\ f \in Procs /\ BE \in Procs /\ f # BE /\ None \notin Procs
  BY <1>1, Tier2Assumption DEF Sockets, Procs
<1>4. pulsing' = pulsing
  BY <1>2, <1>3 DEF Receive, Enter, NeedsPulse, Responsible, RStates
<1>5. /\ \A n \in Msgs \ {m} : owner'[n] = owner[n]
      /\ \A p \in Procs \ {f} : owned'[p] = owned[p]
      /\ \A g \in FrontEnds \ {f} : toFE'[g] = toFE[g]
      /\ toFE'[f] = Tail(toFE[f])
      /\ owner'[m] = f /\ owned'[f] = owned[f] \cup {m}
      /\ state' = state
      /\ UNCHANGED <<requester, toBE, lost>>
  BY <1>1, <1>2, <1>3 DEF Receive, Enter, TypeOK, FePop
<1>6. TypeOK'
  BY <1>1, <1>2, <1>3, <1>4, <1>5 DEF FePop, Receive, TypeOK
<1>7. NoRepetition'
  BY <1>1, <1>4, <1>5 DEF NoRepetition
<1>8. Ownership'
  BY <1>1, <1>3, <1>5 DEF Ownership
<1>9. \A g \in FrontEnds : m \notin Range(toBE'[g]) /\ m \notin Range(toFE'[g])
  BY <1>1, <1>3, <1>5 DEF Sockets
<1>10. Sockets'
  BY <1>1, <1>5, <1>9 DEF Sockets
<1>11. Marks'
  BY <1>1, <1>3, <1>4, <1>5 DEF Marks
<1>12. Limbo'
  BY <1>1, <1>3, <1>5 DEF Limbo
<1>13. Due'
  BY <1>1, <1>3, <1>4, <1>5 DEF Due, RStates
<1> QED BY <1>6, <1>7, <1>8, <1>10, <1>11, <1>12, <1>13

\* Steps that touch no message.
LEMMA PlacedUnchanged ==
  ASSUME Placed, msgVars' = msgVars,
         paths' \subseteq FrontEnds, senders' \in Seq(FrontEnds),
         waiting' \in [FrontEnds -> Msgs \cup {None}],
         phase' \in Phases, owed' \in Nat, drops' \in 0..MaxDrops, stopped' \in BOOLEAN
  PROVE  Placed'
<1> USE DEF Placed, msgVars
<1>1. TypeOK'
  BY DEF TypeOK
<1>2. NoRepetition' /\ Ownership'
  BY DEF NoRepetition, Ownership
<1>3. Sockets' /\ Marks'
  BY DEF Sockets, Marks
<1>4. Limbo' /\ Due'
  BY DEF Limbo, Due
<1> QED BY <1>1, <1>2, <1>3, <1>4

\* The back-end pops a command, which leaves it awaiting its answer or failed.
LEMMA PlacedBePop ==
  ASSUME Placed, NEW f \in FrontEnds, NEW s \in {"READY_TO_RECEIVE_RESPONSE", "FAILED"},
         BePop(f), Receive(BE, Head(toBE[f]), s), owed' \in Nat
  PROVE  Placed'
<1> USE DEF Placed
<1> DEFINE m == Head(toBE[f])
<1>1. /\ m \in Msgs /\ m \in Range(toBE[f])
      /\ Tail(toBE[f]) \in Seq(Msgs)
      /\ IsInjective(Tail(toBE[f]))
      /\ Range(Tail(toBE[f])) = Range(toBE[f]) \ {m}
  BY TailMembers DEF BePop, FirstWithMail, HasMail, TypeOK, NoRepetition
<1>2. Receive(BE, m, s) /\ toBE' = [toBE EXCEPT ![f] = Tail(@)]
  BY DEF BePop
<1> HIDE DEF m
<1>3. /\ requester[m] = f /\ owner[m] = None
      /\ m \notin lost
      /\ f \in Procs /\ BE \in Procs /\ f # BE /\ None \notin Procs
  BY <1>1, Tier2Assumption DEF Sockets, Procs
<1>4. Enter(BE, m, s)
  BY <1>2 DEF Receive
<1>5. /\ pulsing' \in [Procs -> Seq(Msgs)]
      /\ \A r \in Procs \ {BE} : pulsing'[r] = pulsing[r]
      /\ Range(pulsing'[BE]) = Range(pulsing[BE]) \cup (IF s = "FAILED" THEN {m} ELSE {})
      /\ IsInjective(pulsing[BE]) => IsInjective(pulsing'[BE])
  BY <1>1, <1>3, <1>4, EnterMarks DEF NeedsPulse, Responsible, RStates
<1>6. /\ \A n \in Msgs \ {m} : owner'[n] = owner[n] /\ state'[n] = state[n]
      /\ \A p \in Procs \ {BE} : owned'[p] = owned[p]
      /\ \A g \in FrontEnds \ {f} : toBE'[g] = toBE[g]
      /\ toBE'[f] = Tail(toBE[f])
      /\ owner'[m] = BE /\ owned'[BE] = owned[BE] \cup {m} /\ state'[m] = s
      /\ UNCHANGED <<requester, toFE, lost>>
  BY <1>1, <1>2, <1>3, <1>4 DEF Receive, Enter, TypeOK, BePop
<1>7. TypeOK'
  BY <1>1, <1>2, <1>3, <1>4, <1>5 DEF BePop, Receive, Enter, AfterPop, TypeOK,
                                      Phases, States, RStates, TStates
<1>8. NoRepetition'
  BY <1>1, <1>5, <1>6 DEF NoRepetition
<1>9. Ownership'
  BY <1>1, <1>3, <1>6 DEF Ownership
<1>10. \A g \in FrontEnds : m \notin Range(toBE'[g]) /\ m \notin Range(toFE'[g])
  BY <1>1, <1>3, <1>6 DEF Sockets
<1>11. Sockets'
  BY <1>1, <1>6, <1>10 DEF Sockets
<1>12. \A p \in Procs : m \notin Range(pulsing[p])
  BY <1>1, <1>3 DEF Marks
<1>13. Marks'
  BY <1>1, <1>3, <1>5, <1>6, <1>12 DEF Marks, TStates
<1>14. Limbo'
  BY <1>1, <1>3, <1>6 DEF Limbo
<1>15. Due'
  <2>1. /\ \A g \in FrontEnds : g \in Procs \ {BE}
        /\ \A p \in Procs : Range(pulsing[p]) \subseteq Range(pulsing'[p])
    BY <1>3, <1>5, Tier2Assumption DEF Procs
  <2>2. ASSUME NEW n \in Msgs, n # m
        PROVE  /\ state'[n] = state[n] /\ requester'[n] = requester[n]
               /\ owner'[n] = owner[n]
    BY <1>6, <2>2
  <2>3. /\ owner'[m] = BE /\ BE \in Procs
        /\ state'[m] \in TStates => m \in Range(pulsing'[BE])
        /\ state'[m] # "DESTRUCTION"
    BY <1>3, <1>5, <1>6 DEF TStates
  <2> QED BY <2>1, <2>2, <2>3 DEF Due
<1> QED BY <1>7, <1>8, <1>9, <1>11, <1>13, <1>14, <1>15

\* The head of the back-end's list of marks.
LEMMA MarkedMembers ==
  ASSUME Placed, Pulsing
  PROVE  /\ Marked \in Msgs /\ Marked \in Range(pulsing[BE])
         /\ Tail(pulsing[BE]) \in Seq(Msgs)
         /\ IsInjective(Tail(pulsing[BE]))
         /\ Range(Tail(pulsing[BE])) = Range(pulsing[BE]) \ {Marked}
         /\ owner[Marked] = BE
         /\ state[Marked] # "free"
         /\ requester[Marked] \in Procs
         /\ BE \in Procs /\ BE \notin FrontEnds /\ None \notin Procs /\ FrontEnds \subseteq Procs
<1> USE DEF Placed
<1>1. BE \in Procs /\ BE \notin FrontEnds /\ None \notin Procs /\ FrontEnds \subseteq Procs
  BY Tier2Assumption DEF Procs
<1>2. /\ Marked \in Msgs /\ Marked \in Range(pulsing[BE])
      /\ Tail(pulsing[BE]) \in Seq(Msgs)
      /\ IsInjective(Tail(pulsing[BE]))
      /\ Range(Tail(pulsing[BE])) = Range(pulsing[BE]) \ {Marked}
  BY <1>1, TailMembers DEF Pulsing, Marked, TypeOK, NoRepetition
<1> QED BY <1>1, <1>2 DEF Marks, Ownership

\* A message that is posted is a finished request of a front-end.
LEMMA PostedIsFinished ==
  ASSUME Placed, BePost
  PROVE  /\ requester[Marked] \in FrontEnds
         /\ state[Marked] \in {"RESPONSE_COMPLETE", "FAILED"}
<1> USE DEF Placed
<1>1. /\ Marked \in Msgs /\ requester[Marked] \in Procs /\ BE \in Procs
      /\ Marked \in Range(pulsing[BE])
      /\ Responsible(Marked, state[Marked]) # BE
  BY MarkedMembers DEF BePost
<1>2. requester[Marked] \in FrontEnds
  BY <1>1 DEF Responsible, Procs
<1> QED BY <1>1, <1>2 DEF Marks, Ownership, TStates

LEMMA PlacedBePostSent ==
  ASSUME Placed, BePostSent
  PROVE  Placed'
<1> USE DEF Placed
<1> DEFINE m == Marked
           f == requester[m]
<1>1. Pulsing
  BY DEF BePostSent, BePost
<1>2. /\ m \in Msgs /\ m \in Range(pulsing[BE])
      /\ Tail(pulsing[BE]) \in Seq(Msgs)
      /\ IsInjective(Tail(pulsing[BE]))
      /\ Range(Tail(pulsing[BE])) = Range(pulsing[BE]) \ {m}
      /\ owner[m] = BE
      /\ BE \in Procs /\ BE \notin FrontEnds /\ None \notin Procs /\ FrontEnds \subseteq Procs
  BY <1>1, MarkedMembers
<1>3. f \in FrontEnds /\ state[m] \in {"RESPONSE_COMPLETE", "FAILED"}
  BY PostedIsFinished DEF BePostSent
<1>4. /\ pulsing' = [pulsing EXCEPT ![BE] = Tail(@)]
      /\ Release(BE, m)
      /\ toFE' = [toFE EXCEPT ![f] = Append(@, m)]
      /\ UNCHANGED <<requester, state, toBE, lost>>
      /\ UNCHANGED envVars
  BY DEF BePostSent, BePost, Unmark, envVars
<1> HIDE DEF m
<1>5. /\ toFE'[f] \in Seq(Msgs)
      /\ Range(toFE'[f]) = Range(toFE[f]) \cup {m}
      /\ IsInjective(toFE[f]) /\ m \notin Range(toFE[f]) => IsInjective(toFE'[f])
  <2>1. toFE[f] \in Seq(Msgs) /\ toFE'[f] = Append(toFE[f], m)
    BY <1>3, <1>4 DEF TypeOK
  <2> QED BY <1>2, <2>1, AppendMembers
<1>6. /\ \A n \in Msgs \ {m} : owner'[n] = owner[n]
      /\ \A p \in Procs \ {BE} : owned'[p] = owned[p] /\ pulsing'[p] = pulsing[p]
      /\ \A g \in FrontEnds \ {f} : toFE'[g] = toFE[g]
      /\ owner'[m] = None /\ owned'[BE] = owned[BE] \ {m}
      /\ pulsing'[BE] = Tail(pulsing[BE])
  BY <1>2, <1>3, <1>4 DEF Release, TypeOK
<1>7. TypeOK'
  BY <1>2, <1>3, <1>4, <1>5 DEF Release, TypeOK, envVars
<1>8. \A g \in FrontEnds : m \notin Range(toBE[g]) /\ m \notin Range(toFE[g])
  BY <1>2 DEF Sockets
<1>9. NoRepetition'
  BY <1>2, <1>3, <1>4, <1>5, <1>6, <1>8 DEF NoRepetition
<1>10. Ownership'
  BY <1>2, <1>3, <1>4, <1>6 DEF Ownership
<1>11. m \notin lost
  BY <1>2 DEF Ownership
<1>12. Sockets'
  <2>1. \A g \in FrontEnds : /\ m \notin Range(toBE'[g])
                            /\ m \in Range(toFE'[g]) => g = f
    BY <1>4, <1>6, <1>8
  <2>2. \A g \in FrontEnds, n \in Msgs \ {m} :
          /\ n \in Range(toBE'[g]) <=> n \in Range(toBE[g])
          /\ n \in Range(toFE'[g]) <=> n \in Range(toFE[g])
    BY <1>4, <1>5, <1>6
  <2> QED BY <1>3, <1>4, <1>6, <1>11, <2>1, <2>2 DEF Sockets
<1>13. Marks'
  BY <1>2, <1>4, <1>6 DEF Marks
<1>14. Limbo'
  BY <1>2, <1>3, <1>4, <1>5, <1>6 DEF Limbo
<1>15. Due'
  BY <1>2, <1>4, <1>6 DEF Due
<1> QED BY <1>7, <1>9, <1>10, <1>12, <1>13, <1>14, <1>15

LEMMA PlacedBePostFailed ==
  ASSUME Placed, BePostFailed
  PROVE  Placed'
<1> USE DEF Placed
<1>1. Pulsing
  BY DEF BePostFailed, BePost
<1>2. /\ pulsing' = [pulsing EXCEPT ![BE] = Append(Tail(@), Marked)]
      /\ UNCHANGED <<requester, state, owner, owned, toBE, toFE, lost>>
      /\ UNCHANGED <<paths, senders, waiting, owed, drops, stopped>>
      /\ phase' \in Phases
  BY DEF BePostFailed, BePost, TypeOK, Phases
<1>3. /\ pulsing'[BE] = Append(Tail(pulsing[BE]), Marked)
      /\ \A p \in Procs \ {BE} : pulsing'[p] = pulsing[p]
  BY <1>1, <1>2, MarkedMembers DEF TypeOK
<1>4. /\ pulsing'[BE] \in Seq(Msgs)
      /\ Range(pulsing'[BE]) = Range(pulsing[BE])
      /\ IsInjective(pulsing'[BE])
  <2> DEFINE t == Tail(pulsing[BE])
  <2>1. /\ t \in Seq(Msgs) /\ IsInjective(t) /\ Marked \in Msgs
        /\ Range(t) = Range(pulsing[BE]) \ {Marked}
        /\ Marked \in Range(pulsing[BE])
    BY <1>1, MarkedMembers
  <2>2. pulsing'[BE] = Append(t, Marked)
    BY <1>3
  <2> HIDE DEF t
  <2>3. /\ Append(t, Marked) \in Seq(Msgs)
        /\ Range(Append(t, Marked)) = Range(t) \cup {Marked}
        /\ IsInjective(Append(t, Marked))
    BY <2>1, AppendMembers
  <2> QED BY <2>1, <2>2, <2>3
<1>5. TypeOK'
  BY <1>2, <1>3, <1>4 DEF TypeOK
<1>6. NoRepetition' /\ Ownership'
  BY <1>2, <1>3, <1>4 DEF NoRepetition, Ownership
<1>7. Sockets' /\ Marks'
  BY <1>2, <1>3, <1>4 DEF Sockets, Marks
<1>8. Limbo' /\ Due'
  BY <1>2, <1>3, <1>4, Tier2Assumption DEF Limbo, Due, Procs
<1> QED BY <1>5, <1>6, <1>7, <1>8

LEMMA PlacedBePostVanished ==
  ASSUME Placed, BePostVanished
  PROVE  Placed'
<1> USE DEF Placed
<1> DEFINE m == Marked
<1>1. Pulsing
  BY DEF BePostVanished, BePost
<1>2. /\ m \in Msgs /\ m \in Range(pulsing[BE])
      /\ Tail(pulsing[BE]) \in Seq(Msgs)
      /\ IsInjective(Tail(pulsing[BE]))
      /\ Range(Tail(pulsing[BE])) = Range(pulsing[BE]) \ {m}
      /\ owner[m] = BE /\ state[m] # "free"
      /\ BE \in Procs /\ None \notin Procs
  BY <1>1, MarkedMembers
<1>3. /\ pulsing' = [pulsing EXCEPT ![BE] = Tail(@)]
      /\ Release(BE, m)
      /\ lost' = lost \cup {m}
      /\ UNCHANGED <<requester, state, toBE, toFE>>
      /\ UNCHANGED envVars
  BY DEF BePostVanished, BePost, Unmark, envVars
<1> HIDE DEF m
<1>4. /\ \A n \in Msgs \ {m} : owner'[n] = owner[n]
      /\ \A p \in Procs \ {BE} : owned'[p] = owned[p] /\ pulsing'[p] = pulsing[p]
      /\ owner'[m] = None /\ owned'[BE] = owned[BE] \ {m}
      /\ pulsing'[BE] = Tail(pulsing[BE])
  BY <1>2, <1>3 DEF Release, TypeOK
<1>5. TypeOK'
  BY <1>2, <1>3 DEF Release, TypeOK, envVars
<1>6. NoRepetition' /\ Ownership'
  BY <1>2, <1>3, <1>4 DEF NoRepetition, Ownership
<1>7. \A g \in FrontEnds : m \notin Range(toBE[g]) /\ m \notin Range(toFE[g])
  BY <1>2 DEF Sockets
<1>8. Sockets' /\ Marks'
  BY <1>2, <1>3, <1>4, <1>7 DEF Sockets, Marks
<1>9. Limbo'
  BY <1>2, <1>3, <1>4 DEF Limbo
<1>10. Due'
  BY <1>2, <1>3, <1>4, Tier2Assumption DEF Due, Procs
<1> QED BY <1>5, <1>6, <1>8, <1>9, <1>10

LEMMA PlacedBeDelete ==
  ASSUME Placed, BeDelete
  PROVE  Placed'
<1> USE DEF Placed
<1> DEFINE m == Marked
<1>1. Pulsing
  BY DEF BeDelete
<1>2. /\ m \in Msgs /\ m \in Range(pulsing[BE])
      /\ Tail(pulsing[BE]) \in Seq(Msgs)
      /\ IsInjective(Tail(pulsing[BE]))
      /\ Range(Tail(pulsing[BE])) = Range(pulsing[BE]) \ {m}
      /\ owner[m] = BE
      /\ BE \in Procs /\ BE \notin FrontEnds /\ None \notin Procs /\ FrontEnds \subseteq Procs
  BY <1>1, MarkedMembers
<1>3. /\ pulsing' = [pulsing EXCEPT ![BE] = Tail(@)]
      /\ Release(BE, m)
      /\ state' = [state EXCEPT ![m] = "free"]
      /\ requester' = [requester EXCEPT ![m] = None]
      /\ UNCHANGED <<toBE, toFE, lost>>
      /\ UNCHANGED envVars
  BY DEF BeDelete, Unmark
<1> HIDE DEF m
<1>4. /\ \A n \in Msgs \ {m} : /\ owner'[n] = owner[n] /\ state'[n] = state[n]
                              /\ requester'[n] = requester[n]
      /\ \A p \in Procs \ {BE} : owned'[p] = owned[p] /\ pulsing'[p] = pulsing[p]
      /\ owner'[m] = None /\ state'[m] = "free" /\ requester'[m] = None
      /\ owned'[BE] = owned[BE] \ {m}
      /\ pulsing'[BE] = Tail(pulsing[BE])
  BY <1>2, <1>3 DEF Release, TypeOK
<1>5. TypeOK'
  BY <1>2, <1>3 DEF Release, TypeOK, envVars, States
<1>6. NoRepetition'
  BY <1>2, <1>3, <1>4 DEF NoRepetition
<1>7. Ownership'
  BY <1>2, <1>3, <1>4 DEF Ownership
<1>8. \A g \in FrontEnds : m \notin Range(toBE[g]) /\ m \notin Range(toFE[g])
  BY <1>2 DEF Sockets
<1>9. Sockets'
  BY <1>2, <1>3, <1>4, <1>8 DEF Sockets
<1>10. Marks'
  BY <1>2, <1>3, <1>4 DEF Marks
<1>11. Limbo'
  BY <1>2, <1>3, <1>4 DEF Limbo
<1>12. Due'
  BY <1>2, <1>3, <1>4 DEF Due
<1> QED BY <1>5, <1>6, <1>7, <1>9, <1>10, <1>11, <1>12

LEMMA PlacedBePulseNothing ==
  ASSUME Placed, BePulseNothing
  PROVE  Placed'
<1> USE DEF Placed
<1>1. Pulsing
  BY DEF BePulseNothing
<1>2. /\ pulsing' = [pulsing EXCEPT ![BE] = Tail(@)]
      /\ UNCHANGED <<requester, state, owner, owned, toBE, toFE, lost>>
      /\ UNCHANGED envVars
  BY DEF BePulseNothing, Unmark
<1>3. /\ pulsing'[BE] = Tail(pulsing[BE])
      /\ \A p \in Procs \ {BE} : pulsing'[p] = pulsing[p]
      /\ Range(pulsing'[BE]) \subseteq Range(pulsing[BE])
  BY <1>1, <1>2, MarkedMembers DEF TypeOK
<1>4. TypeOK'
  BY <1>1, <1>2, <1>3, MarkedMembers DEF TypeOK, envVars
<1>5. NoRepetition' /\ Ownership'
  BY <1>1, <1>2, <1>3, MarkedMembers DEF NoRepetition, Ownership
<1>6. Sockets' /\ Marks'
  BY <1>2, <1>3 DEF Sockets, Marks
<1>7. Limbo'
  BY <1>2 DEF Limbo
<1>8. /\ state[Marked] # "DESTRUCTION"
      /\ state[Marked] \in TStates => requester[Marked] = BE
  BY DEF BePulseNothing, Responsible, RStates, TStates
<1>9. Due'
  <2>1. Range(pulsing'[BE]) = Range(pulsing[BE]) \ {Marked}
    BY <1>1, <1>3, MarkedMembers
  <2>2. \A g \in FrontEnds : pulsing'[g] = pulsing[g]
    BY <1>3, Tier2Assumption DEF Procs
  <2>3. UNCHANGED <<requester, state, owner>>
    BY <1>2
  <2>4. ASSUME NEW n \in Msgs, NEW g \in FrontEnds, owner'[n] = g
        PROVE  /\ requester'[n] = g
               /\ state'[n] \in RStates => n \in Range(pulsing'[g])
    BY <2>2, <2>3, <2>4 DEF Due
  <2>5. ASSUME NEW n \in Msgs, owner'[n] = BE,
               state'[n] = "DESTRUCTION" \/ (state'[n] \in TStates /\ requester'[n] # BE)
        PROVE  n \in Range(pulsing'[BE])
    BY <1>8, <2>1, <2>3, <2>5 DEF Due
  <2> QED BY <2>4, <2>5 DEF Due
<1> QED BY <1>4, <1>5, <1>6, <1>7, <1>9

\* A message of the back-end, in its hands, enters another state.
LEMMA PlacedEnter ==
  ASSUME Placed, NEW m \in Msgs, owner[m] = BE, requester[m] = BE, state[m] # "free",
         NEW s \in States \ {"free"}, Enter(BE, m, s),
         UNCHANGED <<requester, owner, owned, toBE, toFE, lost, envVars>>
  PROVE  Placed'
<1> USE DEF Placed
<1>1. BE \in Procs /\ BE \notin FrontEnds /\ None \notin Procs
  BY Tier2Assumption DEF Procs
<1>2. /\ pulsing' \in [Procs -> Seq(Msgs)]
      /\ \A r \in Procs \ {BE} : pulsing'[r] = pulsing[r]
      /\ Range(pulsing'[BE]) = Range(pulsing[BE]) \cup (IF NeedsPulse(m, BE, s) THEN {m} ELSE {})
      /\ IsInjective(pulsing[BE]) => IsInjective(pulsing'[BE])
  BY <1>1, EnterMarks
<1>3. state'[m] = s /\ \A n \in Msgs \ {m} : state'[n] = state[n]
  BY DEF Enter, TypeOK
<1>4. TypeOK'
  BY <1>2 DEF Enter, TypeOK, envVars
<1>5. NoRepetition'
  BY <1>2 DEF NoRepetition
<1>6. Ownership'
  BY <1>1, <1>3 DEF Ownership
<1>7. \A g \in FrontEnds : m \notin Range(toBE[g]) /\ m \notin Range(toFE[g])
  BY <1>1 DEF Sockets
<1>8. Sockets' /\ Marks'
  BY <1>1, <1>2, <1>3, <1>7 DEF Sockets, Marks
<1>9. Limbo'
  BY <1>1, <1>3 DEF Limbo
<1>10. Due'
  <2>1. /\ \A g \in FrontEnds : g \in Procs \ {BE}
        /\ \A p \in Procs : Range(pulsing[p]) \subseteq Range(pulsing'[p])
    BY <1>1, <1>2 DEF Procs
  <2>2. ASSUME NEW n \in Msgs, n # m
        PROVE  /\ state'[n] = state[n] /\ requester'[n] = requester[n]
               /\ owner'[n] = owner[n]
    BY <1>3, <2>2
  <2>3. /\ owner'[m] = BE /\ requester'[m] = BE /\ BE \in Procs
        /\ state'[m] = "DESTRUCTION" => m \in Range(pulsing'[BE])
    BY <1>1, <1>2, <1>3 DEF NeedsPulse
  <2> QED BY <2>1, <2>2, <2>3 DEF Due
<1> QED BY <1>4, <1>5, <1>6, <1>8, <1>9, <1>10

\* The back-end creates a message and marks it or not.
LEMMA PlacedCreate ==
  ASSUME Placed, NEW m \in Msgs, NEW s \in States \ {"free"}, Create(BE, m, s),
         \/ pulsing' = pulsing /\ s \in RStates
         \/ pulsing' = [pulsing EXCEPT ![BE] = Queued(@, m)],
         UNCHANGED <<toBE, toFE, lost, paths, senders, waiting, owed, drops, stopped>>,
         phase' \in Phases
  PROVE  Placed'
<1> USE DEF Placed
<1>1. /\ BE \in Procs /\ BE \notin FrontEnds /\ None \notin Procs
      /\ state[m] = "free" /\ owner[m] = None /\ m \notin lost
  BY Tier2Assumption DEF Procs, Create, Ownership
<1>2. /\ pulsing' \in [Procs -> Seq(Msgs)]
      /\ \A r \in Procs \ {BE} : pulsing'[r] = pulsing[r]
      /\ Range(pulsing[BE]) \subseteq Range(pulsing'[BE])
      /\ Range(pulsing'[BE]) \subseteq Range(pulsing[BE]) \cup {m}
      /\ s \in RStates \/ m \in Range(pulsing'[BE])
      /\ IsInjective(pulsing[BE]) => IsInjective(pulsing'[BE])
  <2>1. pulsing \in [Procs -> Seq(Msgs)] /\ pulsing[BE] \in Seq(Msgs)
    BY <1>1 DEF TypeOK
  <2>2. CASE pulsing' = pulsing /\ s \in RStates
    BY <2>1, <2>2
  <2>3. CASE pulsing' = [pulsing EXCEPT ![BE] = Queued(@, m)]
    <3>1. pulsing'[BE] = Queued(pulsing[BE], m)
      BY <1>1, <2>1, <2>3
    <3>2. /\ Queued(pulsing[BE], m) \in Seq(Msgs)
          /\ Range(Queued(pulsing[BE], m)) = Range(pulsing[BE]) \cup {m}
          /\ IsInjective(pulsing[BE]) => IsInjective(Queued(pulsing[BE], m))
      BY <2>1, QueuedMembers
    <3> QED BY <2>1, <2>3, <3>1, <3>2
  <2> QED BY <2>2, <2>3
<1>3. /\ \A n \in Msgs \ {m} : /\ owner'[n] = owner[n] /\ state'[n] = state[n]
                              /\ requester'[n] = requester[n]
      /\ \A p \in Procs \ {BE} : owned'[p] = owned[p]
      /\ owner'[m] = BE /\ state'[m] = s /\ requester'[m] = BE
      /\ owned'[BE] = owned[BE] \cup {m}
  BY <1>1 DEF Create, TypeOK
<1>4. TypeOK'
  BY <1>1, <1>2 DEF Create, TypeOK
<1>5. NoRepetition'
  BY <1>2 DEF NoRepetition
<1>6. Ownership'
  BY <1>1, <1>3 DEF Ownership
<1>7. \A g \in FrontEnds : m \notin Range(toBE[g]) /\ m \notin Range(toFE[g])
  BY <1>1 DEF Sockets
<1>8. Sockets'
  BY <1>3, <1>7 DEF Sockets
<1>9. \A p \in Procs : m \notin Range(pulsing[p])
  BY <1>1 DEF Marks
<1>10. Marks'
  BY <1>1, <1>2, <1>3, <1>9 DEF Marks
<1>11. Limbo'
  BY <1>1, <1>3 DEF Limbo
<1>12. Due'
  <2>1. /\ \A g \in FrontEnds : g \in Procs \ {BE}
        /\ \A p \in Procs : Range(pulsing[p]) \subseteq Range(pulsing'[p])
    BY <1>1, <1>2 DEF Procs
  <2>2. ASSUME NEW n \in Msgs, n # m
        PROVE  /\ state'[n] = state[n] /\ requester'[n] = requester[n]
               /\ owner'[n] = owner[n]
    BY <1>3, <2>2
  <2>3. /\ owner'[m] = BE /\ requester'[m] = BE /\ BE \in Procs
        /\ state'[m] = "DESTRUCTION" => m \in Range(pulsing'[BE])
    BY <1>1, <1>2, <1>3 DEF RStates
  <2> QED BY <2>1, <2>2, <2>3 DEF Due
<1> QED BY <1>4, <1>5, <1>6, <1>8, <1>10, <1>11, <1>12

\* The requests a current-time response serves are unmarked so far.
LEMMA AwaitingTimeUnmarked ==
  ASSUME Placed
  PROVE  /\ AwaitingTime \subseteq Msgs /\ IsFiniteSet(AwaitingTime)
         /\ \A n \in AwaitingTime : /\ owner[n] = BE /\ requester[n] \in FrontEnds
                                   /\ n \notin Range(pulsing[BE])
                                   /\ state[n] = "READY_TO_RECEIVE_RESPONSE"
<1> USE DEF Placed
<1>1. BE \in Procs /\ IsFiniteSet(Msgs)
  BY Tier2Assumption DEF Procs
<1>2. AwaitingTime \subseteq Msgs
  BY <1>1 DEF AwaitingTime, TypeOK
<1>3. IsFiniteSet(AwaitingTime)
  BY <1>1, <1>2, FS_Subset
<1>4. ASSUME NEW n \in AwaitingTime
      PROVE  /\ owner[n] = BE /\ requester[n] \in FrontEnds
             /\ state[n] = "READY_TO_RECEIVE_RESPONSE"
  BY <1>1, <1>2, <1>4 DEF AwaitingTime, Ownership, Procs
<1>5. ASSUME NEW n \in AwaitingTime PROVE n \notin Range(pulsing[BE])
  BY <1>1, <1>2, <1>4, <1>5 DEF Marks, TStates
<1> QED BY <1>2, <1>3, <1>4, <1>5

\* What the answer does to the marks.
LEMMA AnswerMarks ==
  ASSUME Placed, BeAnswerTime
  PROVE  /\ pulsing' \in [Procs -> Seq(Msgs)]
         /\ \A r \in Procs \ {BE} : pulsing'[r] = pulsing[r]
         /\ Range(pulsing'[BE]) = Range(pulsing[BE]) \cup AwaitingTime \cup {Response}
         /\ IsInjective(pulsing'[BE])
<1> USE DEF Placed
<1>1. BE \in Procs /\ None # BE /\ Response \in Msgs
  BY Tier2Assumption DEF Procs
<1>2. /\ pulsing \in [Procs -> Seq(Msgs)] /\ pulsing[BE] \in Seq(Msgs)
      /\ IsInjective(pulsing[BE])
  BY <1>1 DEF TypeOK, NoRepetition
<1>3. PICK s \in Orders(AwaitingTime) :
        pulsing' = [pulsing EXCEPT ![BE] = Append(@ \o s, Response)]
  BY DEF BeAnswerTime
<1>4. s \in Seq(Msgs) /\ Range(s) = AwaitingTime /\ IsInjective(s)
  BY AwaitingTimeUnmarked, OrderMembers
<1> DEFINE c == pulsing[BE] \o s
<1>5. Range(pulsing[BE]) \cap Range(s) = {}
  BY <1>4, AwaitingTimeUnmarked
<1>6. /\ c \in Seq(Msgs)
      /\ Range(c) = Range(pulsing[BE]) \cup AwaitingTime
      /\ IsInjective(c)
  BY <1>2, <1>4, <1>5, ConcatMembers
<1>7. pulsing' = [pulsing EXCEPT ![BE] = Append(c, Response)]
  BY <1>3
<1> HIDE DEF c
<1>8. Response \notin Range(c)
  <2>1. state[Response] = "free" /\ owner[Response] # BE
    BY <1>1 DEF BeAnswerTime, Ownership
  <2>2. Response \notin Range(pulsing[BE])
    BY <1>1, <2>1 DEF Marks
  <2>3. Response \notin AwaitingTime
    BY <2>1 DEF AwaitingTime
  <2> QED BY <1>6, <2>2, <2>3
<1>9. /\ Append(c, Response) \in Seq(Msgs)
      /\ Range(Append(c, Response)) = Range(c) \cup {Response}
      /\ IsInjective(Append(c, Response))
  BY <1>1, <1>6, <1>8, AppendMembers
<1> QED BY <1>1, <1>2, <1>6, <1>7, <1>9

\* One answer completes every request that awaits the time.
LEMMA PlacedBeAnswerTime ==
  ASSUME Placed, BeAnswerTime
  PROVE  Placed'
<1> USE DEF Placed
<1>1. /\ BE \in Procs /\ BE \notin FrontEnds /\ None \notin Procs /\ Response \in Msgs
      /\ state[Response] = "free" /\ owner[Response] = None /\ Response \notin lost
  BY Tier2Assumption DEF Procs, BeAnswerTime, Ownership
<1>2. /\ \A n \in Msgs \ {Response} : owner'[n] = owner[n] /\ requester'[n] = requester[n]
      /\ \A n \in Msgs \ (AwaitingTime \cup {Response}) : state'[n] = state[n]
      /\ \A n \in AwaitingTime \ {Response} : n \in Msgs => state'[n] = "RESPONSE_COMPLETE"
      /\ \A p \in Procs \ {BE} : owned'[p] = owned[p]
      /\ owner'[Response] = BE /\ state'[Response] = "DESTRUCTION" /\ requester'[Response] = BE
      /\ owned'[BE] = owned[BE] \cup {Response}
      /\ UNCHANGED <<toBE, toFE, lost>>
  BY <1>1 DEF BeAnswerTime, TypeOK
<1>3. TypeOK'
  <2>1. state' \in [Msgs -> States]
    BY DEF BeAnswerTime, TypeOK, States, TStates
  <2>2. owed' \in Nat
    BY DEF BeAnswerTime, TypeOK
  <2>3. phase' \in Phases
    BY DEF BeAnswerTime, Phases
  <2>4. /\ requester' \in [Msgs -> Procs \cup {None}]
        /\ owner' \in [Msgs -> Procs \cup {None}]
        /\ owned' \in [Procs -> SUBSET Msgs]
    BY <1>1 DEF BeAnswerTime, TypeOK
  <2> QED BY <2>1, <2>2, <2>3, <2>4, AnswerMarks DEF BeAnswerTime, TypeOK
<1>4. NoRepetition'
  BY <1>2, AnswerMarks DEF NoRepetition
<1>5. Ownership'
  BY <1>1, <1>2, AwaitingTimeUnmarked DEF Ownership
<1>6. \A g \in FrontEnds, n \in AwaitingTime \cup {Response} :
        n \notin Range(toBE[g]) /\ n \notin Range(toFE[g])
  BY <1>1, AwaitingTimeUnmarked DEF Sockets
<1>7. Sockets'
  BY <1>2, <1>6 DEF Sockets
<1>8. Marks'
  <2>1. ASSUME NEW n \in Msgs, n \in AwaitingTime
        PROVE  owner'[n] = BE /\ state'[n] \in TStates
    BY <1>1, <1>2, <2>1, AwaitingTimeUnmarked DEF TStates
  <2>2. ASSUME NEW p \in Procs, NEW n \in Msgs, n \in Range(pulsing[p]), n # Response
        PROVE  owner'[n] = p /\ (p = BE /\ requester'[n] \in FrontEnds => state'[n] \in TStates)
    BY <1>2, <2>1, <2>2 DEF Marks
  <2>3. \A p \in Procs : Response \notin Range(pulsing[p])
    BY <1>1 DEF Marks
  <2>4. \A p \in Procs, n \in Msgs : n \in Range(pulsing'[p]) =>
          \/ n \in Range(pulsing[p]) /\ n # Response
          \/ p = BE /\ n \in AwaitingTime
          \/ p = BE /\ n = Response
    BY <2>3, AnswerMarks
  <2> QED BY <1>1, <1>2, <2>1, <2>2, <2>4 DEF Marks
<1>9. Limbo'
  BY <1>1, <1>2, AwaitingTimeUnmarked DEF Limbo
<1>10. Due'
  BY <1>1, <1>2, AnswerMarks, AwaitingTimeUnmarked, Tier2Assumption DEF Due, Procs, RStates
<1> QED BY <1>3, <1>4, <1>5, <1>7, <1>8, <1>9, <1>10

LEMMA PlacedNext == Placed /\ [Next]_vars => Placed'
<1> SUFFICES ASSUME Placed, [Next]_vars PROVE Placed'
  OBVIOUS
<1> USE DEF Placed
<1>1. ASSUME NEW f \in FrontEnds, FeThread(f) PROVE Placed'
  <2>1. CASE FeGiveUp(f)
    BY <2>1, PlacedUnchanged DEF FeGiveUp, TypeOK
  <2> QED BY <1>1, <2>1, PlacedFeRequest, PlacedFeRequestFailed,
             PlacedFeRequestVanished, PlacedFePop DEF FeThread
<1>2. CASE BeReceive
  <2>1. CASE BeNoMail
    BY <2>1, PlacedUnchanged DEF BeNoMail, AfterPop, Phases, TypeOK
  <2>2. CASE BeFetch
    <3>1. PICK new \in Orders(paths \ Range(senders)) : senders' = senders \o new
      BY <2>2 DEF BeFetch
    <3>2. /\ paths \ Range(senders) \in SUBSET FrontEnds
          /\ IsFiniteSet(paths \ Range(senders))
      BY Tier2Assumption, FS_Subset DEF TypeOK
    <3>3. new \in Seq(FrontEnds)
      BY <3>1, <3>2, OrderMembers
    <3>4. senders' \in Seq(FrontEnds)
      BY <3>1, <3>3, ConcatMembers DEF TypeOK
    <3> QED BY <2>2, <3>4, PlacedUnchanged DEF BeFetch, Phases, TypeOK
  <2>3. ASSUME NEW f \in FrontEnds, BePopSent(f) PROVE Placed'
    <3>1. owed' \in Nat
      BY <2>3 DEF BePopSent, TypeOK
    <3> QED BY <2>3, <3>1, PlacedBePop DEF BePopSent
  <2>4. ASSUME NEW f \in FrontEnds, BePopRefused(f) PROVE Placed'
    <3>1. owed' \in Nat
      BY <2>4 DEF BePopRefused, TypeOK
    <3> QED BY <2>4, <3>1, PlacedBePop DEF BePopRefused
  <2> QED BY <1>2, <2>1, <2>2, <2>3, <2>4 DEF BeReceive
<1>3. CASE BePulse
  <2>1. CASE BePulseDone
    <3>1. phase' \in Phases
      BY <2>1 DEF BePulseDone, PulsePhases, AfterPulse, NextTurn, Phases
    <3> QED BY <2>1, <3>1, PlacedUnchanged DEF BePulseDone, TypeOK
  <2>2. CASE BeBreakOff
    <3>1. drops' \in 0..MaxDrops
      BY <2>2, Tier2Assumption DEF BeBreakOff, TypeOK
    <3> QED BY <2>2, <3>1, PlacedUnchanged DEF BeBreakOff, Phases, TypeOK
  <2> QED BY <1>3, <2>1, <2>2, PlacedBePostSent, PlacedBePostFailed, PlacedBePostVanished,
             PlacedBeDelete, PlacedBePulseNothing DEF BePulse
<1>4. CASE BeOwnWork
  <2>1. CASE BeTickleDone
    <3>1. phase' \in Phases
      BY <2>1 DEF BeTickleDone, NextTurn, Phases
    <3> QED BY <2>1, <3>1, PlacedUnchanged DEF BeTickleDone, TypeOK
  <2>2. ASSUME NEW m \in Msgs, BeTickle(m) PROVE Placed'
    <3>1. requester[m] = BE /\ owner[m] = BE /\ state[m] # "free"
      BY <2>2 DEF BeTickle, Ownership, Procs
    <3>2. PICK s \in {"READY_TO_RECEIVE_RESPONSE", "DESTRUCTION"} : Enter(BE, m, s)
      BY <2>2 DEF BeTickle
    <3> QED BY <2>2, <3>1, <3>2, PlacedEnter DEF BeTickle, States, RStates, TStates
  <2>3. ASSUME NEW m \in Msgs, BeStart(m) PROVE Placed'
    <3>1. PICK s \in {"READY_TO_RECEIVE_RESPONSE", "WAIT_FOR_TRANSMIT", "DESTRUCTION"} :
            /\ Create(BE, m, s)
            /\ pulsing' = IF s = "DESTRUCTION"
                          THEN [pulsing EXCEPT ![BE] = Queued(@, m)]
                          ELSE pulsing
      BY <2>3 DEF BeStart
    <3>2. s \in States \ {"free"}
      BY DEF States, RStates, TStates
    <3>3. UNCHANGED <<toBE, toFE, lost, paths, senders, waiting, owed, drops, stopped, phase>>
      BY <2>3 DEF BeStart, envVars
    <3>4. s # "DESTRUCTION" => s \in RStates
      BY DEF RStates
    <3> QED BY <3>1, <3>2, <3>3, <3>4, PlacedCreate DEF TypeOK
  <2>4. ASSUME NEW m \in Msgs, BeStartCancel(m) PROVE Placed'
    <3>1. "READY_TO_RECEIVE_RESPONSE" \in States \ {"free"}
      BY DEF States, RStates
    <3> QED BY <2>4, <3>1, PlacedCreate DEF BeStartCancel, envVars, TypeOK
  <2>5. ASSUME NEW m \in Msgs, BeFinish(m) PROVE Placed'
    <3>1. "DESTRUCTION" \in States \ {"free"}
      BY DEF States, TStates
    <3> QED BY <2>5, <3>1, PlacedEnter DEF BeFinish
  <2> QED BY <1>4, <2>1, <2>2, <2>3, <2>4, <2>5 DEF BeOwnWork
<1>5. CASE BeEvent
  <2>1. CASE BeOtherEvent
    <3>1. /\ Response \in Msgs /\ "DESTRUCTION" \in States \ {"free"}
          /\ BE \in Procs /\ None # BE
      BY Tier2Assumption DEF States, TStates, Procs
    <3>2. Response \notin Range(pulsing[BE])
      BY <2>1, <3>1 DEF BeOtherEvent, Create, Ownership, Marks
    <3>3. pulsing' = [pulsing EXCEPT ![BE] = Queued(@, Response)]
      BY <2>1, <3>2 DEF BeOtherEvent, Queued
    <3>4. phase' \in Phases
      BY <2>1 DEF BeOtherEvent, Phases
    <3> QED BY <2>1, <3>1, <3>3, <3>4, PlacedCreate DEF BeOtherEvent
  <2>2. CASE BeDrop
    BY <2>2, PlacedUnchanged, Tier2Assumption DEF BeDrop, Phases, TypeOK
  <2>3. CASE BeReadMore
    BY <2>3, PlacedUnchanged DEF BeReadMore, NextTurn, Phases, TypeOK
  <2> QED BY <1>5, <2>1, <2>2, <2>3, PlacedBeAnswerTime DEF BeEvent
<1>6. CASE BeConnect \/ BeExit \/ Stop \/ Terminated \/ UNCHANGED vars
  <2>1. phase' \in Phases /\ stopped' \in BOOLEAN
    BY <1>6 DEF BeConnect, BeExit, Stop, Terminated, vars, Phases, TypeOK
  <2>2. UNCHANGED <<msgVars, paths, senders, waiting, owed, drops>>
    BY <1>6 DEF BeConnect, BeExit, Stop, Terminated, vars, msgVars
  <2> QED BY <2>1, <2>2, PlacedUnchanged DEF TypeOK
<1> QED BY <1>1, <1>2, <1>3, <1>4, <1>5, <1>6 DEF Next, BeThread

\* In every reachable state every message is where its state says.
THEOREM PlacedAlways == Spec => []Placed
BY PlacedInit, PlacedNext, PTL DEF Spec

\* Types, for every instance.
THEOREM TypeCorrect == Spec => []TypeOK
<1>1. Placed => TypeOK
  BY DEF Placed
<1> QED BY <1>1, PlacedAlways, PTL

\* Every message has one owner, every pointer is in one place, only an owner
\* marks, and sockets carry what they should: for any number of front-ends,
\* messages and lost connections.
THEOREM OwnershipSafe ==
  Spec => [](OneOwner /\ OnePointer /\ MarkedIsOwned /\ PipesCarryTheirOwn)
BY PlacedAlways, PlacedImplies, PTL

\* No message is left in limbo and no hand-over or deletion is forgotten.
THEOREM NothingForgotten == Spec => [](LimboIsTransfer /\ HandOverPending)
BY PlacedAlways, PlacedImplies, PTL

-----------------------------------------------------------------------------
(* Answers *)

\* Whatever the back-end does, it neither creates nor touches a request that a
\* front-end has, and leaves what the front-ends wait for alone.
LEMMA BeLeavesFrontEnds ==
  ASSUME Placed, BeThread
  PROVE  /\ UNCHANGED <<waiting, stopped>>
         /\ \A m \in Msgs, f \in FrontEnds : requester'[m] = f =>
              /\ requester[m] = f
              /\ owner[m] = f => owner'[m] = f /\ state'[m] = state[m]
<1> DEFINE Kept == \A m \in Msgs, f \in FrontEnds : requester'[m] = f =>
                     /\ requester[m] = f
                     /\ owner[m] = f => owner'[m] = f /\ state'[m] = state[m]
<1>1. /\ BE \notin FrontEnds /\ None \notin FrontEnds /\ None # BE /\ BE \in Procs
      /\ TypeOK
  BY Tier2Assumption DEF Procs, Placed
<1>2. CASE BeNoMail \/ BeFetch \/ BePulseDone \/ BeBreakOff \/ BeTickleDone
           \/ BeReadMore \/ BeDrop \/ BeConnect \/ BeExit
  BY <1>2 DEF BeNoMail, BeFetch, BePulseDone, BeBreakOff, BeTickleDone,
              BeReadMore, BeDrop, BeConnect, BeExit, msgVars
<1>3. ASSUME NEW f \in FrontEnds, BePopSent(f) \/ BePopRefused(f)
      PROVE  Kept /\ UNCHANGED <<waiting, stopped>>
  <2> DEFINE n == Head(toBE[f])
  <2>1. n \in Range(toBE[f]) /\ n \in Msgs
    <3>1. toBE[f] # <<>>
      BY <1>3 DEF BePopSent, BePopRefused, BePop, FirstWithMail, HasMail
    <3>2. toBE[f] \in Seq(Msgs) /\ IsInjective(toBE[f])
      BY <1>1 DEF TypeOK, Placed, NoRepetition
    <3> QED BY <3>1, <3>2, TailMembers
  <2>2. UNCHANGED <<requester, waiting, stopped>>
    BY <1>3 DEF BePopSent, BePopRefused, BePop
  <2>3. PICK s \in States : Receive(BE, n, s)
    BY <1>3 DEF BePopSent, BePopRefused, States, RStates, TStates
  <2> HIDE DEF n
  <2>4. owner[n] = None
    BY <2>1 DEF Placed, Sockets
  <2>5. \A m \in Msgs : m # n => owner'[m] = owner[m] /\ state'[m] = state[m]
    BY <1>1, <2>3 DEF Receive, Enter, TypeOK
  <2> QED BY <1>1, <2>2, <2>4, <2>5
<1>4. CASE BePostFailed \/ BePulseNothing
  BY <1>4 DEF BePostFailed, BePost, BePulseNothing, envVars
<1>5. CASE BePostSent \/ BePostVanished
  <2>1. UNCHANGED <<requester, state, waiting, stopped>> /\ Release(BE, Marked) /\ Pulsing
    BY <1>5 DEF BePostSent, BePostVanished, BePost
  <2>2. owner[Marked] = BE
    BY <2>1, MarkedMembers
  <2>3. \A m \in Msgs : m # Marked => owner'[m] = owner[m]
    BY <1>1, <2>1 DEF Release, TypeOK
  <2> QED BY <1>1, <2>1, <2>2, <2>3
<1>6. CASE BeDelete
  <2>1. /\ UNCHANGED <<waiting, stopped>> /\ Release(BE, Marked) /\ Pulsing
        /\ state' = [state EXCEPT ![Marked] = "free"]
        /\ requester' = [requester EXCEPT ![Marked] = None]
    BY <1>6 DEF BeDelete, envVars
  <2>2. Marked \in Msgs
    BY <2>1, MarkedMembers
  <2>3. /\ requester'[Marked] = None
        /\ \A m \in Msgs : m # Marked => /\ owner'[m] = owner[m] /\ state'[m] = state[m]
                                         /\ requester'[m] = requester[m]
    BY <1>1, <2>1, <2>2 DEF Release, TypeOK
  <2> QED BY <1>1, <2>1, <2>3
<1>7. ASSUME NEW n \in Msgs, BeTickle(n) \/ BeFinish(n)
      PROVE  Kept /\ UNCHANGED <<waiting, stopped>>
  <2>1. /\ UNCHANGED <<requester, owner, waiting, stopped>> /\ owner[n] = BE
        /\ \A m \in Msgs : m # n => state'[m] = state[m]
    BY <1>1, <1>7 DEF BeTickle, BeFinish, Enter, envVars, TypeOK
  <2> QED BY <1>1, <2>1
<1>8. ASSUME NEW n \in Msgs, NEW s \in States, Create(BE, n, s), UNCHANGED <<waiting, stopped>>
      PROVE  Kept /\ UNCHANGED <<waiting, stopped>>
  <2>1. /\ requester'[n] = BE
        /\ \A m \in Msgs : m # n => /\ owner'[m] = owner[m] /\ state'[m] = state[m]
                                    /\ requester'[m] = requester[m]
    BY <1>1, <1>8 DEF Create, TypeOK
  <2> QED BY <1>1, <1>8, <2>1
<1>9. ASSUME NEW n \in Msgs, BeStart(n) \/ BeStartCancel(n)
      PROVE  Kept /\ UNCHANGED <<waiting, stopped>>
  <2>1. \E s \in States : Create(BE, n, s)
    BY <1>9 DEF BeStart, BeStartCancel, States, RStates, TStates
  <2>2. UNCHANGED <<waiting, stopped>>
    BY <1>9 DEF BeStart, BeStartCancel, envVars
  <2> QED BY <1>8, <2>1, <2>2
<1>10. CASE BeOtherEvent
  <2>1. Response \in Msgs /\ "DESTRUCTION" \in States
    BY Tier2Assumption DEF States, TStates
  <2> QED BY <1>8, <1>10, <2>1 DEF BeOtherEvent
<1>11. CASE BeAnswerTime
  <2>1. /\ UNCHANGED <<waiting, stopped>> /\ Response \in Msgs
        /\ requester'[Response] = BE
        /\ \A m \in Msgs : m # Response => owner'[m] = owner[m] /\ requester'[m] = requester[m]
        /\ \A m \in Msgs : m # Response /\ m \notin AwaitingTime => state'[m] = state[m]
    BY <1>1, <1>11, Tier2Assumption DEF BeAnswerTime, TypeOK
  <2>2. \A m \in AwaitingTime : owner[m] = BE
    BY AwaitingTimeUnmarked
  <2> QED BY <1>1, <2>1, <2>2
<1> HIDE DEF Kept
<1>12. Kept /\ UNCHANGED <<waiting, stopped>>
  <2>1. CASE BeReceive
    BY <1>2, <1>3, <2>1 DEF BeReceive, Kept
  <2>2. CASE BePulse
    BY <1>2, <1>4, <1>5, <1>6, <2>2 DEF BePulse, Kept
  <2>3. CASE BeOwnWork
    BY <1>2, <1>7, <1>9, <2>3 DEF BeOwnWork, Kept
  <2>4. CASE BeEvent
    BY <1>2, <1>10, <1>11, <2>4 DEF BeEvent, Kept
  <2> QED BY <1>2, <2>1, <2>2, <2>3, <2>4 DEF BeThread, Kept
<1> QED BY <1>12 DEF Kept

-----------------------------------------------------------------------------
(* The awaited answer *)

LEMMA AwaitedInit == Init => PopsTheAwaited
BY Tier2Assumption DEF Init, PopsTheAwaited

\* A front-end issues a request only while it waits for none, and what it pops
\* is the one it waits for.
LEMMA AwaitedNext == Placed /\ PopsTheAwaited /\ [Next]_vars => PopsTheAwaited'
<1> SUFFICES ASSUME Placed, PopsTheAwaited, [Next]_vars PROVE PopsTheAwaited'
  OBVIOUS
<1>1. TypeOK /\ None \notin FrontEnds /\ None \notin Msgs /\ FrontEnds \subseteq Procs
  BY Tier2Assumption DEF Placed, Procs
<1>2. ASSUME NEW f \in FrontEnds, NEW m \in Msgs, BeginRequest(f, m),
             state[m] = "free" => owner'[m] \in {None, f},
             \A n \in Msgs : n # m => owner'[n] = owner[n]
      PROVE  PopsTheAwaited'
  <2>1. /\ waiting[f] = None /\ waiting'[f] = (IF stopped THEN None ELSE m)
        /\ stopped' = stopped
        /\ requester'[m] = f
        /\ \A g \in FrontEnds : g # f => waiting'[g] = waiting[g]
        /\ \A n \in Msgs : n # m => state'[n] = state[n] /\ requester'[n] = requester[n]
    BY <1>1, <1>2 DEF BeginRequest, TypeOK
  <2>2. ASSUME NEW g \in FrontEnds, NEW n \in Msgs, requester'[n] = g, n # m,
               ~(owner'[n] = g /\ state'[n] \in {"RESPONSE_COMPLETE", "FAILED"})
        PROVE  (stopped => waiting'[g] # None) => waiting'[g] = n
    <3> SUFFICES ASSUME stopped => waiting'[g] # None PROVE waiting'[g] = n
      OBVIOUS
    <3>1. waiting[g] = n
      BY <1>2, <2>1, <2>2 DEF PopsTheAwaited
    <3>2. g # f
      BY <1>1, <2>1, <3>1
    <3> QED BY <2>1, <3>1, <3>2
  <2> QED BY <2>1, <2>2 DEF PopsTheAwaited
<1>3. ASSUME NEW f \in FrontEnds, NEW m \in Msgs,
             FeRequest(f, m) \/ FeRequestFailed(f, m) \/ FeRequestVanished(f, m)
      PROVE  PopsTheAwaited'
  <2>1. BeginRequest(f, m)
    BY <1>3 DEF FeRequest, FeRequestFailed, FeRequestVanished
  <2>2. \A n \in Msgs : n # m => owner'[n] = owner[n]
    BY <1>1, <1>3 DEF FeRequest, FeRequestFailed, FeRequestVanished, TypeOK
  <2>3. owner[m] = None
    BY <2>1 DEF BeginRequest, Placed, Ownership
  <2>4. owner'[m] \in {None, f}
    BY <1>1, <1>3, <2>3 DEF FeRequest, FeRequestFailed, FeRequestVanished, TypeOK
  <2> QED BY <1>2, <2>1, <2>2, <2>4
<1>4. ASSUME NEW f \in FrontEnds, FePop(f)
      PROVE  PopsTheAwaited'
  <2> DEFINE m == Head(toFE[f])
  <2>1. m \in Msgs /\ m \in Range(toFE[f])
    <3>1. /\ toFE[f] # <<>>
          /\ toFE[f] \in Seq(Msgs) /\ IsInjective(toFE[f])
      BY <1>1, <1>4 DEF FePop, TypeOK, Placed, NoRepetition
    <3> QED BY <3>1, TailMembers
  <2>2. /\ Receive(f, m, state[m]) /\ UNCHANGED <<requester, stopped>> /\ waiting[f] # None
        /\ waiting' = [waiting EXCEPT ![f] = IF m = @ THEN None ELSE @]
    BY <1>4 DEF FePop
  <2> HIDE DEF m
  <2>3. /\ requester[m] = f /\ owner[m] = None
        /\ state[m] \in {"RESPONSE_COMPLETE", "FAILED"}
    BY <2>1 DEF Placed, Sockets
  <2>4. waiting[f] = m
    BY <1>1, <2>1, <2>2, <2>3 DEF PopsTheAwaited
  <2>5. /\ owner'[m] = f /\ state'[m] = state[m]
        /\ \A n \in Msgs : n # m => owner'[n] = owner[n] /\ state'[n] = state[n]
        /\ \A g \in FrontEnds : g # f => waiting'[g] = waiting[g]
    BY <1>1, <2>1, <2>2 DEF Receive, Enter, TypeOK
  <2>6. ASSUME NEW g \in FrontEnds, NEW n \in Msgs, requester'[n] = g,
               stopped' => waiting'[g] # None,
               ~(owner'[n] = g /\ state'[n] \in {"RESPONSE_COMPLETE", "FAILED"})
        PROVE  waiting'[g] = n
    <3>1. n # m
      BY <2>3, <2>5, <2>2, <2>6
    <3>2. requester[n] = g /\ ~(owner[n] = g /\ state[n] \in {"RESPONSE_COMPLETE", "FAILED"})
      BY <2>2, <2>5, <2>6, <3>1
    <3>3. waiting[g] = n
      BY <2>2, <2>5, <2>6, <3>2 DEF PopsTheAwaited
    <3>4. g # f
      BY <2>4, <3>1, <3>3
    <3> QED BY <2>5, <3>3, <3>4
  <2> QED BY <2>6 DEF PopsTheAwaited
<1>5. ASSUME NEW f \in FrontEnds, FeGiveUp(f) PROVE PopsTheAwaited'
  BY <1>1, <1>5 DEF FeGiveUp, PopsTheAwaited, TypeOK, msgVars
<1>6. CASE BeThread
  BY <1>6, BeLeavesFrontEnds DEF PopsTheAwaited
<1>7. CASE Stop \/ Terminated \/ UNCHANGED vars
  BY <1>7 DEF Stop, Terminated, vars, msgVars, PopsTheAwaited
<1> QED BY <1>3, <1>4, <1>5, <1>6, <1>7 DEF Next, FeThread

\* A blocked front-end never receives a message other than the one it waits for:
\* the check in wait_for_response() that would call the connection
\* untrustworthy cannot fail.
THEOREM AwaitedAlways == Spec => []PopsTheAwaited
<1>1. Init => Placed /\ PopsTheAwaited
  BY PlacedInit, AwaitedInit
<1>2. Placed /\ PopsTheAwaited /\ [Next]_vars => (Placed /\ PopsTheAwaited)'
  BY PlacedNext, AwaitedNext
<1> QED BY <1>1, <1>2, PTL DEF Spec

\* When a front-end stops waiting, it owns the finished request it waited for,
\* unless the server is being stopped.
LEMMA ReplyStep ==
  ASSUME Placed, PopsTheAwaited, [Next]_vars,
         NEW f \in FrontEnds, ~stopped, waiting[f] # None, waiting'[f] = None
  PROVE  /\ owner'[waiting[f]] = f
         /\ state'[waiting[f]] \in {"RESPONSE_COMPLETE", "FAILED"}
<1>1. TypeOK /\ None \notin Msgs
  BY Tier2Assumption DEF Placed
<1>2. PICK g \in FrontEnds : FeThread(g)
  BY BeLeavesFrontEnds DEF Next, Stop, Terminated, vars
<1>3. ASSUME NEW m \in Msgs, BeginRequest(g, m) PROVE FALSE
  BY <1>1, <1>3 DEF BeginRequest, TypeOK
<1>4. FePop(g)
  BY <1>2, <1>3 DEF FeThread, FeRequest, FeRequestFailed, FeRequestVanished, FeGiveUp
<1> DEFINE m == Head(toFE[g])
<1>5. /\ toFE[g] # <<>>
      /\ toFE[g] \in Seq(Msgs) /\ IsInjective(toFE[g])
      /\ Receive(g, m, state[m])
      /\ waiting' = [waiting EXCEPT ![g] = IF m = @ THEN None ELSE @]
  BY <1>1, <1>4 DEF FePop, TypeOK, Placed, NoRepetition
<1>6. m \in Msgs /\ m \in Range(toFE[g])
  BY <1>5, TailMembers
<1>7. waiting[f] = m /\ f = g
  BY <1>1, <1>5
<1> HIDE DEF m
<1>8. state[m] \in {"RESPONSE_COMPLETE", "FAILED"}
  BY <1>6 DEF Placed, Sockets
<1>9. owner'[m] = g /\ state'[m] = state[m]
  BY <1>1, <1>5, <1>6 DEF Receive, Enter, TypeOK
<1> QED BY <1>7, <1>8, <1>9

\* A front-end replies to its client only with a request that came back to it,
\* finished, as long as the server is not being stopped.
THEOREM RepliesAnswered == Spec => RepliesWithAnswer
<1>1. Placed /\ PopsTheAwaited /\ [Next]_vars =>
        [\A f \in FrontEnds :
           LET m == waiting[f] IN
           ~stopped /\ m # None /\ waiting'[f] = None
             => owner'[m] = f /\ state'[m] \in {"RESPONSE_COMPLETE", "FAILED"}]_vars
  BY ReplyStep
<1> QED BY <1>1, PlacedAlways, AwaitedAlways, PTL DEF Spec, RepliesWithAnswer

-----------------------------------------------------------------------------
(* Responses, and answers that are owed *)

\* A response object lives only while its callback's marks are pulsed, or the
\* loop has ended before they were.
ResponseHeld ==
  state[Response] # "free" =>
    /\ state[Response] = "DESTRUCTION"
    /\ owner[Response] = BE /\ requester[Response] = BE
    /\ phase \in {"top_pulse", "top_failed", "exited"}

\* A response object is never what a front-end or the head of a socket is about.
LEMMA FrontEndsLeaveResponse ==
  ASSUME Placed, ResponseHeld, NEW f \in FrontEnds, FeThread(f)
  PROVE  /\ UNCHANGED phase
         /\ state'[Response] = state[Response]
         /\ owner'[Response] = owner[Response]
         /\ requester'[Response] = requester[Response]
<1>1. TypeOK /\ Response \in Msgs /\ BE \notin FrontEnds
  BY Tier2Assumption DEF Placed
<1>2. ASSUME NEW m \in Msgs,
             FeRequest(f, m) \/ FeRequestFailed(f, m) \/ FeRequestVanished(f, m)
      PROVE  /\ UNCHANGED phase
             /\ state'[Response] = state[Response]
             /\ owner'[Response] = owner[Response]
             /\ requester'[Response] = requester[Response]
  <2>1. BeginRequest(f, m)
    BY <1>2 DEF FeRequest, FeRequestFailed, FeRequestVanished
  <2>2. owner'[Response] = owner[Response]
    BY <1>1, <1>2, <2>1 DEF FeRequest, FeRequestFailed, FeRequestVanished, BeginRequest, TypeOK
  <2> QED BY <1>1, <2>1, <2>2 DEF BeginRequest, TypeOK
<1>3. CASE FePop(f)
  <2> DEFINE m == Head(toFE[f])
  <2>1. /\ toFE[f] # <<>>
        /\ toFE[f] \in Seq(Msgs) /\ IsInjective(toFE[f])
        /\ Receive(f, m, state[m])
        /\ UNCHANGED <<requester, phase>>
    BY <1>1, <1>3 DEF FePop, TypeOK, Placed, NoRepetition
  <2>2. m \in Msgs /\ m \in Range(toFE[f])
    BY <2>1, TailMembers
  <2> HIDE DEF m
  <2>3. m # Response
    BY <1>1, <2>2 DEF Placed, Sockets, ResponseHeld
  <2> QED BY <1>1, <2>1, <2>2, <2>3 DEF Receive, Enter, TypeOK
<1>4. CASE FeGiveUp(f)
  BY <1>4 DEF FeGiveUp, msgVars
<1> QED BY <1>2, <1>3, <1>4 DEF FeThread

LEMMA ResponseHeldInit == Init => ResponseHeld
BY Tier2Assumption DEF Init, ResponseHeld

LEMMA ResponseHeldNext == Placed /\ ResponseHeld /\ [Next]_vars => ResponseHeld'
<1> SUFFICES ASSUME Placed, ResponseHeld, [Next]_vars PROVE ResponseHeld'
  OBVIOUS
<1>1. /\ TypeOK /\ Response \in Msgs /\ BE \notin FrontEnds /\ None # BE /\ BE \in Procs
  BY Tier2Assumption DEF Placed, Procs
<1>2. ASSUME NEW f \in FrontEnds, FeThread(f) PROVE ResponseHeld'
  BY <1>2, FrontEndsLeaveResponse DEF ResponseHeld
<1>3. ASSUME pulsing[BE] = <<>> PROVE state[Response] = "free" \/ owner[Response] # BE
  BY <1>1, <1>3, EmptyMembers DEF Placed, Due, ResponseHeld
<1>4. CASE BePulseDone \/ BeBreakOff
  BY <1>3, <1>4 DEF BePulseDone, BeBreakOff, msgVars, ResponseHeld
<1>5. CASE BeNoMail \/ BeFetch \/ BeTickleDone \/ BeReadMore \/ BeDrop \/ BeConnect \/ BeExit
           \/ Stop \/ Terminated \/ UNCHANGED vars
  <2>1. UNCHANGED msgVars
    BY <1>5 DEF BeNoMail, BeFetch, BeTickleDone, BeReadMore, BeDrop, BeConnect, BeExit,
                Stop, Terminated, vars, msgVars
  <2>2. phase' \in {phase, "exited"} \/ phase \notin {"top_pulse", "top_failed", "exited"}
    BY <1>5 DEF BeNoMail, BeFetch, BeTickleDone, BeReadMore, BeDrop, BeConnect, BeExit,
                Stop, Terminated, vars, TicklePhases
  <2> QED BY <2>1, <2>2 DEF ResponseHeld, msgVars
<1>6. ASSUME NEW f \in FrontEnds, BePopSent(f) \/ BePopRefused(f) PROVE ResponseHeld'
  <2> DEFINE n == Head(toBE[f])
  <2>1. BePop(f)
    BY <1>6 DEF BePopSent, BePopRefused
  <2>2. /\ toBE[f] # <<>>
        /\ toBE[f] \in Seq(Msgs) /\ IsInjective(toBE[f])
    BY <1>1, <2>1 DEF BePop, FirstWithMail, HasMail, TypeOK, Placed, NoRepetition
  <2>3. n \in Msgs /\ n \in Range(toBE[f])
    BY <2>2, TailMembers
  <2>4. PICK s \in States : Receive(BE, n, s)
    BY <1>6 DEF BePopSent, BePopRefused, States, RStates, TStates
  <2> HIDE DEF n
  <2>5. n # Response /\ state[Response] = "free"
    BY <1>1, <2>1, <2>3 DEF BePop, Placed, Sockets, ResponseHeld
  <2> QED BY <1>1, <2>4, <2>5 DEF Receive, Enter, TypeOK, ResponseHeld
<1>7. CASE BePostSent \/ BePostFailed \/ BePostVanished
  <2>1. BePost /\ Pulsing
    BY <1>7 DEF BePostSent, BePostFailed, BePostVanished, BePost
  <2>2. Marked # Response
    BY <1>1, <2>1, PostedIsFinished, MarkedMembers DEF ResponseHeld
  <2>3. UNCHANGED <<requester, state>>
    BY <2>1 DEF BePost
  <2>4. owner'[Response] = owner[Response]
    BY <1>1, <1>7, <2>2 DEF BePostSent, BePostFailed, BePostVanished, Release, TypeOK
  <2>5. phase' = phase \/ phase' = "top_failed"
    BY <1>7 DEF BePostSent, BePostFailed, BePostVanished
  <2> QED BY <2>3, <2>4, <2>5 DEF ResponseHeld
<1>8. CASE BeDelete
  <2>1. /\ Release(BE, Marked) /\ UNCHANGED phase
        /\ state' = [state EXCEPT ![Marked] = "free"]
        /\ requester' = [requester EXCEPT ![Marked] = None]
    BY <1>8 DEF BeDelete, envVars
  <2> QED BY <1>1, <2>1 DEF Release, TypeOK, ResponseHeld
<1>9. CASE BePulseNothing
  BY <1>9 DEF BePulseNothing, envVars, ResponseHeld
<1>10. ASSUME NEW m \in Msgs,
              BeTickle(m) \/ BeFinish(m) \/ BeStart(m) \/ BeStartCancel(m)
       PROVE  ResponseHeld'
  <2>1. phase \in TicklePhases \cup {"event"}
    BY <1>10 DEF BeTickle, BeFinish, BeStart, BeStartCancel
  <2>2. state[Response] = "free"
    BY <2>1 DEF TicklePhases, ResponseHeld
  <2>3. m # Response
    BY <1>10, <2>2 DEF BeTickle, BeFinish, BeStart, BeStartCancel
  <2>4. state'[Response] = state[Response]
    BY <1>1, <1>10, <2>3 DEF BeTickle, BeFinish, BeStart, BeStartCancel, Create, Enter, TypeOK
  <2> QED BY <2>2, <2>4 DEF ResponseHeld
<1>11. CASE BeOtherEvent
  BY <1>1, <1>11 DEF BeOtherEvent, Create, TypeOK, ResponseHeld
<1>12. CASE BeAnswerTime
  BY <1>1, <1>12 DEF BeAnswerTime, TypeOK, ResponseHeld
<1>13. CASE BeThread
  BY <1>13, <1>4, <1>5, <1>6, <1>7, <1>8, <1>9, <1>10, <1>11, <1>12
     DEF BeThread, BeReceive, BePulse, BeOwnWork, BeEvent
<1> QED BY <1>2, <1>5, <1>13 DEF Next

\* The response object of a callback is deleted before the next TWS message is
\* handled, however many callbacks come in one read.
THEOREM ResponsesGone == Spec => []ResponsesDeletedInTime
<1>1. Placed /\ ResponseHeld /\ [Next]_vars => (Placed /\ ResponseHeld)'
  BY PlacedNext, ResponseHeldNext
<1>2. ResponseHeld => ResponsesDeletedInTime
  BY DEF ResponseHeld, ResponsesDeletedInTime
<1> QED BY <1>1, <1>2, PlacedInit, ResponseHeldInit, PTL DEF Spec

-----------------------------------------------------------------------------
(* The answers TWS owes *)

\* Only a request that is popped and transmitted begins to await the time; the
\* answer ends the wait of all, and a lost connection is a drop.
LEMMA AwaitingSteps ==
  ASSUME Placed, [Next]_vars, ~BeAnswerTime
  PROVE  \/ /\ AwaitingTime' \subseteq AwaitingTime
            /\ drops' = 0 => drops = 0 /\ owed' = owed
         \/ /\ \E m \in Msgs : AwaitingTime' \subseteq AwaitingTime \cup {m}
            /\ owed' = owed + 1 /\ drops' = drops
<1>1. /\ TypeOK /\ Response \in Msgs /\ BE \notin FrontEnds /\ None # BE /\ BE \in Procs
      /\ drops \in Nat
  BY Tier2Assumption DEF Placed, Procs, TypeOK
<1> DEFINE Shrinks == /\ AwaitingTime' \subseteq AwaitingTime
                      /\ drops' = 0 => drops = 0 /\ owed' = owed
<1>2. ASSUME NEW f \in FrontEnds, FeThread(f) PROVE Shrinks
  <2>1. owned'[BE] = owned[BE] /\ owed' = owed /\ drops' = drops
    BY <1>1, <1>2 DEF FeThread, FeRequest, FeRequestFailed, FeRequestVanished, FePop,
                      FeGiveUp, BeginRequest, Receive, TypeOK, msgVars
  <2>2. ASSUME NEW m \in owned[BE] PROVE state'[m] = state[m] /\ requester'[m] = requester[m]
    <3>1. m \in Msgs /\ state[m] # "free"
      BY <1>1, <2>2 DEF TypeOK, Placed, Ownership
    <3>2. CASE FePop(f)
      BY <1>1, <3>1, <3>2 DEF FePop, Receive, Enter, TypeOK
    <3>3. CASE FeGiveUp(f)
      BY <3>3 DEF FeGiveUp, msgVars
    <3>4. ASSUME NEW n \in Msgs, BeginRequest(f, n)
          PROVE  state'[m] = state[m] /\ requester'[m] = requester[m]
      BY <1>1, <3>1, <3>4 DEF BeginRequest, TypeOK
    <3> QED BY <1>2, <3>2, <3>3, <3>4
            DEF FeThread, FeRequest, FeRequestFailed, FeRequestVanished
  <2> QED BY <2>1, <2>2 DEF AwaitingTime
<1>3. CASE BeNoMail \/ BeFetch \/ BePulseDone \/ BeBreakOff \/ BeTickleDone \/ BeReadMore
           \/ BeDrop \/ BeConnect \/ BeExit \/ Stop \/ Terminated \/ UNCHANGED vars
  <2>1. UNCHANGED msgVars
    BY <1>3 DEF BeNoMail, BeFetch, BePulseDone, BeBreakOff, BeTickleDone, BeReadMore,
                BeDrop, BeConnect, BeExit, Stop, Terminated, vars, msgVars
  <2>2. drops' = 0 => drops = 0 /\ owed' = owed
    BY <1>1, <1>3 DEF BeNoMail, BeFetch, BePulseDone, BeBreakOff, BeTickleDone, BeReadMore,
                      BeDrop, BeConnect, BeExit, Stop, Terminated, vars
  <2> QED BY <2>1, <2>2 DEF msgVars, AwaitingTime
<1>4. ASSUME NEW f \in FrontEnds, BePop(f), Receive(BE, Head(toBE[f]), "FAILED"), owed' = owed
      PROVE  Shrinks
  <2> DEFINE n == Head(toBE[f])
  <2>1. /\ owned' = [owned EXCEPT ![BE] = @ \cup {n}]
        /\ state' = [state EXCEPT ![n] = "FAILED"]
        /\ UNCHANGED <<requester, drops, owed>>
    BY <1>4 DEF BePop, Receive, Enter
  <2>2. n \in Msgs
    <3>1. toBE[f] # <<>> /\ toBE[f] \in Seq(Msgs) /\ IsInjective(toBE[f])
      BY <1>1, <1>4 DEF BePop, FirstWithMail, HasMail, TypeOK, Placed, NoRepetition
    <3> QED BY <3>1, TailMembers
  <2> HIDE DEF n
  <2>3. /\ owned'[BE] = owned[BE] \cup {n}
        /\ \A m \in Msgs : m # n => state'[m] = state[m]
        /\ state'[n] = "FAILED"
        /\ owned[BE] \subseteq Msgs
    BY <1>1, <2>1, <2>2 DEF TypeOK
  <2> QED BY <2>1, <2>2, <2>3 DEF AwaitingTime
<1>5. ASSUME NEW f \in FrontEnds, BePop(f), owed' = owed + 1,
             Receive(BE, Head(toBE[f]), "READY_TO_RECEIVE_RESPONSE")
      PROVE  /\ \E m \in Msgs : AwaitingTime' \subseteq AwaitingTime \cup {m}
             /\ drops' = drops
  <2> DEFINE n == Head(toBE[f])
  <2>1. /\ owned' = [owned EXCEPT ![BE] = @ \cup {n}]
        /\ state' = [state EXCEPT ![n] = "READY_TO_RECEIVE_RESPONSE"]
        /\ UNCHANGED <<requester, drops>>
    BY <1>5 DEF BePop, Receive, Enter
  <2>2. n \in Msgs
    <3>1. toBE[f] # <<>> /\ toBE[f] \in Seq(Msgs) /\ IsInjective(toBE[f])
      BY <1>1, <1>5 DEF BePop, FirstWithMail, HasMail, TypeOK, Placed, NoRepetition
    <3> QED BY <3>1, TailMembers
  <2> HIDE DEF n
  <2>3. /\ owned'[BE] = owned[BE] \cup {n}
        /\ \A m \in Msgs : m # n => state'[m] = state[m]
        /\ owned[BE] \subseteq Msgs
    BY <1>1, <2>1 DEF TypeOK
  <2>4. AwaitingTime' \subseteq AwaitingTime \cup {n}
    BY <2>1, <2>3 DEF AwaitingTime
  <2> QED BY <2>1, <2>2, <2>4
<1>6. CASE BePostSent \/ BePostFailed \/ BePostVanished \/ BePulseNothing
  <2>1. /\ owned'[BE] \subseteq owned[BE]
        /\ UNCHANGED <<requester, state, owed, drops>>
    BY <1>1, <1>6 DEF BePostSent, BePostFailed, BePostVanished, BePulseNothing, BePost,
                      Release, envVars, TypeOK
  <2> QED BY <2>1 DEF AwaitingTime
<1>7. CASE BeDelete
  <2>1. /\ owned' = [owned EXCEPT ![BE] = @ \ {Marked}]
        /\ state' = [state EXCEPT ![Marked] = "free"]
        /\ requester' = [requester EXCEPT ![Marked] = None]
        /\ UNCHANGED <<owed, drops>>
    BY <1>7 DEF BeDelete, Release, envVars
  <2>2. /\ owned'[BE] = owned[BE] \ {Marked}
        /\ \A m \in Msgs : m # Marked => state'[m] = state[m] /\ requester'[m] = requester[m]
        /\ owned[BE] \subseteq Msgs
    BY <1>1, <2>1 DEF TypeOK
  <2> QED BY <2>1, <2>2 DEF AwaitingTime
<1>8. ASSUME NEW n \in Msgs, BeTickle(n) \/ BeFinish(n)
      PROVE  Shrinks
  <2>1. requester[n] = BE
    BY <1>1, <1>8 DEF BeTickle, BeFinish, Placed, Ownership, Procs
  <2>2. /\ UNCHANGED <<requester, owned, owed, drops>>
        /\ \A m \in Msgs : m # n => state'[m] = state[m]
        /\ owned[BE] \subseteq Msgs
    BY <1>1, <1>8 DEF BeTickle, BeFinish, Enter, envVars, TypeOK
  <2> QED BY <2>1, <2>2 DEF AwaitingTime
<1>9. ASSUME NEW n \in Msgs, NEW s \in States, Create(BE, n, s), UNCHANGED <<owed, drops>>
      PROVE  Shrinks
  <2>1. /\ owned'[BE] = owned[BE] \cup {n} /\ requester'[n] = BE
        /\ \A m \in Msgs : m # n => state'[m] = state[m] /\ requester'[m] = requester[m]
        /\ owned[BE] \subseteq Msgs
    BY <1>1, <1>9 DEF Create, TypeOK
  <2> QED BY <1>9, <2>1 DEF AwaitingTime
<1>10. ASSUME NEW n \in Msgs, BeStart(n) \/ BeStartCancel(n)
       PROVE  Shrinks
  <2>1. \E s \in States : Create(BE, n, s)
    BY <1>10 DEF BeStart, BeStartCancel, States, RStates, TStates
  <2>2. UNCHANGED <<owed, drops>>
    BY <1>10 DEF BeStart, BeStartCancel, envVars
  <2> QED BY <1>9, <2>1, <2>2
<1>11. CASE BeOtherEvent
  <2>1. "DESTRUCTION" \in States
    BY DEF States, TStates
  <2> QED BY <1>1, <1>9, <1>11, <2>1 DEF BeOtherEvent
<1> HIDE DEF Shrinks
<1>12. CASE BeReceive
  BY <1>3, <1>4, <1>5, <1>12 DEF BeReceive, BePopSent, BePopRefused, Shrinks
<1>13. CASE BePulse \/ BeOwnWork \/ BeEvent
  BY <1>3, <1>6, <1>7, <1>8, <1>10, <1>11, <1>13 DEF BePulse, BeOwnWork, BeEvent, Shrinks
<1> QED BY <1>2, <1>3, <1>12, <1>13 DEF Next, BeThread, Shrinks

LEMMA OwedInit == Init => AnswerOwed
<1> SUFFICES ASSUME Init PROVE AnswerOwed
  OBVIOUS
<1>1. AwaitingTime = {}
  BY DEF Init, AwaitingTime, Procs
<1> QED BY <1>1, FS_EmptySet DEF Init, AnswerOwed

LEMMA OwedNext == Placed /\ AnswerOwed /\ [Next]_vars => AnswerOwed'
<1> SUFFICES ASSUME Placed, AnswerOwed, [Next]_vars, drops' = 0
             PROVE  owed' >= Cardinality(AwaitingTime')
  BY DEF AnswerOwed
<1>1. IsFiniteSet(AwaitingTime) /\ Cardinality(AwaitingTime) \in Nat /\ owed \in Nat
  BY AwaitingTimeUnmarked, FS_CardinalityType DEF Placed, TypeOK
<1>2. CASE BeAnswerTime
  <2>1. AwaitingTime' = {}
    <3>1. /\ owned'[BE] = owned[BE] \cup {Response} /\ owned[BE] \subseteq Msgs
          /\ Response \in Msgs /\ requester'[Response] = BE
          /\ \A m \in Msgs : m # Response => requester'[m] = requester[m]
          /\ \A m \in Msgs : m # Response /\ m \in AwaitingTime => state'[m] = "RESPONSE_COMPLETE"
          /\ \A m \in Msgs : m # Response /\ m \notin AwaitingTime => state'[m] = state[m]
      BY <1>2, Tier2Assumption DEF BeAnswerTime, Placed, TypeOK, Procs
    <3> QED BY <3>1 DEF AwaitingTime
  <2>2. owed' \in Nat
    BY <1>1, <1>2 DEF BeAnswerTime
  <2> QED BY <2>1, <2>2, FS_EmptySet
<1>3. CASE ~BeAnswerTime
  <2>1. CASE AwaitingTime' \subseteq AwaitingTime /\ drops = 0 /\ owed' = owed
    <3>1. Cardinality(AwaitingTime') <= Cardinality(AwaitingTime) /\ IsFiniteSet(AwaitingTime')
      BY <1>1, <2>1, FS_Subset
    <3>2. Cardinality(AwaitingTime') \in Nat
      BY <3>1, FS_CardinalityType
    <3> QED BY <1>1, <2>1, <3>1, <3>2 DEF AnswerOwed
  <2>2. ASSUME NEW m \in Msgs, AwaitingTime' \subseteq AwaitingTime \cup {m},
               owed' = owed + 1, drops = 0
        PROVE  owed' >= Cardinality(AwaitingTime')
    <3>1. /\ IsFiniteSet(AwaitingTime \cup {m})
          /\ Cardinality(AwaitingTime \cup {m}) <= Cardinality(AwaitingTime) + 1
          /\ Cardinality(AwaitingTime \cup {m}) \in Nat
      BY <1>1, FS_AddElement, FS_CardinalityType
    <3>2. /\ Cardinality(AwaitingTime') <= Cardinality(AwaitingTime \cup {m})
          /\ IsFiniteSet(AwaitingTime')
      BY <2>2, <3>1, FS_Subset
    <3>3. Cardinality(AwaitingTime') \in Nat
      BY <3>2, FS_CardinalityType
    <3> QED BY <1>1, <2>2, <3>1, <3>2, <3>3 DEF AnswerOwed
  <2> QED BY <1>3, <2>1, <2>2, AwaitingSteps
<1> QED BY <1>2, <1>3

\* On a connection that never broke, no request awaits an answer that TWS does
\* not owe any more.
THEOREM AnswersOwed == Spec => []AnswerOwed
<1>1. Init => Placed /\ AnswerOwed
  BY PlacedInit, OwedInit
<1>2. Placed /\ AnswerOwed /\ [Next]_vars => (Placed /\ AnswerOwed)'
  BY PlacedNext, OwedNext
<1> QED BY <1>1, <1>2, PTL DEF Spec

-----------------------------------------------------------------------------
(* Who frees memory *)

\* A message is freed by the pulse of its creator, which owns it.
LEMMA FreeingStep ==
  ASSUME Placed, [Next]_vars, NEW m \in Msgs, state[m] # "free", state'[m] = "free"
  PROVE  /\ owner[m] = requester[m]
         /\ owner[m] = BE => phase \in PulsePhases
<1>1. TypeOK /\ Response \in Msgs /\ BE \in Procs
  BY Tier2Assumption DEF Placed, Procs
<1>2. ASSUME UNCHANGED state PROVE FALSE
  BY <1>2
<1>3. ASSUME NEW n \in Msgs, NEW p \in Procs, NEW s \in States \ {"free"}, Enter(p, n, s)
      PROVE  FALSE
  BY <1>1, <1>3 DEF Enter, TypeOK
<1>4. ASSUME NEW n \in Msgs, NEW s \in States \ {"free"}, Create(BE, n, s)
      PROVE  FALSE
  BY <1>1, <1>4 DEF Create, TypeOK
<1>5. ASSUME NEW f \in FrontEnds, FeThread(f) PROVE FALSE
  <2>1. ASSUME NEW n \in Msgs, BeginRequest(f, n) PROVE FALSE
    BY <1>1, <2>1 DEF BeginRequest, TypeOK
  <2>2. ASSUME FePop(f) PROVE FALSE
    BY <1>1, <2>2 DEF FePop, Receive, Enter, TypeOK
  <2>3. ASSUME FeGiveUp(f) PROVE FALSE
    BY <1>2, <2>3 DEF FeGiveUp, msgVars
  <2> QED BY <1>5, <2>1, <2>2, <2>3
          DEF FeThread, FeRequest, FeRequestFailed, FeRequestVanished
<1>6. ASSUME NEW f \in FrontEnds, BePopSent(f) \/ BePopRefused(f) PROVE FALSE
  BY <1>1, <1>6 DEF BePopSent, BePopRefused, Receive, Enter, TypeOK
<1>7. ASSUME BeNoMail \/ BeFetch \/ BePulseDone \/ BeBreakOff \/ BeTickleDone \/ BeReadMore
             \/ BeDrop \/ BeConnect \/ BeExit \/ Stop \/ Terminated \/ UNCHANGED vars
      PROVE  FALSE
  BY <1>2, <1>7 DEF BeNoMail, BeFetch, BePulseDone, BeBreakOff, BeTickleDone, BeReadMore,
                    BeDrop, BeConnect, BeExit, Stop, Terminated, vars, msgVars
<1>8. ASSUME BePostSent \/ BePostFailed \/ BePostVanished \/ BePulseNothing PROVE FALSE
  BY <1>2, <1>8 DEF BePostSent, BePostFailed, BePostVanished, BePulseNothing, BePost
<1>9. ASSUME NEW n \in Msgs, BeTickle(n) \/ BeFinish(n) PROVE FALSE
  <2>1. \E s \in States \ {"free"} : Enter(BE, n, s)
    BY <1>9 DEF BeTickle, BeFinish, States, RStates, TStates
  <2> QED BY <1>1, <1>3, <2>1
<1>10. ASSUME NEW n \in Msgs, BeStart(n) \/ BeStartCancel(n) PROVE FALSE
  <2>1. \E s \in States \ {"free"} : Create(BE, n, s)
    BY <1>10 DEF BeStart, BeStartCancel, States, RStates, TStates
  <2> QED BY <1>4, <2>1
<1>11. ASSUME BeOtherEvent PROVE FALSE
  BY <1>1, <1>4, <1>11 DEF BeOtherEvent, States, TStates
<1>12. ASSUME BeAnswerTime PROVE FALSE
  BY <1>1, <1>12 DEF BeAnswerTime
<1>13. BeDelete
  BY <1>5, <1>6, <1>7, <1>8, <1>9, <1>10, <1>11, <1>12
     DEF Next, BeThread, BeReceive, BePulse, BeOwnWork, BeEvent
<1>14. /\ Pulsing /\ requester[Marked] = BE
       /\ state' = [state EXCEPT ![Marked] = "free"]
  BY <1>13 DEF BeDelete
<1>15. m = Marked
  BY <1>1, <1>14 DEF TypeOK
<1> QED BY <1>14, <1>15, MarkedMembers DEF Pulsing

\* "Messages are ALWAYS returned to their requester for destruction": memory is
\* freed only by the thread that created the message, while it owns it and
\* pulses it.
THEOREM FreedByRequester == Spec => DeletedByRequester
<1>1. Placed /\ [Next]_vars =>
        [\A m \in Msgs : state[m] # "free" /\ state'[m] = "free"
           => /\ owner[m] = requester[m]
              /\ owner[m] = BE => phase \in PulsePhases]_vars
  BY FreeingStep
<1> QED BY <1>1, PlacedAlways, PTL DEF Spec, DeletedByRequester

-----------------------------------------------------------------------------
(* Service *)

Stage == [m \in Msgs |-> StageOf(m)]
Asker == [m \in Msgs |-> IF requester[m] \in FrontEnds THEN requester[m] ELSE None]

\* The stage of a message by where it is.
LEMMA StageCases ==
  ASSUME NEW m \in Msgs
  PROVE  /\ requester[m] \notin FrontEnds => StageOf(m) = "none"
         /\ requester[m] \in FrontEnds =>
              /\ m \in lost => StageOf(m) = "vanished"
              /\ m \notin lost /\ owner[m] = BE =>
                   StageOf(m) = IF state[m] \in RStates THEN "working" ELSE "finished"
              /\ m \notin lost /\ owner[m] = None =>
                   StageOf(m) = IF m \in Range(toBE[requester[m]]) THEN "asked" ELSE "finished"
              /\ m \notin lost /\ owner[m] \notin {BE, None} =>
                   StageOf(m) = IF state[m] \in RStates THEN "unsent" ELSE "returned"
<1>1. None # BE
  BY Tier2Assumption
<1> QED BY <1>1 DEF StageOf

LEMMA StageCasesNext ==
  ASSUME NEW m \in Msgs
  PROVE  /\ requester'[m] \notin FrontEnds => StageOf(m)' = "none"
         /\ requester'[m] \in FrontEnds =>
              /\ m \in lost' => StageOf(m)' = "vanished"
              /\ m \notin lost' /\ owner'[m] = BE =>
                   StageOf(m)' = IF state'[m] \in RStates THEN "working" ELSE "finished"
              /\ m \notin lost' /\ owner'[m] = None =>
                   StageOf(m)' = IF m \in Range(toBE'[requester'[m]]) THEN "asked" ELSE "finished"
              /\ m \notin lost' /\ owner'[m] \notin {BE, None} =>
                   StageOf(m)' = IF state'[m] \in RStates THEN "unsent" ELSE "returned"
<1>1. None # BE
  BY Tier2Assumption
<1> QED BY <1>1 DEF StageOf

\* A message nothing is done to keeps its stage.
LEMMA StageKept ==
  ASSUME NEW m \in Msgs, requester'[m] = requester[m], owner'[m] = owner[m],
         state'[m] = state[m], m \in lost' <=> m \in lost,
         \A f \in FrontEnds : m \in Range(toBE'[f]) <=> m \in Range(toBE[f])
  PROVE  StageOf(m)' = StageOf(m)
BY StageCases, StageCasesNext

\* A front-end issues a request, whether its hand-over succeeds or not.
LEMMA IssueImplementsAsk ==
  ASSUME Placed, NEW f \in FrontEnds, NEW m \in Msgs, BeginRequest(f, m),
         \A n \in Msgs : n # m =>
           /\ owner'[n] = owner[n]
           /\ n \in lost' <=> n \in lost
           /\ \A g \in FrontEnds : n \in Range(toBE'[g]) <=> n \in Range(toBE[g]),
         StageOf(m)' \in {"asked", "unsent", "vanished"}
  PROVE  Service!Ask(f, m)
<1>1. /\ TypeOK /\ None \notin FrontEnds
      /\ requester[m] = None
  BY Tier2Assumption DEF Placed, Ownership, BeginRequest
<1>2. /\ requester' = [requester EXCEPT ![m] = f] /\ state' = [state EXCEPT ![m] = "EXEC_COMMAND"]
      /\ waiting' = [waiting EXCEPT ![f] = IF stopped THEN None ELSE m]
      /\ waiting[f] = None /\ stopped' = stopped
  BY DEF BeginRequest
<1>3. StageOf(m) = "none"
  BY <1>1, StageCases
<1>4. ASSUME NEW n \in Msgs, n # m PROVE StageOf(n)' = StageOf(n)
  <2>1. requester'[n] = requester[n] /\ state'[n] = state[n]
    BY <1>1, <1>2, <1>4 DEF TypeOK
  <2> QED BY <1>4, <2>1, StageKept
<1>5. Stage' = [Stage EXCEPT ![m] = StageOf(m)']
  BY <1>4 DEF Stage
<1>6. Asker' = [Asker EXCEPT ![m] = f]
  BY <1>1, <1>2 DEF Asker, TypeOK
<1>7. Stage[m] = "none"
  BY <1>3 DEF Stage
<1> QED BY <1>2, <1>5, <1>6, <1>7 DEF Service!Ask, Stage, Asker

LEMMA FeRequestsImplementAsk ==
  ASSUME Placed, NEW f \in FrontEnds, NEW m \in Msgs,
         FeRequest(f, m) \/ FeRequestFailed(f, m) \/ FeRequestVanished(f, m)
  PROVE  Service!Ask(f, m)
<1>1. /\ TypeOK /\ None # BE /\ f # BE /\ f # None /\ f \in Procs
  BY Tier2Assumption DEF Placed, Procs
<1>2. BeginRequest(f, m)
  BY DEF FeRequest, FeRequestFailed, FeRequestVanished
<1>3. /\ state[m] = "free" /\ owner[m] = None /\ m \notin lost
      /\ requester'[m] = f /\ state'[m] = "EXEC_COMMAND"
  BY <1>1, <1>2 DEF BeginRequest, Placed, Ownership, TypeOK
<1>4. CASE FeRequest(f, m)
  <2>1. /\ toBE' = [toBE EXCEPT ![f] = Append(@, m)] /\ UNCHANGED <<owner, lost>>
        /\ Range(Append(toBE[f], m)) = Range(toBE[f]) \cup {m}
    BY <1>1, <1>4, AppendMembers DEF FeRequest, TypeOK
  <2>2. /\ Range(toBE'[f]) = Range(toBE[f]) \cup {m}
        /\ \A g \in FrontEnds : g # f => toBE'[g] = toBE[g]
    BY <1>1, <2>1 DEF TypeOK
  <2>3. StageOf(m)' = "asked"
    BY <1>3, <2>1, <2>2, StageCasesNext
  <2> QED BY <1>2, <2>1, <2>2, <2>3, IssueImplementsAsk
<1>5. CASE FeRequestFailed(f, m)
  <2>1. /\ owner'[m] = f /\ UNCHANGED <<toBE, lost>>
        /\ \A n \in Msgs : n # m => owner'[n] = owner[n]
    BY <1>1, <1>5 DEF FeRequestFailed, TypeOK
  <2>2. StageOf(m)' = "unsent"
    BY <1>1, <1>3, <2>1, StageCasesNext DEF RStates
  <2> QED BY <1>2, <2>1, <2>2, IssueImplementsAsk
<1>6. CASE FeRequestVanished(f, m)
  <2>1. lost' = lost \cup {m} /\ UNCHANGED <<owner, toBE>>
    BY <1>6 DEF FeRequestVanished
  <2>2. StageOf(m)' = "vanished"
    BY <1>3, <2>1, StageCasesNext
  <2> QED BY <1>2, <2>1, <2>2, IssueImplementsAsk
<1> QED BY <1>4, <1>5, <1>6

\* What a front-end pops is the finished request it waits for.
LEMMA PopImplementsReturn ==
  ASSUME Placed, PopsTheAwaited, NEW f \in FrontEnds, FePop(f)
  PROVE  \E m \in Msgs : Service!Return(m)
<1>1. /\ TypeOK /\ None # BE /\ f # BE /\ f # None /\ f \in Procs
  BY Tier2Assumption DEF Placed, Procs
<1>2. /\ toFE[f] # <<>>
      /\ toFE[f] \in Seq(Msgs) /\ IsInjective(toFE[f])
  BY <1>1 DEF FePop, TypeOK, Placed, NoRepetition
<1>3. PICK m \in Msgs : m = Head(toFE[f]) /\ m \in Range(toFE[f])
  BY <1>2, TailMembers
<1>4. /\ Receive(f, m, state[m])
       /\ waiting' = [waiting EXCEPT ![f] = IF m = @ THEN None ELSE @]
       /\ UNCHANGED <<requester, toBE, lost, stopped>> /\ waiting[f] # None
  BY <1>3 DEF FePop
<1>5. /\ requester[m] = f /\ owner[m] = None /\ m \notin lost
      /\ state[m] \in {"RESPONSE_COMPLETE", "FAILED"}
      /\ m \notin Range(toBE[f])
  BY <1>3 DEF Placed, Sockets
<1>6. waiting[f] = m
  BY <1>1, <1>4, <1>5 DEF PopsTheAwaited
<1>7. /\ owner'[m] = f /\ state'[m] = state[m]
      /\ \A n \in Msgs : n # m => owner'[n] = owner[n] /\ state'[n] = state[n]
  BY <1>1, <1>4 DEF Receive, Enter, TypeOK
<1>8. StageOf(m) = "finished"
  BY <1>5, StageCases
<1>9. StageOf(m)' = "returned"
  BY <1>1, <1>4, <1>5, <1>7, StageCasesNext DEF RStates
<1>10. \A n \in Msgs : n # m => StageOf(n)' = StageOf(n)
  BY <1>4, <1>7, StageKept
<1>11. Stage' = [Stage EXCEPT ![m] = "returned"] /\ Stage[m] = "finished"
  BY <1>8, <1>9, <1>10 DEF Stage
<1>12. Asker' = Asker /\ Asker[m] = f
  BY <1>4, <1>5 DEF Asker
<1>13. waiting' = [waiting EXCEPT ![f] = None]
  BY <1>1, <1>4, <1>6 DEF TypeOK
<1>14. Service!Return(m)
  BY <1>4, <1>6, <1>11, <1>12, <1>13 DEF Service!Return, Stage, Asker
<1> QED BY <1>14

\* Steps that change no stage, no front-end's requests and no wait.
LEMMA StutterSteps ==
  ASSUME UNCHANGED <<waiting, stopped>>,
         \A n \in Msgs :
           \/ /\ requester'[n] = requester[n]
              /\ StageOf(n)' = StageOf(n)
           \/ requester[n] \notin FrontEnds /\ requester'[n] \notin FrontEnds
  PROVE  UNCHANGED Service!vars
<1>1. \A n \in Msgs : StageOf(n)' = StageOf(n)
  BY StageCases, StageCasesNext
<1>2. Stage' = Stage
  BY <1>1 DEF Stage
<1>3. Asker' = Asker
  BY DEF Asker
<1> QED BY <1>2, <1>3 DEF Service!vars, Stage, Asker

\* The back-end takes the front-end's command, which goes on or fails.
LEMMA BePopImplementsAccept ==
  ASSUME Placed, NEW f \in FrontEnds, BePopSent(f) \/ BePopRefused(f)
  PROVE  \E m \in Msgs : Service!Accept(m)
<1>1. /\ TypeOK /\ None # BE /\ f # BE /\ f # None /\ f \in Procs /\ BE \in Procs
  BY Tier2Assumption DEF Placed, Procs
<1>2. BePop(f)
  BY DEF BePopSent, BePopRefused
<1>3. /\ toBE[f] # <<>>
      /\ toBE[f] \in Seq(Msgs) /\ IsInjective(toBE[f])
      /\ toBE' = [toBE EXCEPT ![f] = Tail(@)]
      /\ UNCHANGED <<requester, lost, waiting, stopped>>
  BY <1>1, <1>2 DEF BePop, FirstWithMail, HasMail, TypeOK, Placed, NoRepetition
<1>4. PICK m \in Msgs : m = Head(toBE[f]) /\ m \in Range(toBE[f])
  BY <1>3, TailMembers
<1>5. PICK s \in States : Receive(BE, m, s)
  BY <1>4 DEF BePopSent, BePopRefused, States, RStates, TStates
<1>6. /\ requester[m] = f /\ owner[m] = None /\ m \notin lost
  BY <1>4 DEF Placed, Sockets
<1>7. /\ owner'[m] = BE
      /\ \A n \in Msgs : n # m => owner'[n] = owner[n] /\ state'[n] = state[n]
  BY <1>1, <1>5 DEF Receive, Enter, TypeOK
<1>8. /\ Range(toBE'[f]) = Range(toBE[f]) \ {m}
      /\ \A g \in FrontEnds : g # f => toBE'[g] = toBE[g]
  BY <1>1, <1>3, <1>4, TailMembers DEF TypeOK
<1>9. StageOf(m) = "asked"
  BY <1>4, <1>6, StageCases
<1>10. StageOf(m)' \in {"working", "finished"}
  BY <1>3, <1>6, <1>7, StageCasesNext
<1>11. \A n \in Msgs : n # m => StageOf(n)' = StageOf(n)
  BY <1>3, <1>7, <1>8, StageKept
<1>12. Stage' = [Stage EXCEPT ![m] = StageOf(m)'] /\ Stage[m] = "asked"
  BY <1>9, <1>11 DEF Stage
<1>13. Asker' = Asker
  BY <1>3 DEF Asker
<1>14. Service!Accept(m)
  BY <1>3, <1>10, <1>12, <1>13 DEF Service!Accept, Stage, Asker
<1> QED BY <1>14

\* Posting a finished request does not change its stage, unless it is dropped.
LEMMA BePostImplements ==
  ASSUME Placed, BePostSent \/ BePostFailed \/ BePostVanished
  PROVE  UNCHANGED Service!vars \/ \E m \in Msgs : Service!Vanish(m)
<1>1. /\ TypeOK /\ None # BE /\ BE \notin FrontEnds /\ BE \in Procs
  BY Tier2Assumption DEF Placed, Procs
<1>2. BePost /\ Pulsing
  BY DEF BePostSent, BePostFailed, BePostVanished, BePost
<1>3. PICK m \in Msgs : m = Marked /\ owner[m] = BE
  BY <1>2, MarkedMembers
<1>4. requester[m] \in FrontEnds /\ state[m] \in {"RESPONSE_COMPLETE", "FAILED"}
  BY <1>2, <1>3, PostedIsFinished
<1>5. /\ m \notin lost
      /\ \A g \in FrontEnds : m \notin Range(toBE[g])
  BY <1>1, <1>3 DEF Placed, Ownership, Sockets
<1>6. UNCHANGED <<requester, state, toBE, waiting, stopped>>
  BY <1>2 DEF BePost
<1>7. StageOf(m) = "finished"
  BY <1>3, <1>4, <1>5, StageCases DEF RStates
<1>8. CASE BePostFailed
  <2>1. UNCHANGED <<owner, lost>>
    BY <1>8 DEF BePostFailed
  <2>2. \A n \in Msgs : StageOf(n)' = StageOf(n)
    BY <1>6, <2>1, StageKept
  <2> QED BY <1>6, <2>2, StutterSteps
<1>9. CASE BePostSent
  <2>1. UNCHANGED lost /\ owner' = [owner EXCEPT ![m] = None]
    BY <1>3, <1>9 DEF BePostSent, Release
  <2>2. /\ owner'[m] = None
        /\ \A n \in Msgs : n # m => owner'[n] = owner[n]
    BY <1>1, <2>1 DEF TypeOK
  <2>3. StageOf(m)' = "finished"
    BY <1>4, <1>5, <1>6, <2>1, <2>2, StageCasesNext
  <2>4. \A n \in Msgs : n # m => StageOf(n)' = StageOf(n)
    BY <1>6, <2>1, <2>2, StageKept
  <2> QED BY <1>6, <1>7, <2>3, <2>4, StutterSteps
<1>10. CASE BePostVanished
  <2>1. lost' = lost \cup {m} /\ owner' = [owner EXCEPT ![m] = None]
    BY <1>3, <1>10 DEF BePostVanished, Release
  <2>2. \A n \in Msgs : n # m => owner'[n] = owner[n]
    BY <1>1, <2>1 DEF TypeOK
  <2>3. StageOf(m)' = "vanished"
    BY <1>4, <1>6, <2>1, StageCasesNext
  <2>4. \A n \in Msgs : n # m => StageOf(n)' = StageOf(n)
    BY <1>6, <2>1, <2>2, StageKept
  <2>5. Stage' = [Stage EXCEPT ![m] = "vanished"] /\ Stage[m] = "finished"
    BY <1>7, <2>3, <2>4 DEF Stage
  <2>6. Asker' = Asker
    BY <1>6 DEF Asker
  <2>7. Service!Vanish(m)
    BY <1>6, <2>5, <2>6 DEF Service!Vanish, Stage, Asker
  <2> QED BY <2>7
<1> QED BY <1>8, <1>9, <1>10

\* One answer serves every request that awaits the time.
LEMMA AnswerTimeImplementsAnswer ==
  ASSUME Placed, BeAnswerTime
  PROVE  \E served \in SUBSET Msgs : Service!Answer(served)
<1>1. /\ TypeOK /\ None # BE /\ BE \notin FrontEnds /\ BE \in Procs
      /\ Response \in Msgs /\ None \notin FrontEnds
  BY Tier2Assumption DEF Placed, Procs
<1>2. PICK served \in SUBSET Msgs : served = AwaitingTime
  BY AwaitingTimeUnmarked
<1>3. \A n \in served : /\ owner[n] = BE /\ requester[n] \in FrontEnds /\ n # Response
                        /\ state[n] = "READY_TO_RECEIVE_RESPONSE" /\ n \notin lost
  <2>1. state[Response] = "free"
    BY DEF BeAnswerTime
  <2> QED BY <1>1, <1>2, <2>1, AwaitingTimeUnmarked DEF Placed, Ownership
<1>4. /\ \A n \in Msgs : n # Response => owner'[n] = owner[n] /\ requester'[n] = requester[n]
      /\ \A n \in served : state'[n] = "RESPONSE_COMPLETE"
      /\ \A n \in Msgs : n # Response /\ n \notin served => state'[n] = state[n]
      /\ requester'[Response] = BE
      /\ UNCHANGED <<toBE, lost, waiting, stopped>>
  BY <1>1, <1>2, <1>3 DEF BeAnswerTime, TypeOK
<1>5. requester[Response] = None
  BY <1>1 DEF BeAnswerTime, Placed, Ownership
<1>6. \A n \in served : StageOf(n) = "working"
  BY <1>3, StageCases DEF RStates
<1>7. \A n \in served : StageOf(n)' = "finished"
  BY <1>3, <1>4, StageCasesNext DEF RStates
<1>8. \A n \in Msgs : n \notin served /\ n # Response => StageOf(n)' = StageOf(n)
  BY <1>4, StageKept
<1>9. StageOf(Response)' = StageOf(Response)
  BY <1>1, <1>4, <1>5, StageCases, StageCasesNext
<1>10. Stage' = [n \in Msgs |-> IF n \in served THEN "finished" ELSE Stage[n]]
  BY <1>7, <1>8, <1>9 DEF Stage
<1>11. \A n \in served : Stage[n] = "working"
  BY <1>6 DEF Stage
<1>12. Asker' = Asker
  BY <1>1, <1>4, <1>5 DEF Asker
<1>13. Service!Answer(served)
  BY <1>4, <1>10, <1>11, <1>12 DEF Service!Answer, Stage, Asker
<1> QED BY <1>13

\* Everything else the back-end does concerns its own requests only.
LEMMA BeOwnStutters ==
  ASSUME Placed,
         \/ BeNoMail \/ BeFetch \/ BePulseDone \/ BeBreakOff \/ BePulseNothing \/ BeDelete
         \/ BeOwnWork \/ BeOtherEvent \/ BeReadMore \/ BeDrop \/ BeConnect \/ BeExit
  PROVE  UNCHANGED Service!vars
<1>1. /\ TypeOK /\ None # BE /\ BE \notin FrontEnds /\ BE \in Procs
      /\ Response \in Msgs /\ None \notin FrontEnds
  BY Tier2Assumption DEF Placed, Procs
<1>2. CASE BeNoMail \/ BeFetch \/ BePulseDone \/ BeBreakOff \/ BePulseNothing
           \/ BeTickleDone \/ BeReadMore \/ BeDrop \/ BeConnect \/ BeExit
  <2>1. UNCHANGED <<requester, state, owner, toBE, lost, waiting, stopped>>
    BY <1>2 DEF BeNoMail, BeFetch, BePulseDone, BeBreakOff, BePulseNothing, BeTickleDone,
                BeReadMore, BeDrop, BeConnect, BeExit, msgVars, envVars
  <2> QED BY <2>1, StageKept, StutterSteps
<1>3. CASE BeDelete
  <2>1. PICK m \in Msgs : m = Marked /\ requester[m] = BE
    BY <1>3, MarkedMembers DEF BeDelete
  <2>2. /\ state' = [state EXCEPT ![m] = "free"]
        /\ requester' = [requester EXCEPT ![m] = None]
        /\ owner' = [owner EXCEPT ![m] = None]
        /\ UNCHANGED <<toBE, lost, waiting, stopped>>
    BY <1>3, <2>1 DEF BeDelete, Release, envVars
  <2>3. /\ requester'[m] = None
        /\ \A n \in Msgs : n # m => /\ owner'[n] = owner[n] /\ state'[n] = state[n]
                                    /\ requester'[n] = requester[n]
    BY <1>1, <2>2 DEF TypeOK
  <2>4. \A n \in Msgs : n # m => StageOf(n)' = StageOf(n)
    BY <2>2, <2>3, StageKept
  <2> QED BY <1>1, <2>1, <2>2, <2>3, <2>4, StutterSteps
<1>4. ASSUME NEW m \in Msgs, BeTickle(m) \/ BeFinish(m)
      PROVE  UNCHANGED Service!vars
  <2>1. requester[m] \notin FrontEnds
    BY <1>1, <1>4 DEF BeTickle, BeFinish, Placed, Ownership
  <2>2. /\ UNCHANGED <<requester, owner, toBE, lost, waiting, stopped>>
        /\ \A n \in Msgs : n # m => state'[n] = state[n]
    BY <1>1, <1>4 DEF BeTickle, BeFinish, Enter, envVars, TypeOK
  <2>3. \A n \in Msgs : n # m => StageOf(n)' = StageOf(n)
    BY <2>2, StageKept
  <2> QED BY <2>1, <2>2, <2>3, StutterSteps
<1>5. ASSUME NEW m \in Msgs, NEW s \in States, Create(BE, m, s),
             UNCHANGED <<toBE, lost, waiting, stopped>>
      PROVE  UNCHANGED Service!vars
  <2>1. /\ requester[m] = None /\ requester'[m] = BE
        /\ \A n \in Msgs : n # m => /\ owner'[n] = owner[n] /\ state'[n] = state[n]
                                    /\ requester'[n] = requester[n]
    BY <1>1, <1>5 DEF Create, TypeOK, Placed, Ownership
  <2>2. \A n \in Msgs : n # m => StageOf(n)' = StageOf(n)
    BY <1>5, <2>1, StageKept
  <2> QED BY <1>1, <1>5, <2>1, <2>2, StutterSteps
<1>6. ASSUME NEW m \in Msgs, BeStart(m) \/ BeStartCancel(m)
      PROVE  UNCHANGED Service!vars
  <2>1. \E s \in States : Create(BE, m, s)
    BY <1>6 DEF BeStart, BeStartCancel, States, RStates, TStates
  <2>2. UNCHANGED <<toBE, lost, waiting, stopped>>
    BY <1>6 DEF BeStart, BeStartCancel, envVars
  <2> QED BY <1>5, <2>1, <2>2
<1>7. CASE BeOtherEvent
  <2>1. /\ Create(BE, Response, "DESTRUCTION") /\ "DESTRUCTION" \in States
        /\ UNCHANGED <<toBE, lost, waiting, stopped>>
    BY <1>7 DEF BeOtherEvent, States, TStates
  <2> QED BY <1>1, <1>5, <2>1
<1> QED BY <1>2, <1>3, <1>4, <1>6, <1>7 DEF BeOwnWork

-----------------------------------------------------------------------------
LEMMA ServiceInit == Init => Service!Init
<1> SUFFICES ASSUME Init PROVE Service!Init
  OBVIOUS
<1>1. None \notin FrontEnds
  BY Tier2Assumption
<1>2. \A m \in Msgs : requester[m] = None
  BY DEF Init
<1>3. Stage = [m \in Msgs |-> "none"]
  BY <1>1, <1>2, StageCases DEF Stage
<1>4. Asker = [m \in Msgs |-> None]
  BY <1>1, <1>2 DEF Asker
<1> QED BY <1>3, <1>4 DEF Init, Service!Init, Stage, Asker

LEMMA ServiceNext ==
  Placed /\ PopsTheAwaited /\ [Next]_vars => [Service!Next]_(Service!vars)
<1> SUFFICES ASSUME Placed, PopsTheAwaited, [Next]_vars
             PROVE  Service!Next \/ UNCHANGED Service!vars
  OBVIOUS
<1>1. ASSUME NEW f \in FrontEnds, FeThread(f) PROVE Service!Next
  <2>1. ASSUME FeGiveUp(f) PROVE Service!GiveUp(f)
    <3>1. UNCHANGED <<requester, state, owner, toBE, lost, stopped>>
      BY <2>1 DEF FeGiveUp, msgVars
    <3>2. \A n \in Msgs : StageOf(n)' = StageOf(n)
      BY <3>1, StageKept
    <3>3. Stage' = Stage /\ Asker' = Asker
      BY <3>1, <3>2 DEF Stage, Asker
    <3> QED BY <2>1, <3>1, <3>3 DEF FeGiveUp, Service!GiveUp, Stage, Asker
  <2>2. CASE FePop(f)
    BY <2>2, PopImplementsReturn DEF Service!Next
  <2> QED BY <1>1, <2>1, <2>2, FeRequestsImplementAsk DEF FeThread, Service!Next
<1>2. CASE BeThread
  <2>1. ASSUME NEW f \in FrontEnds, BePopSent(f) \/ BePopRefused(f) PROVE Service!Next
    BY <2>1, BePopImplementsAccept DEF Service!Next
  <2>2. CASE BePostSent \/ BePostFailed \/ BePostVanished
    BY <2>2, BePostImplements DEF Service!Next
  <2>3. CASE BeAnswerTime
    BY <2>3, AnswerTimeImplementsAnswer DEF Service!Next
  <2> QED BY <1>2, <2>1, <2>2, <2>3, BeOwnStutters DEF BeThread, BeReceive, BePulse, BeEvent
<1>3. CASE Stop
  <2>1. UNCHANGED <<requester, state, owner, toBE, lost, waiting>> /\ stopped' = TRUE
    BY <1>3 DEF Stop, msgVars
  <2>2. \A n \in Msgs : StageOf(n)' = StageOf(n)
    BY <2>1, StageKept
  <2>3. Stage' = Stage /\ Asker' = Asker
    BY <2>1, <2>2 DEF Stage, Asker
  <2> QED BY <2>1, <2>3 DEF Service!Next, Service!Close, Stage, Asker
<1>4. CASE Terminated \/ UNCHANGED vars
  <2>1. UNCHANGED <<requester, state, owner, toBE, lost, waiting, stopped>>
    BY <1>4 DEF Terminated, vars
  <2> QED BY <2>1, StageKept, StutterSteps
<1> QED BY <1>1, <1>2, <1>3, <1>4 DEF Next

\* The two threads with their lists and sockets implement the service of
\* TwsService, for any number of front-ends and messages.
THEOREM MessageLayerImplementsService == Spec => ImplementsService
BY PlacedAlways, AwaitedAlways, ServiceInit, ServiceNext, PTL
   DEF Spec, ImplementsService, Service!Spec
=============================================================================
