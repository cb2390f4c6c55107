------------------------- MODULE ServerThreadsProofs -------------------------
(***************************************************************************)
(* Proofs about ServerThreads, for any number of connections: a thread     *)
(* finds its own processor from its registration to its end.  The vector   *)
(* and the index are kept apart in the code; the invariant says how they   *)
(* hang together. A key without a thread so far has no place; once it has  *)
(* one, that place holds the key or is empty, and no other place does.     *)
(***************************************************************************)
EXTENDS ServerThreads, FiniteSetTheorems, SequenceTheorems, TLAPS

TypeOK ==
  /\ slots \in Seq(Keys \cup {None})
  /\ index \in [Keys -> Nat]
  /\ stop \in BOOLEAN
  /\ at \in [Backs -> {"starting", "looping", "running", "waiting", "leaving", "done"}]
  /\ client \in [Conns -> {"new", "open", "asking", "closed"}]

\* The thread of this key has registered itself, if only in the past.
Registered(k) == IF k \in Backs THEN at[k] # "starting" ELSE client[k] # "new"

\* The place of a key: none before the first registration; the processor's as
\* long as its thread is there; empty from then on.
PlaceOK ==
  \A k \in Keys :
    /\ index[k] \in 0..Len(slots)
    /\ index[k] = 0 <=> ~Registered(k)
    /\ Registered(k) => slots[index[k]] = IF Present(k) THEN k ELSE None

\* A processor is nowhere but in the place the index has for its key.
OnePlace == \A k \in Keys : \A i \in 1..Len(slots) : slots[i] = k => index[k] = i

Invariant == TypeOK /\ PlaceOK /\ OnePlace

-----------------------------------------------------------------------------

\* No key is both a connection's and a back-end thread's, and none is NULL.
LEMMA KeysApart ==
  /\ None \notin Keys
  /\ \A k \in Keys : k \in Conns <=> k \notin Backs
BY ThreadsAssumption DEF ThreadsAssumption, Keys, Backs

LEMMA PresentIsRegistered == \A k \in Keys : Present(k) => Registered(k)
BY DEF Present, Registered

LEMMA InitInvariant == Init => Invariant
<1> SUFFICES ASSUME Init PROVE Invariant
  OBVIOUS
<1>1. TypeOK
  BY EmptySeq DEF Init, TypeOK
<1>2. PlaceOK
  BY KeysApart DEF Init, PlaceOK, Registered, Keys
<1>3. OnePlace
  BY DEF Init, OnePlace
<1> QED
  BY <1>1, <1>2, <1>3 DEF Invariant

\* A thread that registers, and those that are there keep their states: the
\* first registration appends a place, a later one finds the old one.
LEMMA RegisterKeeps ==
  ASSUME Invariant, TypeOK', NEW k \in Keys, RegisterThread(k),
         Present(k) <=> Registered(k),
         Present(k)', Registered(k)',
         \A j \in Keys \ {k} : Present(j)' = Present(j) /\ Registered(j)' = Registered(j)
  PROVE  Invariant'
<1> USE DEF Invariant, TypeOK
<1>1. CASE ~Registered(k)
  <2>1. index[k] = 0 /\ Find(k) = None
    BY <1>1 DEF PlaceOK, Find
  <2>2. /\ slots' = Append(slots, k)
        /\ index' = [index EXCEPT ![k] = Len(slots) + 1]
    BY <2>1 DEF RegisterThread, Store
  <2> DEFINE n == Len(slots) + 1
  <2>3. /\ Len(slots) \in Nat /\ Len(slots') = n /\ slots'[n] = k
        /\ \A i \in 1..Len(slots) : slots'[i] = slots[i]
    BY <2>2
  <2>4. index'[k] = n /\ \A j \in Keys \ {k} : index'[j] = index[j]
    BY <2>2
  <2>5. PlaceOK'
    <3> SUFFICES ASSUME NEW j \in Keys
                 PROVE  /\ index'[j] \in 0..Len(slots')
                        /\ index'[j] = 0 <=> ~Registered(j)'
                        /\ Registered(j)' =>
                             slots'[index'[j]] = IF Present(j)' THEN j ELSE None
      BY DEF PlaceOK
    <3>1. CASE j = k
      BY <3>1, <2>3, <2>4
    <3>2. CASE j # k
      <4>1. /\ index[j] \in 0..Len(slots)
            /\ index[j] = 0 <=> ~Registered(j)
            /\ Registered(j) => slots[index[j]] = IF Present(j) THEN j ELSE None
        BY DEF PlaceOK
      <4>2. Registered(j) => index[j] \in 1..Len(slots)
        BY <4>1, <2>3
      <4> QED
        BY <3>2, <4>1, <4>2, <2>3, <2>4
    <3> QED
      BY <3>1, <3>2
  <2>6. OnePlace'
    <3> SUFFICES ASSUME NEW j \in Keys, NEW i \in 1..Len(slots'), slots'[i] = j
                 PROVE  index'[j] = i
      BY DEF OnePlace
    <3>1. CASE i = n
      BY <3>1, <2>3, <2>4
    <3>2. CASE i # n
      <4>1. i \in 1..Len(slots) /\ slots[i] = j
        BY <3>2, <2>3
      <4>2. index[j] = i
        BY <4>1 DEF OnePlace
      <4> QED
        BY <4>1, <4>2, <2>1, <2>3, <2>4
    <3> QED
      BY <3>1, <3>2
  <2> QED
    BY <2>5, <2>6
<1>2. CASE Registered(k)
  <2>1. index[k] # 0 /\ Find(k) = k
    BY <1>2 DEF PlaceOK, Find
  <2>2. slots' = slots /\ index' = index
    BY <2>1, KeysApart DEF RegisterThread
  <2>3. \A j \in Keys : Present(j)' = Present(j) /\ Registered(j)' = Registered(j)
    BY <1>2 DEF Present, Registered
  <2>4. PlaceOK'
    BY <2>2, <2>3 DEF PlaceOK
  <2>5. OnePlace'
    BY <2>2 DEF OnePlace
  <2> QED
    BY <2>4, <2>5
<1> QED
  BY <1>1, <1>2

\* A thread that leaves empties its own place, and nobody else's.
LEMMA EraseKeeps ==
  ASSUME Invariant, TypeOK', NEW k \in Keys, Erase(k), Present(k),
         ~Present(k)', Registered(k)',
         \A j \in Keys \ {k} : Present(j)' = Present(j) /\ Registered(j)' = Registered(j)
  PROVE  Invariant'
<1> USE DEF Invariant, TypeOK
<1> DEFINE n == index[k]
<1>1. /\ Registered(k) /\ n \in 1..Len(slots) /\ slots[n] = k
  BY PresentIsRegistered DEF PlaceOK
<1>2. slots' = [slots EXCEPT ![n] = None] /\ index' = index
  BY <1>1 DEF Erase
<1>3. /\ Len(slots') = Len(slots) /\ slots'[n] = None
      /\ \A i \in 1..Len(slots) : i # n => slots'[i] = slots[i]
  BY <1>1, <1>2
<1>4. PlaceOK'
  <2> SUFFICES ASSUME NEW j \in Keys
               PROVE  /\ index'[j] \in 0..Len(slots')
                      /\ index'[j] = 0 <=> ~Registered(j)'
                      /\ Registered(j)' =>
                           slots'[index'[j]] = IF Present(j)' THEN j ELSE None
    BY DEF PlaceOK
  <2>1. /\ index[j] \in 0..Len(slots)
        /\ index[j] = 0 <=> ~Registered(j)
        /\ Registered(j) => slots[index[j]] = IF Present(j) THEN j ELSE None
    BY DEF PlaceOK
  <2>2. CASE j = k
    BY <2>2, <2>1, <1>1, <1>2, <1>3
  <2>3. CASE j # k
    <3>1. Registered(j) => index[j] \in 1..Len(slots) /\ index[j] # n
      BY <2>1, <2>3, <1>1, KeysApart
    <3> QED
      BY <2>3, <2>1, <3>1, <1>2, <1>3
  <2> QED
    BY <2>2, <2>3
<1>5. OnePlace'
  <2> SUFFICES ASSUME NEW j \in Keys, NEW i \in 1..Len(slots'), slots'[i] = j
               PROVE  index'[j] = i
    BY DEF OnePlace
  <2>1. i # n /\ i \in 1..Len(slots) /\ slots[i] = j
    BY <1>3, KeysApart
  <2> QED
    BY <2>1, <1>2 DEF OnePlace
<1> QED
  BY <1>4, <1>5

\* Whatever leaves the registry alone, and who is there.
LEMMA OthersKeep ==
  ASSUME Invariant, TypeOK', UNCHANGED <<slots, index>>,
         \A j \in Keys : Present(j)' = Present(j) /\ Registered(j)' = Registered(j)
  PROVE  Invariant'
BY DEF Invariant, PlaceOK, OnePlace

-----------------------------------------------------------------------------

LEMMA RegisterType ==
  ASSUME TypeOK, NEW k \in Keys, RegisterThread(k)
  PROVE  slots' \in Seq(Keys \cup {None}) /\ index' \in [Keys -> Nat]
<1>1. CASE UNCHANGED <<slots, index>>
  BY <1>1 DEF TypeOK
<1>2. CASE Store(k)
  <2>1. Append(slots, k) \in Seq(Keys \cup {None}) /\ Len(slots) + 1 \in Nat
    BY AppendProperties, LenProperties DEF TypeOK
  <2> QED
    BY <1>2, <2>1 DEF TypeOK, Store
<1> QED
  BY <1>1, <1>2 DEF RegisterThread

LEMMA EraseType ==
  ASSUME TypeOK, NEW k \in Keys, Erase(k), index[k] \in 0..Len(slots)
  PROVE  slots' \in Seq(Keys \cup {None}) /\ index' \in [Keys -> Nat]
<1>1. CASE index[k] = 0
  BY <1>1 DEF TypeOK, Erase
<1>2. CASE index[k] # 0
  <2>1. index[k] \in 1..Len(slots) /\ slots \in Seq(Keys \cup {None}) /\ None \in Keys \cup {None}
    BY <1>2 DEF TypeOK
  <2>2. [slots EXCEPT ![index[k]] = None] \in Seq(Keys \cup {None})
    BY <2>1, ExceptSeq
  <2> QED
    BY <1>2, <2>2 DEF TypeOK, Erase
<1> QED
  BY <1>1, <1>2

LEMMA BackKeeps ==
  ASSUME Invariant, NEW b \in Backs, Back(b)
  PROVE  Invariant'
<1> USE DEF Invariant
<1>1. b \in Keys /\ at[b] \in {"starting", "looping", "running", "waiting", "leaving", "done"}
  BY DEF TypeOK, Keys
<1>2. CASE Begin(b)
  <2>1. TypeOK'
    BY <1>1, <1>2, RegisterType DEF TypeOK, Begin
  <2>2. at'[b] = "looping" /\ \A d \in Backs \ {b} : at'[d] = at[d]
    BY <1>2 DEF TypeOK, Begin
  <2>3. /\ RegisterThread(b) /\ at[b] = "starting" /\ client' = client
    BY <1>2 DEF Begin
  <2>4. /\ ~Present(b) /\ ~Registered(b) /\ Present(b)' /\ Registered(b)'
    BY <2>2, <2>3 DEF Present, Registered
  <2>5. \A j \in Keys \ {b} : Present(j)' = Present(j) /\ Registered(j)' = Registered(j)
    BY <2>2, <2>3 DEF Present, Registered
  <2> QED
    BY <1>1, <2>1, <2>3, <2>4, <2>5, RegisterKeeps
<1>3. CASE Leave(b)
  <2>1. at[b] \in {"looping", "leaving"} /\ Erase(b) /\ client' = client
    BY <1>3 DEF Leave
  <2>2. TypeOK'
    BY <1>1, <1>3, EraseType DEF TypeOK, Leave, PlaceOK
  <2>3. at'[b] = "done" /\ \A d \in Backs \ {b} : at'[d] = at[d]
    BY <1>3 DEF TypeOK, Leave
  <2>4. Present(b) /\ ~Present(b)' /\ Registered(b)'
    BY <2>1, <2>3 DEF Present, Registered
  <2>5. \A j \in Keys \ {b} : Present(j)' = Present(j) /\ Registered(j)' = Registered(j)
    BY <2>1, <2>3 DEF Present, Registered
  <2> QED
    BY <1>1, <2>1, <2>2, <2>4, <2>5, EraseKeeps
<1>4. CASE EndRun(b) \/ Again(b) \/ \E outcome \in {"open", "refused", "no memory"} : Open(b, outcome)
  <2>1. /\ at[b] \notin {"starting", "done"} /\ at' \in [Backs -> {"starting", "looping", "running", "waiting", "leaving", "done"}]
        /\ at'[b] \notin {"starting", "done"} /\ \A d \in Backs \ {b} : at'[d] = at[d]
        /\ UNCHANGED <<slots, index, client>> /\ stop' \in BOOLEAN
    BY <1>4 DEF TypeOK, EndRun, Again, Open
  <2>2. TypeOK'
    BY <2>1 DEF TypeOK
  <2>3. \A j \in Keys : Present(j)' = Present(j) /\ Registered(j)' = Registered(j)
    BY <2>1 DEF Present, Registered
  <2> QED
    BY <2>1, <2>2, <2>3, OthersKeep
<1> QED
  BY <1>2, <1>3, <1>4 DEF Back

LEMMA FrontKeeps ==
  ASSUME Invariant, NEW c \in Conns, Front(c)
  PROVE  Invariant'
<1> USE DEF Invariant
<1>1. /\ c \in Keys /\ c \notin Backs /\ client[c] \in {"new", "open", "asking", "closed"}
  BY KeysApart DEF TypeOK, Keys
<1>2. CASE Accept(c)
  <2>1. TypeOK'
    BY <1>1, <1>2, RegisterType DEF TypeOK, Accept
  <2>2. client'[c] = "open" /\ \A d \in Conns \ {c} : client'[d] = client[d]
    BY <1>2 DEF TypeOK, Accept
  <2>3. RegisterThread(c) /\ at' = at
    BY <1>2 DEF Accept
  <2>4. /\ Present(c) <=> Registered(c)
        /\ Present(c)' /\ Registered(c)'
    BY <1>1, <2>2 DEF Present, Registered
  <2>5. \A j \in Keys \ {c} : Present(j)' = Present(j) /\ Registered(j)' = Registered(j)
    BY <2>2, <2>3, KeysApart DEF Present, Registered
  <2> QED
    BY <1>1, <2>1, <2>3, <2>4, <2>5, RegisterKeeps
<1>3. CASE BeginRequest(c) \/ EndRequest(c) \/ Close(c)
  <2>1. /\ client[c] # "new" /\ client' \in [Conns -> {"new", "open", "asking", "closed"}]
        /\ client'[c] # "new" /\ \A d \in Conns \ {c} : client'[d] = client[d]
        /\ UNCHANGED <<slots, index, stop, at>>
    BY <1>3 DEF TypeOK, BeginRequest, EndRequest, Close
  <2>2. TypeOK'
    BY <2>1 DEF TypeOK
  <2>3. \A j \in Keys : Present(j)' = Present(j) /\ Registered(j)' = Registered(j)
    BY <2>1, KeysApart DEF Present, Registered
  <2> QED
    BY <2>1, <2>2, <2>3, OthersKeep
<1> QED
  BY <1>2, <1>3 DEF Front

LEMMA NextInvariant == Invariant /\ [Next]_vars => Invariant'
<1> SUFFICES ASSUME Invariant, [Next]_vars PROVE Invariant'
  OBVIOUS
<1>1. CASE \E b \in Backs : Back(b)
  BY <1>1, BackKeeps
<1>2. CASE \E c \in Conns : Front(c)
  BY <1>2, FrontKeeps
<1>3. CASE Stop \/ UNCHANGED vars
  <2>1. UNCHANGED <<slots, index, at, client>> /\ TypeOK'
    BY <1>3 DEF Invariant, TypeOK, Stop, vars
  <2>2. \A j \in Keys : Present(j)' = Present(j) /\ Registered(j)' = Registered(j)
    BY <2>1 DEF Present, Registered
  <2> QED
    BY <2>1, <2>2, OthersKeep
<1> QED
  BY <1>1, <1>2, <1>3 DEF Next

\* The vector and the index agree in every state.
THEOREM RegistryInvariant == Spec => []Invariant
BY InitInvariant, NextInvariant, PTL DEF Spec

-----------------------------------------------------------------------------

LEMMA InvariantFinds == Invariant => FindsItself
<1> SUFFICES ASSUME Invariant, NEW k \in Keys
             PROVE  /\ Find(k) = IF Present(k) THEN k ELSE None
                    /\ Cardinality({i \in DOMAIN slots : slots[i] = k}) <= 1
  BY DEF FindsItself
<1>1. Find(k) = IF Present(k) THEN k ELSE None
  BY PresentIsRegistered DEF Invariant, PlaceOK, Find
<1>2. {i \in DOMAIN slots : slots[i] = k} \in {{}, {index[k]}}
  BY DEF Invariant, TypeOK, OnePlace
<1>3. Cardinality({i \in DOMAIN slots : slots[i] = k}) <= 1
  <2>1. Cardinality({}) = 0 /\ Cardinality({index[k]}) = 1
    BY FS_EmptySet, FS_Singleton
  <2> QED
    BY <1>2, <2>1
<1> QED
  BY <1>1, <1>3

\* Whichever threads come and go, and in whatever order: a thread that looks up
\* its own key finds its own processor as long as it is there, and NULL before
\* and after; and no key is in the registry twice (find(), store(), erase()).
THEOREM ThreadsFindThemselves == Spec => []FindsItself
BY RegistryInvariant, InvariantFinds, PTL

\* A place in the vector is one key's for good.
PlacesStay ==
  [][\A k \in Keys : index[k] # 0 =>
       index'[k] = index[k] /\ slots'[index[k]] \in {k, None}]_vars

LEMMA PlaceStep ==
  ASSUME Invariant, Invariant', Next, NEW k \in Keys, index[k] # 0
  PROVE  index'[k] = index[k] /\ slots'[index[k]] \in {k, None}
<1>1. \A j \in Keys : RegisterThread(j) \/ Erase(j) => index'[k] = index[k]
  <2> SUFFICES ASSUME NEW j \in Keys, RegisterThread(j) \/ Erase(j)
               PROVE  index'[k] = index[k]
    OBVIOUS
  <2>1. CASE Erase(j) \/ UNCHANGED <<slots, index>>
    BY <2>1 DEF Erase
  <2>2. CASE Store(j)
    BY <2>2 DEF Store, Invariant, TypeOK
  <2> QED
    BY <2>1, <2>2 DEF RegisterThread
<1>2. index'[k] = index[k]
  <2>1. \A b \in Backs : b \in Keys /\ (Back(b) => RegisterThread(b) \/ Erase(b) \/ index' = index)
    BY DEF Keys, Back, Begin, EndRun, Again, Leave, Open
  <2>2. \A c \in Conns : c \in Keys /\ (Front(c) => RegisterThread(c) \/ index' = index)
    BY DEF Keys, Front, Accept, BeginRequest, EndRequest, Close
  <2> QED
    BY <1>1, <2>1, <2>2 DEF Next, Stop
<1>3. slots'[index'[k]] \in {k, None}
  <2>1. Registered(k)'
    BY <1>2 DEF Invariant, PlaceOK
  <2> QED
    BY <2>1 DEF Invariant, PlaceOK
<1> QED
  BY <1>2, <1>3

\* Once a key has a place it keeps it, and no other key's processor is ever put
\* there: what is stored as an index stays valid when threads end (store(),
\* erase()).
THEOREM PlacesNeverReused == Spec => PlacesStay
<1> DEFINE A == \A k \in Keys : index[k] # 0 =>
                  index'[k] = index[k] /\ slots'[index[k]] \in {k, None}
<1>1. Invariant /\ Invariant' /\ [Next]_vars => [A]_vars
  BY PlaceStep
<1>2. Spec => [][A]_vars
  BY <1>1, RegistryInvariant, PTL DEF Spec
<1> QED
  BY <1>2 DEF PlacesStay
=============================================================================
