------------------------- MODULE CommunicatorsProofs -------------------------
(***************************************************************************)
(* Proofs about Communicators, for any threads: one path between two of    *)
(* them whoever asks for it and when, the same for all, and a count that   *)
(* never hides one from the back-end.                                      *)
(***************************************************************************)
EXTENDS Communicators, FiniteSetTheorems, SequenceTheorems, WellFoundedInduction, TLAPS

\* The list holds both directions of every path.
Closed == \A i \in DOMAIN list : \E j \in DOMAIN list : list[j] = Opposite(list[i])

Invariant ==
  TypeOK /\ OnePath /\ Closed /\ CachedIsListed /\ BothWays /\ CountCovers

-----------------------------------------------------------------------------
(* Communicators *)

LEMMA Ends ==
  ASSUME NEW c \in Comms
  PROVE  /\ c.pair \in Nat /\ c.from \in Threads /\ c.to \in Threads
         /\ c.from # c.to
         /\ c.from = Back <=> c.to # Back
         /\ c = [pair |-> c.pair, from |-> c.from, to |-> c.to]
BY DEF Comms

\* Turning a communicator round gives one of the other end, and twice the same.
LEMMA Opposites ==
  ASSUME NEW c \in Comms
  PROVE  /\ Opposite(c) \in Comms /\ Opposite(Opposite(c)) = c
         /\ Opposite(c).from = c.to /\ Opposite(c).to = c.from
         /\ Both(c) \subseteq Comms
<1>1. Opposite(c) = [pair |-> c.pair, from |-> c.to, to |-> c.from]
  BY DEF Opposite, Comm
<1>2. Opposite(c) \in Comms
  BY <1>1, Ends DEF Comms
<1>3. Opposite(c).from = c.to /\ Opposite(c).to = c.from /\ Opposite(c).pair = c.pair
  BY <1>1
<1>4. Opposite(Opposite(c)) = [pair |-> c.pair, from |-> c.from, to |-> c.to]
  BY <1>3 DEF Opposite, Comm
<1> QED
  BY <1>2, <1>3, <1>4, Ends DEF Both

\* A new pair is at the end of the list, and the rest stays where it is.
LEMMA TwoMore ==
  ASSUME NEW S, NEW q \in Seq(S), NEW a \in S, NEW b \in S
  PROVE  LET w == q \o <<a, b>>
         IN  /\ w \in Seq(S) /\ Len(w) = Len(q) + 2
             /\ \A i \in 1..Len(q) : w[i] = q[i]
             /\ w[Len(q) + 1] = a /\ w[Len(q) + 2] = b
<1>1. <<a, b>> \in Seq(S) /\ Len(<<a, b>>) = 2
  OBVIOUS
<1>2. <<a, b>>[1] = a /\ <<a, b>>[2] = b
  OBVIOUS
<1> DEFINE e == <<a, b>>
<1> HIDE DEF e
<1>3. /\ q \o e \in Seq(S) /\ Len(q \o e) = Len(q) + Len(e)
      /\ \A i \in 1..(Len(q) + Len(e)) :
           (q \o e)[i] = IF i <= Len(q) THEN q[i] ELSE e[i - Len(q)]
  BY <1>1, ConcatProperties DEF e
<1>4. Len(e) = 2 /\ e[1] = a /\ e[2] = b /\ Len(q) \in Nat
  BY <1>1, <1>2 DEF e
<1>5. (q \o e)[Len(q) + 1] = a /\ (q \o e)[Len(q) + 2] = b
  BY <1>3, <1>4
<1>6. \A i \in 1..Len(q) : (q \o e)[i] = q[i]
  BY <1>3, <1>4
<1> QED
  BY <1>3, <1>4, <1>5, <1>6 DEF e

\* A set of natural numbers has a smallest.
LEMMA SmallestNumber ==
  ASSUME NEW N, N \subseteq Nat, N # {}
  PROVE  \E i \in N : \A j \in N : i <= j
<1> DEFINE less == {ss \in Nat \X Nat : ss[1] < ss[2]}
<1>1. IsWellFoundedOn(less, Nat)
  BY NatLessThanWellFounded DEF OpToRel
<1> HIDE DEF less
<1>2. PICK i \in N : \A j \in N : ~(<<j, i>> \in less)
  BY <1>1, WFMin
<1>3. \A j \in N : ~(j < i)
  BY <1>2 DEF less
<1> QED
  BY <1>2, <1>3

\* Searching the list finds a communicator if there is one.
LEMMA Found ==
  ASSUME NEW t, NEW u, list \in Seq(Comms)
  PROVE  /\ \A d \in Listed(t, u) : d \in Range(list) /\ d \in Comms /\ Matches(d, t, u)
         /\ Listed(t, u) = {} => \A i \in DOMAIN list : ~Matches(list[i], t, u)
<1> DEFINE hits == {i \in DOMAIN list : Matches(list[i], t, u)}
<1>1. DOMAIN list \subseteq Nat /\ \A i \in DOMAIN list : list[i] \in Comms
  OBVIOUS
<1>2. \A d \in Listed(t, u) : d \in Range(list) /\ d \in Comms /\ Matches(d, t, u)
  BY <1>1 DEF Listed, Range
<1>3. ASSUME NEW i \in hits PROVE Listed(t, u) # {}
  <2>1. hits # {} /\ hits \subseteq Nat
    BY <1>1, <1>3
  <2>2. PICK j \in hits : \A k \in hits : j <= k
    BY <2>1, SmallestNumber
  <2>3. list[j] \in Listed(t, u)
    BY <2>2 DEF Listed
  <2> QED
    BY <2>3
<1> QED
  BY <1>2, <1>3

\* The places in the list are finitely many.
LEMMA UnknownFinite ==
  ASSUME list \in Seq(Comms), NEW t
  PROVE  IsFiniteSet(Unknown(t)) /\ Unknown(t) \subseteq DOMAIN list
<1>1. DOMAIN list = 1..Len(list) /\ Len(list) \in Nat
  OBVIOUS
<1>2. IsFiniteSet(1..Len(list))
  BY <1>1, FS_Interval
<1>3. Unknown(t) \subseteq 1..Len(list)
  BY <1>1 DEF Unknown
<1> QED
  BY <1>1, <1>2, <1>3, FS_Subset

-----------------------------------------------------------------------------
(* Steps *)

\* One thread goes on, and the others stay where they are.
LEMMA Moves ==
  ASSUME TypeOK, NEW t \in Threads, NEW w \in Places, pc' = [pc EXCEPT ![t] = w]
  PROVE  /\ pc' \in [Threads -> Places] /\ pc'[t] = w
         /\ \A x \in Threads : x # t => pc'[x] = pc[x]
BY DEF TypeOK

LEMMA PlaceFacts ==
  /\ Idle \in Places /\ Idle.at = "idle"
  /\ \A c \in Comms, at \in {"add", "register"} :
       At(at, c) \in Places /\ At(at, c).at = at /\ At(at, c).comm = c
  /\ \A w \in Places : w.at \in {"add", "register"} => w.comm \in Comms
BY DEF Places, Idle, At

\* A step that leaves the list, the count and the caches alone.
LEMMA SameList ==
  ASSUME Invariant, UNCHANGED <<list, count, cache>>
  PROVE  /\ OnePath' /\ Closed' /\ BothWays' /\ CountCovers'
         /\ \A t \in Threads : cache'[t] \subseteq Range(list')
<1>1. OnePath' /\ Closed' /\ BothWays'
  BY DEF Invariant, OnePath, Closed, BothWays
<1>2. Unknown(Back)' = Unknown(Back)
  BY DEF Unknown
<1>3. CountCovers'
  BY <1>2 DEF Invariant, CountCovers
<1>4. \A t \in Threads : cache'[t] \subseteq Range(list')
  BY DEF Invariant, CachedIsListed
<1> QED
  BY <1>1, <1>3, <1>4

LEMMA InitInvariant == Init => Invariant
<1> SUFFICES ASSUME Init PROVE Invariant
  OBVIOUS
<1>1. list = <<>> /\ count = 0 /\ cache = [t \in Threads |-> {}]
      /\ pc = [t \in Threads |-> Idle] /\ made = 0
  BY DEF Init
<1>2. list \in Seq(Comms) /\ DOMAIN list = {}
  BY <1>1
<1>3. pc \in [Threads -> Places]
  BY <1>1, PlaceFacts
<1>4. TypeOK
  BY <1>1, <1>2, <1>3 DEF TypeOK
<1>5. OnePath /\ Closed
  BY <1>2 DEF OnePath, Closed
<1>6. CachedIsListed /\ BothWays
  BY <1>1, PlaceFacts DEF CachedIsListed, BothWays
<1>7. CountCovers
  <2>1. Unknown(Back) = {}
    BY <1>2 DEF Unknown
  <2> QED
    BY <2>1, <1>1, FS_EmptySet DEF CountCovers
<1> QED
  BY <1>4, <1>5, <1>6, <1>7 DEF Invariant

LEMMA SearchStep ==
  ASSUME Invariant, NEW t \in Threads, NEW u \in Partners(t), Search(t, u)
  PROVE  Invariant'
<1>1. TypeOK /\ CachedIsListed
  BY DEF Invariant
<1>2. UNCHANGED <<list, count, cache>>
  BY DEF Search
<1>3. list \in Seq(Comms) /\ made \in Nat
  BY <1>1 DEF TypeOK
<1>4. CASE \E c \in Listed(t, u) : pc' = [pc EXCEPT ![t] = At("register", c)] /\ UNCHANGED made
  <2>1. PICK c \in Listed(t, u) : pc' = [pc EXCEPT ![t] = At("register", c)]
    BY <1>4
  <2>2. c \in Comms /\ c \in Range(list)
    BY <1>3, Found
  <2>3. PICK w \in Places : w = At("register", c)
    BY <2>2, PlaceFacts
  <2>4. /\ pc' \in [Threads -> Places] /\ pc'[t] = w
        /\ \A x \in Threads : x # t => pc'[x] = pc[x]
    BY <1>1, <2>1, <2>3, Moves
  <2>5. w.comm = c
    BY <2>2, <2>3, PlaceFacts
  <2>6. TypeOK'
    BY <1>1, <1>2, <1>4, <2>4 DEF TypeOK
  <2>7. CachedIsListed'
    BY <1>1, <1>2, <2>2, <2>4, <2>5, SameList DEF CachedIsListed
  <2> QED
    BY <1>2, <2>6, <2>7, SameList DEF Invariant
<1>5. CASE /\ made' = made + 1
           /\ pc' = [pc EXCEPT ![t] = At("add", Comm(made + 1, t, u))]
  <2>1. u \in Threads /\ (t = Back <=> u # Back)
    BY CommunicatorsAssumption DEF Partners, Threads, CommunicatorsAssumption
  <2>2. Comm(made + 1, t, u) \in Comms
    BY <1>3, <2>1 DEF Comm, Comms
  <2>3. PICK c \in Comms : c = Comm(made + 1, t, u)
    BY <2>2
  <2>4. PICK w \in Places : w = At("add", c)
    BY PlaceFacts
  <2>5. /\ pc' \in [Threads -> Places] /\ pc'[t] = w
        /\ \A x \in Threads : x # t => pc'[x] = pc[x]
    BY <1>1, <1>5, <2>3, <2>4, Moves
  <2>6. w.at = "add"
    BY <2>4, PlaceFacts
  <2>7. TypeOK'
    BY <1>1, <1>2, <1>3, <1>5, <2>5 DEF TypeOK
  <2>8. CachedIsListed'
    BY <1>1, <1>2, <2>5, <2>6, SameList DEF CachedIsListed
  <2> QED
    BY <1>2, <2>7, <2>8, SameList DEF Invariant
<1> QED
  BY <1>4, <1>5 DEF Search

\* Somebody was faster: the pair in the list is taken.
LEMMA LoserStep ==
  ASSUME Invariant, NEW t \in Threads, pc[t].at = "add",
         NEW u, NEW v, NEW d \in Listed(u, v),
         pc' = [pc EXCEPT ![t] = At("register", d)],
         UNCHANGED <<list, count, cache, made>>
  PROVE  Invariant'
<1>1. TypeOK /\ CachedIsListed
  BY DEF Invariant
<1>2. list \in Seq(Comms)
  BY <1>1 DEF TypeOK
<1>3. d \in Comms /\ d \in Range(list)
  BY <1>2, Found
<1>4. PICK w \in Places : w = At("register", d)
  BY <1>3, PlaceFacts
<1>5. /\ pc' \in [Threads -> Places] /\ pc'[t] = w
      /\ \A x \in Threads : x # t => pc'[x] = pc[x]
  BY <1>1, <1>4, Moves
<1>6. w.comm = d
  BY <1>3, <1>4, PlaceFacts
<1>7. TypeOK'
  BY <1>1, <1>5 DEF TypeOK
<1>8. CachedIsListed'
  BY <1>1, <1>3, <1>5, <1>6, SameList DEF CachedIsListed
<1> QED
  BY <1>7, <1>8, SameList DEF Invariant

\* No pair of the list joins the same two threads: both directions are added.
LEMMA WinnerStep ==
  ASSUME Invariant, NEW t \in Threads, pc[t].at = "add",
         NEW c \in Comms, Listed(c.from, c.to) = {},
         list' = list \o <<c, Opposite(c)>>, count' = count + 1,
         pc' = [pc EXCEPT ![t] = At("register", c)], UNCHANGED <<cache, made>>
  PROVE  Invariant'
<1>1. TypeOK /\ OnePath /\ Closed /\ CachedIsListed /\ BothWays /\ CountCovers
  BY DEF Invariant
<1>2. list \in Seq(Comms) /\ count \in Nat
  BY <1>1 DEF TypeOK
<1>3. PICK o \in Comms : o = Opposite(c)
  BY Opposites
<1>4. /\ o.from = c.to /\ o.to = c.from /\ Opposite(o) = c /\ c.from # c.to
      /\ c.from = Back <=> c.to # Back
  BY <1>3, Opposites, Ends
<1>5. PICK n \in Nat : n = Len(list)
  BY <1>2
<1>6. /\ list' \in Seq(Comms) /\ Len(list') = n + 2
      /\ \A i \in 1..n : list'[i] = list[i]
      /\ list'[n + 1] = c /\ list'[n + 2] = o
  BY <1>2, <1>3, <1>5, TwoMore
<1>7. DOMAIN list = 1..n /\ DOMAIN list' = 1..(n + 2)
  BY <1>2, <1>5, <1>6
<1>8. \A i \in 1..n : /\ list[i] \in Comms
                      /\ ~Matches(list[i], c.from, c.to)
                      /\ ~Matches(list[i], o.from, o.to)
  <2>1. \A i \in 1..n : list[i] \in Comms /\ ~Matches(list[i], c.from, c.to)
    <3>1. \A i \in DOMAIN list : list[i] \in Comms
      BY <1>2
    <3>2. \A i \in DOMAIN list : ~Matches(list[i], c.from, c.to)
      BY <1>2, Found
    <3> QED
      BY <3>1, <3>2, <1>7
  <2>2. ASSUME NEW i \in 1..n, Matches(list[i], o.from, o.to) PROVE FALSE
    <3>1. PICK j \in 1..n : list[j] = Opposite(list[i])
      BY <1>1, <1>7 DEF Closed
    <3>2. list[j].from = list[i].to /\ list[j].to = list[i].from
      BY <3>1, <2>1, Opposites
    <3>3. Matches(list[j], c.from, c.to)
      BY <3>2, <2>2, <1>4 DEF Matches
    <3> QED
      BY <3>3, <2>1
  <2> QED
    BY <2>1, <2>2
<1>9. OnePath'
  <2> SUFFICES ASSUME NEW i \in 1..(n + 2), NEW j \in 1..(n + 2),
                      Matches(list'[i], list'[j].from, list'[j].to)
               PROVE  i = j
    BY <1>7 DEF OnePath, Matches
  <2>1. (i \in 1..n \/ i = n + 1 \/ i = n + 2) /\ (j \in 1..n \/ j = n + 1 \/ j = n + 2)
    OBVIOUS
  <2>2. list'[i].from = list'[j].from /\ list'[i].to = list'[j].to
    BY DEF Matches
  <2>3. CASE i \in 1..n /\ j \in 1..n
    BY <2>2, <2>3, <1>1, <1>6, <1>7 DEF OnePath, Matches
  <2>4. CASE i \in 1..n /\ j \notin 1..n
    BY <2>1, <2>2, <2>4, <1>6, <1>8 DEF Matches
  <2>5. CASE i \notin 1..n /\ j \in 1..n
    BY <2>1, <2>2, <2>5, <1>6, <1>8 DEF Matches
  <2>6. CASE i \notin 1..n /\ j \notin 1..n
    BY <2>1, <2>2, <2>6, <1>4, <1>6
  <2> QED
    BY <2>3, <2>4, <2>5, <2>6
<1>10. Closed'
  <2> SUFFICES ASSUME NEW i \in 1..(n + 2)
               PROVE  \E j \in 1..(n + 2) : list'[j] = Opposite(list'[i])
    BY <1>7 DEF Closed, Opposite, Comm
  <2>1. i \in 1..n \/ i = n + 1 \/ i = n + 2
    OBVIOUS
  <2>2. CASE i \in 1..n
    <3>1. PICK j \in 1..n : list[j] = Opposite(list[i])
      BY <1>1, <1>7, <2>2 DEF Closed
    <3>2. j \in 1..(n + 2) /\ list'[j] = Opposite(list'[i])
      BY <3>1, <2>2, <1>6
    <3> QED
      BY <3>2
  <2>3. CASE i = n + 1
    BY <2>3, <1>3, <1>6
  <2>4. CASE i = n + 2
    BY <2>4, <1>4, <1>6
  <2> QED
    BY <2>1, <2>2, <2>3, <2>4
<1>11. Range(list) \subseteq Range(list') /\ c \in Range(list')
  <2>1. ASSUME NEW x \in Range(list) PROVE x \in Range(list')
    <3>1. PICK i \in 1..n : x = list[i]
      BY <1>7, <2>1 DEF Range
    <3>2. i \in DOMAIN list' /\ x = list'[i]
      BY <3>1, <1>6, <1>7
    <3> QED
      BY <3>2 DEF Range
  <2>2. n + 1 \in DOMAIN list' /\ c = list'[n + 1]
    BY <1>6, <1>7
  <2> QED
    BY <2>1, <2>2 DEF Range
<1>12. PICK w \in Places : w = At("register", c) /\ w.comm = c
  BY PlaceFacts
<1>13. /\ pc' \in [Threads -> Places] /\ pc'[t] = w
       /\ \A x \in Threads : x # t => pc'[x] = pc[x]
  BY <1>1, <1>12, Moves
<1>14. CachedIsListed' /\ BothWays'
  <2>1. \A x \in Threads : cache'[x] \subseteq Range(list')
    BY <1>1, <1>11 DEF CachedIsListed
  <2>2. \A x \in Threads : pc'[x].at = "register" => pc'[x].comm \in Range(list')
    BY <1>1, <1>11, <1>12, <1>13 DEF CachedIsListed
  <2> QED
    BY <1>1, <2>1, <2>2 DEF CachedIsListed, BothWays
<1>15. CountCovers'
  <2>1. PICK x \in {n + 1, n + 2} : Unknown(Back)' \subseteq Unknown(Back) \cup {x}
    <3> DEFINE x == IF c.to = Back THEN n + 1 ELSE n + 2
    <3>1. ASSUME NEW i \in Unknown(Back)' PROVE i \in Unknown(Back) \cup {x}
      <4>1. i \in 1..(n + 2) /\ list'[i].to = Back /\ list'[i] \notin cache[Back]
        BY <3>1, <1>7 DEF Unknown
      <4>2. CASE i \in 1..n
        BY <4>1, <4>2, <1>6, <1>7 DEF Unknown
      <4>3. CASE i \notin 1..n
        BY <4>1, <4>3, <1>4, <1>6
      <4> QED
        BY <4>2, <4>3
    <3> QED
      BY <3>1
  <2>2. IsFiniteSet(Unknown(Back))
    BY <1>2, UnknownFinite
  <2>3. /\ IsFiniteSet(Unknown(Back) \cup {x})
        /\ Cardinality(Unknown(Back) \cup {x}) <= Cardinality(Unknown(Back)) + 1
        /\ Cardinality(Unknown(Back)) \in Nat
    <3>1. Cardinality(Unknown(Back)) \in Nat
      BY <2>2, FS_CardinalityType
    <3>2. /\ IsFiniteSet(Unknown(Back) \cup {x})
          /\ Cardinality(Unknown(Back) \cup {x}) =
               IF x \in Unknown(Back) THEN Cardinality(Unknown(Back))
               ELSE Cardinality(Unknown(Back)) + 1
      BY <2>2, FS_AddElement
    <3> QED
      BY <3>1, <3>2
  <2>4. PICK U : U = Unknown(Back)'
    OBVIOUS
  <2>5. IsFiniteSet(U) /\ Cardinality(U) <= Cardinality(Unknown(Back) \cup {x})
    BY <2>1, <2>3, <2>4, FS_Subset
  <2>6. Cardinality(U) \in Nat /\ Cardinality(Unknown(Back) \cup {x}) \in Nat
    BY <2>3, <2>5, FS_CardinalityType
  <2>7. Cardinality(U) <= count + 1
    BY <1>1, <1>2, <2>3, <2>5, <2>6 DEF CountCovers
  <2> QED
    BY <2>4, <2>7 DEF CountCovers
<1>16. TypeOK'
  BY <1>1, <1>2, <1>6, <1>13 DEF TypeOK
<1> QED
  BY <1>9, <1>10, <1>14, <1>15, <1>16 DEF Invariant

LEMMA AddStep ==
  ASSUME Invariant, NEW t \in Threads, Add(t)
  PROVE  Invariant'
<1>1. pc[t] \in Places /\ pc[t].at = "add"
  BY DEF Invariant, TypeOK, Add
<1>2. PICK c \in Comms : c = pc[t].comm
  BY <1>1, PlaceFacts
<1>3. CASE /\ \E d \in Listed(c.from, c.to) : pc' = [pc EXCEPT ![t] = At("register", d)]
           /\ UNCHANGED <<list, count, cache, made>>
  BY <1>1, <1>3, LoserStep
<1>4. CASE /\ Listed(c.from, c.to) = {}
           /\ list' = list \o <<c, Opposite(c)>>
           /\ count' = count + 1
           /\ pc' = [pc EXCEPT ![t] = At("register", c)]
           /\ UNCHANGED <<cache, made>>
  BY <1>1, <1>4, WinnerStep
<1> QED
  BY <1>2, <1>3, <1>4 DEF Add

\* Both directions go to the cache; the list has both.
LEMMA RegisterStep ==
  ASSUME Invariant, NEW t \in Threads, Register(t)
  PROVE  Invariant'
<1>1. TypeOK /\ OnePath /\ Closed /\ CachedIsListed /\ BothWays /\ CountCovers
  BY DEF Invariant
<1>2. pc[t] \in Places /\ pc[t].at = "register" /\ pc[t].comm \in Range(list)
  BY <1>1 DEF TypeOK, CachedIsListed, Register
<1>3. PICK c \in Comms : c = pc[t].comm
  BY <1>2, PlaceFacts
<1>4. /\ cache' = [cache EXCEPT ![t] = @ \cup Both(c)]
      /\ pc' = [pc EXCEPT ![t] = Idle] /\ UNCHANGED <<list, count, made>>
  BY <1>3 DEF Register
<1>5. /\ pc' \in [Threads -> Places] /\ pc'[t] = Idle
      /\ \A x \in Threads : x # t => pc'[x] = pc[x]
  BY <1>1, <1>4, Moves, PlaceFacts
<1>6. Both(c) \subseteq Comms /\ Both(c) \subseteq Range(list)
  <2>1. PICK i \in DOMAIN list : c = list[i]
    BY <1>2, <1>3 DEF Range
  <2>2. PICK j \in DOMAIN list : list[j] = Opposite(c)
    BY <2>1, <1>1 DEF Closed
  <2> QED
    BY <2>1, <2>2, Opposites DEF Both, Range
<1>7. /\ cache' \in [Threads -> SUBSET Comms] /\ cache'[t] = cache[t] \cup Both(c)
      /\ \A x \in Threads : x # t => cache'[x] = cache[x]
  BY <1>1, <1>4, <1>6 DEF TypeOK
<1>8. TypeOK'
  BY <1>1, <1>4, <1>5, <1>7 DEF TypeOK
<1>9. OnePath' /\ Closed'
  BY <1>1, <1>4 DEF OnePath, Closed
<1>10. CachedIsListed'
  <2>1. \A x \in Threads : cache'[x] \subseteq Range(list')
    BY <1>1, <1>4, <1>6, <1>7 DEF CachedIsListed
  <2>2. \A x \in Threads : pc'[x].at = "register" => pc'[x].comm \in Range(list')
    BY <1>1, <1>4, <1>5, PlaceFacts DEF CachedIsListed
  <2> QED
    BY <2>1, <2>2 DEF CachedIsListed
<1>11. BothWays'
  <2>1. \A d \in Both(c) : Opposite(d) \in Both(c)
    BY Opposites DEF Both
  <2>2. \A x \in Threads : \A d \in cache'[x] : Opposite(d) \in cache'[x]
    BY <2>1, <1>1, <1>7 DEF BothWays
  <2> QED
    BY <2>2 DEF BothWays, Opposite, Comm
<1>12. CountCovers'
  <2>1. IsFiniteSet(Unknown(Back)) /\ count \in Nat
    BY <1>1, UnknownFinite DEF TypeOK
  <2>2. cache[Back] \subseteq cache'[Back]
    BY <1>7 DEF Threads
  <2>3. PICK U : U = Unknown(Back)'
    OBVIOUS
  <2>4. U \subseteq Unknown(Back)
    BY <2>2, <2>3, <1>4 DEF Unknown
  <2>5. IsFiniteSet(U) /\ Cardinality(U) <= Cardinality(Unknown(Back))
    BY <2>1, <2>4, FS_Subset
  <2>6. Cardinality(U) \in Nat /\ Cardinality(Unknown(Back)) \in Nat
    BY <2>1, <2>5, FS_CardinalityType
  <2>7. Cardinality(U) <= count
    BY <2>1, <2>5, <2>6, <1>1 DEF CountCovers
  <2> QED
    BY <2>3, <2>7, <1>4 DEF CountCovers
<1> QED
  BY <1>8, <1>9, <1>10, <1>11, <1>12 DEF Invariant

\* What is fetched is unknown before and cached after, and the count goes down
\* by as much.
LEMMA FetchStep ==
  ASSUME Invariant, Fetch(Back)
  PROVE  Invariant'
<1>1. TypeOK /\ OnePath /\ Closed /\ CachedIsListed /\ BothWays /\ CountCovers
  BY DEF Invariant
<1>2. PICK R : R = Reached(Back)
  OBVIOUS
<1>3. PICK new : new = UNION {Both(list[i]) : i \in R}
  OBVIOUS
<1>4. /\ cache' = [cache EXCEPT ![Back] = @ \cup new]
      /\ count' = count - Cardinality(R)
      /\ UNCHANGED <<list, pc, made>>
  BY <1>2, <1>3 DEF Fetch
<1>5. R \subseteq Unknown(Back) /\ R \subseteq DOMAIN list
  BY <1>2 DEF Reached, Unknown
<1>6. \A i \in DOMAIN list : list[i] \in Comms
  BY <1>1 DEF TypeOK
<1>7. new \subseteq Comms /\ new \subseteq Range(list)
  <2>1. ASSUME NEW i \in R PROVE Both(list[i]) \subseteq Comms
                                 /\ Both(list[i]) \subseteq Range(list)
    <3>1. PICK j \in DOMAIN list : list[j] = Opposite(list[i])
      BY <1>1, <1>5 DEF Closed
    <3> QED
      BY <3>1, <1>5, <1>6, Opposites DEF Both, Range
  <2> QED
    BY <2>1, <1>3
<1>8. \A d \in new : Opposite(d) \in new
  <2>1. ASSUME NEW i \in R, NEW d \in Both(list[i]) PROVE Opposite(d) \in Both(list[i])
    BY <1>5, <1>6, Opposites DEF Both
  <2> QED
    BY <2>1, <1>3
<1>9. \A i \in R : list[i] \in new
  BY <1>3 DEF Both
<1>10. Back \in Threads
  BY DEF Threads
<1>11. /\ cache' \in [Threads -> SUBSET Comms] /\ cache'[Back] = cache[Back] \cup new
       /\ \A x \in Threads : x # Back => cache'[x] = cache[x]
  BY <1>1, <1>4, <1>7, <1>10 DEF TypeOK
<1>12. OnePath' /\ Closed'
  BY <1>1, <1>4 DEF OnePath, Closed
<1>13. CachedIsListed'
  <2>1. \A x \in Threads : cache'[x] \subseteq Range(list')
    BY <1>1, <1>4, <1>7, <1>11 DEF CachedIsListed
  <2>2. \A x \in Threads : pc'[x].at = "register" => pc'[x].comm \in Range(list')
    BY <1>1, <1>4 DEF CachedIsListed
  <2> QED
    BY <2>1, <2>2 DEF CachedIsListed
<1>14. BothWays'
  <2>1. \A x \in Threads : \A d \in cache'[x] : Opposite(d) \in cache'[x]
    BY <1>1, <1>8, <1>11 DEF BothWays
  <2> QED
    BY <2>1 DEF BothWays, Opposite, Comm
<1>15. /\ IsFiniteSet(Unknown(Back)) /\ IsFiniteSet(R)
       /\ Cardinality(R) <= Cardinality(Unknown(Back))
       /\ Cardinality(R) \in Nat /\ Cardinality(Unknown(Back)) \in Nat
  <2>1. IsFiniteSet(Unknown(Back))
    BY <1>1, UnknownFinite DEF TypeOK
  <2>2. IsFiniteSet(R) /\ Cardinality(R) <= Cardinality(Unknown(Back))
    BY <2>1, <1>5, FS_Subset
  <2> QED
    BY <2>1, <2>2, FS_CardinalityType
<1>16. count \in Nat /\ Cardinality(Unknown(Back)) <= count
  BY <1>1 DEF TypeOK, CountCovers
<1>17. CountCovers'
  <2>1. PICK D : D = Unknown(Back) \ R
    OBVIOUS
  <2>2. /\ IsFiniteSet(D)
        /\ Cardinality(D) = Cardinality(Unknown(Back)) - Cardinality(Unknown(Back) \cap R)
    BY <2>1, <1>15, FS_Difference
  <2>3. Unknown(Back) \cap R = R
    BY <1>5
  <2>4. PICK U : U = Unknown(Back)'
    OBVIOUS
  <2>5. U \subseteq D
    BY <2>1, <2>4, <1>4, <1>9, <1>11 DEF Unknown
  <2>6. IsFiniteSet(U) /\ Cardinality(U) <= Cardinality(D)
    BY <2>2, <2>5, FS_Subset
  <2>7. Cardinality(U) \in Nat /\ Cardinality(D) \in Nat
    BY <2>2, <2>6, FS_CardinalityType
  <2>8. Cardinality(U) <= count - Cardinality(R)
    BY <2>2, <2>3, <2>6, <2>7, <1>15, <1>16
  <2> QED
    BY <2>4, <2>8, <1>4 DEF CountCovers
<1>18. TypeOK'
  BY <1>1, <1>4, <1>11, <1>15, <1>16 DEF TypeOK
<1> QED
  BY <1>12, <1>13, <1>14, <1>17, <1>18 DEF Invariant

LEMMA NextInvariant == Invariant /\ [Next]_vars => Invariant'
<1>1. Invariant /\ Next => Invariant'
  BY SearchStep, AddStep, RegisterStep, FetchStep DEF Next, Ask, Finish
<1>2. Invariant /\ UNCHANGED vars => Invariant'
  <2> SUFFICES ASSUME Invariant, UNCHANGED vars PROVE Invariant'
    OBVIOUS
  <2>1. UNCHANGED <<list, count, cache, pc, made>>
    BY DEF vars
  <2>2. TypeOK' /\ CachedIsListed'
    BY <2>1 DEF Invariant, TypeOK, CachedIsListed
  <2> QED
    BY <2>1, <2>2, SameList DEF Invariant
<1> QED
  BY <1>1, <1>2

LEMMA InvariantAlways == Spec => []Invariant
  BY InitInvariant, NextInvariant, PTL DEF Spec

-----------------------------------------------------------------------------

\* List, caches and count keep their types; m_new_communicators_count, which is
\* unsigned, never passes below zero.
THEOREM CommunicatorsTypes == Spec => []TypeOK
<1>1. Invariant => TypeOK
  BY DEF Invariant
<1> QED
  BY InvariantAlways, <1>1, PTL

\* get_interthread_communicator() never lists two paths between the same threads,
\* for any number of threads that ask at the same time.
THEOREM PathsDistinct == Spec => []OnePath
<1>1. Invariant => OnePath
  BY DEF Invariant
<1> QED
  BY InvariantAlways, <1>1, PTL

\* No thread keeps a pair that lost the race and was deleted.
THEOREM CachesListed == Spec => []CachedIsListed
<1>1. Invariant => CachedIsListed
  BY DEF Invariant
<1> QED
  BY InvariantAlways, <1>1, PTL

\* Whoever sends on a path polls its other direction.
THEOREM CachesBothWays == Spec => []BothWays
<1>1. Invariant => BothWays
  BY DEF Invariant
<1> QED
  BY InvariantAlways, <1>1, PTL

\* fetch_new_interthread_communicators() may stop where its count says so.
THEOREM CountCoversUnknown == Spec => []CountCovers
<1>1. Invariant => CountCovers
  BY DEF Invariant
<1> QED
  BY InvariantAlways, <1>1, PTL

-----------------------------------------------------------------------------
(* The refinement *)

\* A thread that is in the middle of a call is an end of the path it asks for,
\* and does not know it yet.
CallOK ==
  \A t \in Threads :
    pc[t].at \in {"add", "register"} =>
      /\ pc[t].comm.from = t
      /\ \A d \in cache[t] : ~Matches(d, t, pc[t].comm.to)

\* The sockets a thread has made are its own until they are in the list.
SocketsOK ==
  /\ \A i \in DOMAIN list : list[i].pair <= made
  /\ \A t \in Threads :
       pc[t].at = "add" =>
         /\ pc[t].comm.pair <= made
         /\ \A i \in DOMAIN list : list[i].pair # pc[t].comm.pair
         /\ \A u \in Threads :
              u # t /\ pc[u].at = "add" => pc[u].comm.pair # pc[t].comm.pair

Calls == CallOK /\ SocketsOK

LEMMA SearchCalls ==
  ASSUME Invariant, Calls, NEW t \in Threads, NEW u \in Partners(t), Search(t, u)
  PROVE  Calls'
<1>1. /\ TypeOK /\ list \in Seq(Comms) /\ made \in Nat
      /\ UNCHANGED <<list, count, cache>>
      /\ \A d \in cache[t] : ~Matches(d, t, u)
  BY DEF Invariant, TypeOK, Search
<1>2. CASE \E c \in Listed(t, u) : pc' = [pc EXCEPT ![t] = At("register", c)] /\ UNCHANGED made
  <2>1. PICK c \in Listed(t, u) : pc' = [pc EXCEPT ![t] = At("register", c)]
    BY <1>2
  <2>2. c \in Comms /\ c.from = t /\ c.to = u
    BY <1>1, Found DEF Matches
  <2>3. PICK w \in Places : w = At("register", c) /\ w.at = "register" /\ w.comm = c
    BY <2>2, PlaceFacts
  <2>4. pc'[t] = w /\ \A x \in Threads : x # t => pc'[x] = pc[x]
    BY <1>1, <2>1, <2>3, Moves
  <2>5. CallOK'
    BY <1>1, <2>2, <2>3, <2>4 DEF Calls, CallOK
  <2>6. SocketsOK'
    BY <1>1, <1>2, <2>3, <2>4 DEF Calls, SocketsOK
  <2> QED
    BY <2>5, <2>6 DEF Calls
<1>3. CASE /\ made' = made + 1
           /\ pc' = [pc EXCEPT ![t] = At("add", Comm(made + 1, t, u))]
  <2>1. u \in Threads /\ (t = Back <=> u # Back)
    BY CommunicatorsAssumption DEF Partners, Threads, CommunicatorsAssumption
  <2>2. PICK c \in Comms : /\ c = Comm(made + 1, t, u)
                           /\ c.pair = made + 1 /\ c.from = t /\ c.to = u
    <3>1. Comm(made + 1, t, u) \in Comms
      BY <1>1, <2>1 DEF Comm, Comms
    <3>2. LET c == Comm(made + 1, t, u)
          IN  c.pair = made + 1 /\ c.from = t /\ c.to = u
      BY DEF Comm
    <3> QED
      BY <3>1, <3>2
  <2>3. PICK w \in Places : w = At("add", c) /\ w.at = "add" /\ w.comm = c
    BY PlaceFacts
  <2>4. pc'[t] = w /\ \A x \in Threads : x # t => pc'[x] = pc[x]
    BY <1>1, <1>3, <2>2, <2>3, Moves
  <2>5. CallOK'
    BY <1>1, <2>2, <2>3, <2>4 DEF Calls, CallOK
  <2>6. /\ \A i \in DOMAIN list : list[i].pair \in Nat /\ list[i].pair <= made
        /\ \A x \in Threads : pc[x].at = "add" =>
             pc[x].comm.pair \in Nat /\ pc[x].comm.pair <= made
    <3>1. \A i \in DOMAIN list : list[i] \in Comms
      BY <1>1
    <3>2. \A x \in Threads : pc[x].at = "add" => pc[x].comm \in Comms
      BY <1>1, PlaceFacts DEF TypeOK
    <3> QED
      BY <3>1, <3>2, Ends DEF Calls, SocketsOK
  <2>7. /\ \A i \in DOMAIN list : list[i].pair <= made' /\ list[i].pair # made'
        /\ \A x \in Threads : pc[x].at = "add" =>
             pc[x].comm.pair <= made' /\ pc[x].comm.pair # made'
        /\ made' <= made'
    BY <1>1, <1>3, <2>6
  <2>8. SocketsOK'
    BY <1>1, <1>3, <2>2, <2>3, <2>4, <2>7 DEF Calls, SocketsOK
  <2> QED
    BY <2>5, <2>8 DEF Calls
<1> QED
  BY <1>2, <1>3 DEF Search

LEMMA AddCalls ==
  ASSUME Invariant, Calls, NEW t \in Threads, Add(t)
  PROVE  Calls'
<1>1. /\ TypeOK /\ list \in Seq(Comms) /\ made \in Nat
      /\ pc[t] \in Places /\ pc[t].at = "add" /\ UNCHANGED <<cache, made>>
  BY DEF Invariant, TypeOK, Add
<1>2. PICK c \in Comms : c = pc[t].comm
  BY <1>1, PlaceFacts
<1>3. c.from = t /\ \A d \in cache[t] : ~Matches(d, t, c.to)
  BY <1>1, <1>2 DEF Calls, CallOK
<1>4. ASSUME NEW d \in Comms, d.from = t, d.to = c.to,
             pc' = [pc EXCEPT ![t] = At("register", d)]
      PROVE  CallOK'
  <2>1. PICK w \in Places : w = At("register", d) /\ w.comm = d
    BY PlaceFacts
  <2>2. pc'[t] = w /\ \A x \in Threads : x # t => pc'[x] = pc[x]
    BY <1>1, <1>4, <2>1, Moves
  <2> QED
    BY <1>1, <1>3, <1>4, <2>1, <2>2 DEF Calls, CallOK
<1>5. ASSUME NEW d \in Comms, pc' = [pc EXCEPT ![t] = At("register", d)]
      PROVE  /\ pc'[t].at # "add"
             /\ \A x \in Threads : x # t => pc'[x] = pc[x]
  BY <1>1, <1>5, PlaceFacts, Moves
<1>6. CASE /\ \E d \in Listed(c.from, c.to) : pc' = [pc EXCEPT ![t] = At("register", d)]
           /\ UNCHANGED <<list, count>>
  <2>1. PICK d \in Listed(c.from, c.to) : pc' = [pc EXCEPT ![t] = At("register", d)]
    BY <1>6
  <2>2. d \in Comms /\ d.from = t /\ d.to = c.to
    BY <1>1, <1>3, Found DEF Matches
  <2>3. CallOK'
    BY <2>1, <2>2, <1>4
  <2>4. pc'[t].at # "add" /\ \A x \in Threads : x # t => pc'[x] = pc[x]
    BY <1>5, <2>1, <2>2
  <2>5. SocketsOK'
    BY <1>1, <1>6, <2>4 DEF Calls, SocketsOK
  <2> QED
    BY <2>3, <2>5 DEF Calls
<1>7. CASE /\ list' = list \o <<c, Opposite(c)>>
           /\ pc' = [pc EXCEPT ![t] = At("register", c)]
  <2>1. CallOK'
    BY <1>3, <1>4, <1>7
  <2>2. Opposite(c) \in Comms /\ Opposite(c).pair = c.pair
    BY Opposites DEF Opposite, Comm
  <2>3. PICK n \in Nat : n = Len(list) /\ DOMAIN list = 1..n
    BY <1>1
  <2>4. /\ DOMAIN list' = 1..(n + 2)
        /\ \A i \in 1..n : list'[i] = list[i]
        /\ list'[n + 1] = c /\ list'[n + 2] = Opposite(c)
    BY <1>1, <1>7, <2>2, <2>3, TwoMore
  <2>5. \A i \in DOMAIN list' :
          list'[i].pair = c.pair \/ \E j \in DOMAIN list : list'[i] = list[j]
    <3> TAKE i \in DOMAIN list'
    <3>1. i \in 1..n \/ i = n + 1 \/ i = n + 2
      BY <2>4
    <3> QED
      BY <3>1, <2>2, <2>3, <2>4
  <2>6. /\ c.pair <= made
        /\ \A x \in Threads : x # t /\ pc[x].at = "add" => pc[x].comm.pair # c.pair
    BY <1>1, <1>2 DEF Calls, SocketsOK
  <2>7. \A i \in DOMAIN list' : list'[i].pair <= made'
    BY <1>1, <2>5, <2>6 DEF Calls, SocketsOK
  <2>8. pc'[t].at # "add" /\ \A x \in Threads : x # t => pc'[x] = pc[x]
    BY <1>5, <1>7
  <2>9. ASSUME NEW x \in Threads, pc'[x].at = "add", NEW i \in DOMAIN list'
        PROVE  list'[i].pair # pc'[x].comm.pair
    <3>1. x # t /\ pc'[x] = pc[x] /\ pc[x].at = "add"
      BY <2>8, <2>9
    <3>2. pc[x].comm.pair # c.pair /\ \A j \in DOMAIN list : list[j].pair # pc[x].comm.pair
      BY <2>6, <3>1 DEF Calls, SocketsOK
    <3> QED
      BY <2>5, <3>1, <3>2
  <2>10. SocketsOK'
    BY <1>1, <2>7, <2>8, <2>9 DEF Calls, SocketsOK
  <2> QED
    BY <2>1, <2>10 DEF Calls
<1> QED
  BY <1>2, <1>6, <1>7 DEF Add

LEMMA RegisterCalls ==
  ASSUME Invariant, Calls, NEW t \in Threads, Register(t)
  PROVE  Calls'
<1>1. /\ TypeOK /\ pc' = [pc EXCEPT ![t] = Idle] /\ UNCHANGED <<list, made>>
      /\ \A x \in Threads : x # t => cache'[x] = cache[x]
  BY DEF Invariant, TypeOK, Register
<1>2. /\ pc'[t].at = "idle"
      /\ \A x \in Threads : x # t => pc'[x] = pc[x]
  BY <1>1, Moves, PlaceFacts
<1>3. CallOK'
  BY <1>1, <1>2 DEF Calls, CallOK
<1>4. SocketsOK'
  BY <1>1, <1>2 DEF Calls, SocketsOK
<1> QED
  BY <1>3, <1>4 DEF Calls

LEMMA FetchCalls ==
  ASSUME Invariant, Calls, Fetch(Back)
  PROVE  Calls'
<1>1. /\ pc' = pc /\ pc[Back].at = "idle" /\ UNCHANGED <<list, made>>
      /\ \A x \in Threads : x # Back => cache'[x] = cache[x]
  BY PlaceFacts DEF Invariant, TypeOK, Fetch
<1>2. CallOK'
  BY <1>1 DEF Calls, CallOK
<1>3. SocketsOK'
  BY <1>1 DEF Calls, SocketsOK
<1> QED
  BY <1>2, <1>3 DEF Calls

LEMMA CallsAlways == Spec => []Calls
<1>1. Init => Calls
  <2> SUFFICES ASSUME Init PROVE Calls
    OBVIOUS
  <2>1. list = <<>> /\ \A t \in Threads : pc[t].at = "idle"
    BY PlaceFacts DEF Init
  <2> QED
    BY <2>1 DEF Calls, CallOK, SocketsOK
<1>2. Invariant /\ Calls /\ Next => Calls'
  BY SearchCalls, AddCalls, RegisterCalls, FetchCalls DEF Next, Ask, Finish
<1>3. Calls /\ UNCHANGED vars => Calls'
  BY DEF vars, Calls, CallOK, SocketsOK
<1> QED
  BY <1>1, <1>2, <1>3, InvariantAlways, PTL DEF Spec

\* Both directions are of the same path, and it is one of the back-end's.
LEMMA PathFacts ==
  ASSUME NEW c \in Comms
  PROVE  /\ PathOf(Opposite(c)) = PathOf(c)
         /\ PathOf(c).front \in Fronts /\ PathOf(c).pair = c.pair
         /\ c.from \in {PathOf(c).front, Back}
         /\ \A d \in Comms :
              PathOf(d).front = PathOf(c).front
                => Matches(d, c.from, c.to) \/ Matches(Opposite(d), c.from, c.to)
<1>1. /\ PathOf(c).front = (IF c.from = Back THEN c.to ELSE c.from)
      /\ PathOf(c).pair = c.pair
  BY DEF PathOf
<1>2. /\ Opposite(c).from = c.to /\ Opposite(c).to = c.from
      /\ Opposite(c).pair = c.pair
  BY Opposites DEF Opposite, Comm
<1>3. PathOf(Opposite(c)) = PathOf(c)
  BY <1>2, Ends DEF PathOf
<1>4. PathOf(c).front \in Fronts /\ c.from \in {PathOf(c).front, Back}
  BY <1>1, Ends DEF Threads
<1>5. ASSUME NEW d \in Comms, PathOf(d).front = PathOf(c).front
      PROVE  Matches(d, c.from, c.to) \/ Matches(Opposite(d), c.from, c.to)
  <2>1. PathOf(d).front = (IF d.from = Back THEN d.to ELSE d.from)
    BY DEF PathOf
  <2>2. Opposite(d).from = d.to /\ Opposite(d).to = d.from
    BY Opposites
  <2> QED
    BY <1>1, <1>5, <2>1, <2>2, Ends DEF Matches
<1> QED
  BY <1>1, <1>3, <1>4, <1>5

\* The moment a thread has the communicator it will register, it was given the
\* path in the eyes of the others.
LEMMA GiveRefines ==
  ASSUME Invariant, NEW t \in Threads, pc[t].at # "register",
         NEW c \in Comms, c.from = t, \A d \in cache[t] : ~Matches(d, t, c.to),
         pc' = [pc EXCEPT ![t] = At("register", c)], UNCHANGED cache,
         PathsOf(Range(list))' = PathsOf(Range(list)) \cup {PathOf(c)},
         \/ PathOf(c) \in PathsOf(Range(list))
         \/ \A q \in PathsOf(Range(list)) :
              q.front # PathOf(c).front /\ q.pair # PathOf(c).pair
  PROVE  Service!Next
<1> DEFINE f == PathOf(c).front
           p == PathOf(c)
<1>1. TypeOK /\ BothWays /\ f \in Fronts /\ t \in {f, Back} /\ p.pair \in Nat
  BY PathFacts, Ends DEF Invariant
<1>2. PICK w \in Places : w = At("register", c) /\ w.at = "register" /\ w.comm = c
  BY PlaceFacts
<1>3. pc'[t] = w /\ \A x \in Threads : x # t => pc'[x] = pc[x]
  BY <1>1, <1>2, Moves
<1>4. Given(t) = {} /\ Given(t)' = {p}
  BY <1>2, <1>3 DEF Given
<1>5. \A x \in Threads : x # t => Given(x)' = Given(x)
  BY <1>3 DEF Given
<1>6. [x \in Threads |-> Given(x)]' = [[x \in Threads |-> Given(x)] EXCEPT ![t] = {p}]
  BY <1>4, <1>5
<1>7. [x \in Threads |-> PathsOf(cache[x])]' = [x \in Threads |-> PathsOf(cache[x])]
  BY DEF PathsOf
<1>8. \A q \in PathsOf(cache[t]) : q.front # f
  <2>1. ASSUME NEW d \in cache[t] PROVE PathOf(d).front # f
    <3>1. d \in Comms /\ Opposite(d) \in cache[t]
      BY <1>1 DEF TypeOK, BothWays
    <3> QED
      BY <3>1, PathFacts
  <2> QED
    BY <2>1 DEF PathsOf
<1>9. p \in PathsOf(Range(list))'
  OBVIOUS
<1> HIDE DEF p
<1>10. Service!Give(t, f)
  BY <1>1, <1>4, <1>6, <1>7, <1>8, <1>9 DEF Service!Give, p
<1> QED
  BY <1>1, <1>10 DEF Service!Next, Service!Threads, Threads

LEMMA SearchRefines ==
  ASSUME Invariant, NEW t \in Threads, NEW u \in Partners(t), Search(t, u)
  PROVE  Service!Next \/ UNCHANGED Service!vars
<1>1. /\ TypeOK /\ list \in Seq(Comms) /\ pc[t] = Idle
      /\ UNCHANGED <<list, count, cache>>
      /\ \A d \in cache[t] : ~Matches(d, t, u)
  BY DEF Invariant, TypeOK, Search
<1>2. CASE \E c \in Listed(t, u) : pc' = [pc EXCEPT ![t] = At("register", c)]
  <2>1. PICK c \in Listed(t, u) : pc' = [pc EXCEPT ![t] = At("register", c)]
    BY <1>2
  <2>2. c \in Comms /\ c \in Range(list) /\ c.from = t /\ c.to = u
    BY <1>1, Found DEF Matches
  <2>3. PathOf(c) \in PathsOf(Range(list))
    BY <2>2 DEF PathsOf
  <2>4. PathsOf(Range(list))' = PathsOf(Range(list))
    BY <1>1 DEF PathsOf, Range
  <2>5. PathsOf(Range(list))' = PathsOf(Range(list)) \cup {PathOf(c)}
    BY <2>3, <2>4
  <2>6. pc[t].at # "register"
    BY <1>1, PlaceFacts
  <2> QED
    BY <1>1, <2>1, <2>2, <2>3, <2>5, <2>6, GiveRefines
<1>3. CASE pc' = [pc EXCEPT ![t] = At("add", Comm(made + 1, t, u))]
  <2>1. pc'[t] = At("add", Comm(made + 1, t, u)) /\ \A x \in Threads : x # t => pc'[x] = pc[x]
    BY <1>1, <1>3 DEF TypeOK
  <2>2. pc[t].at # "register" /\ pc'[t].at # "register"
    BY <1>1, <2>1, PlaceFacts DEF At
  <2>3. \A x \in Threads : Given(x)' = Given(x)
    BY <2>1, <2>2 DEF Given
  <2>4. [x \in Threads |-> Given(x)]' = [x \in Threads |-> Given(x)]
    BY <2>3
  <2>5. PathsOf(Range(list))' = PathsOf(Range(list))
    BY <1>1 DEF PathsOf, Range
  <2>6. [x \in Threads |-> PathsOf(cache[x])]' = [x \in Threads |-> PathsOf(cache[x])]
    BY <1>1 DEF PathsOf
  <2> QED
    BY <2>4, <2>5, <2>6 DEF Service!vars
<1> QED
  BY <1>2, <1>3 DEF Search

LEMMA AddRefines ==
  ASSUME Invariant, Calls, NEW t \in Threads, Add(t)
  PROVE  Service!Next
<1>1. /\ TypeOK /\ Closed /\ list \in Seq(Comms) /\ UNCHANGED cache
      /\ pc[t] \in Places /\ pc[t].at = "add" /\ pc[t].at # "register"
  BY DEF Invariant, TypeOK, Add
<1>2. PICK c \in Comms : c = pc[t].comm
  BY <1>1, PlaceFacts
<1>3. c.from = t /\ \A d \in cache[t] : ~Matches(d, t, c.to)
  BY <1>1, <1>2 DEF Calls, CallOK
<1>4. CASE /\ \E d \in Listed(c.from, c.to) : pc' = [pc EXCEPT ![t] = At("register", d)]
           /\ UNCHANGED <<list, count>>
  <2>1. PICK d \in Listed(c.from, c.to) : pc' = [pc EXCEPT ![t] = At("register", d)]
    BY <1>4
  <2>2. d \in Comms /\ d \in Range(list) /\ d.from = t /\ d.to = c.to
    BY <1>1, <1>3, Found DEF Matches
  <2>3. PathOf(d) \in PathsOf(Range(list))
    BY <2>2 DEF PathsOf
  <2>4. PathsOf(Range(list))' = PathsOf(Range(list))
    BY <1>4 DEF PathsOf, Range
  <2>5. PathsOf(Range(list))' = PathsOf(Range(list)) \cup {PathOf(d)}
    BY <2>3, <2>4
  <2>6. \A e \in cache[t] : ~Matches(e, t, d.to)
    BY <1>3, <2>2
  <2> QED
    BY <1>1, <2>1, <2>2, <2>3, <2>5, <2>6, GiveRefines
<1>5. CASE /\ Listed(c.from, c.to) = {}
           /\ list' = list \o <<c, Opposite(c)>>
           /\ pc' = [pc EXCEPT ![t] = At("register", c)]
  <2>1. Opposite(c) \in Comms /\ PathOf(Opposite(c)) = PathOf(c)
    BY Opposites, PathFacts
  <2>2. PICK n \in Nat : n = Len(list) /\ DOMAIN list = 1..n
    BY <1>1
  <2>3. /\ DOMAIN list' = 1..(n + 2)
        /\ \A i \in 1..n : list'[i] = list[i]
        /\ list'[n + 1] = c /\ list'[n + 2] = Opposite(c)
    BY <1>1, <1>5, <2>1, <2>2, TwoMore
  <2>4. Range(list') = Range(list) \cup {c, Opposite(c)}
    <3>1. \A i \in 1..(n + 2) : i \in 1..n \/ i = n + 1 \/ i = n + 2
      OBVIOUS
    <3>2. 1..n \subseteq 1..(n + 2) /\ n + 1 \in 1..(n + 2) /\ n + 2 \in 1..(n + 2)
      OBVIOUS
    <3> QED
      BY <2>2, <2>3, <3>1, <3>2 DEF Range
  <2>5. PathsOf(Range(list))' = PathsOf(Range(list)) \cup {PathOf(c)}
    BY <2>1, <2>4 DEF PathsOf
  <2>6. ASSUME NEW i \in DOMAIN list
        PROVE  /\ PathOf(list[i]).front # PathOf(c).front
               /\ PathOf(list[i]).pair # PathOf(c).pair
    <3>1. PICK j \in DOMAIN list : list[j] = Opposite(list[i])
      BY <1>1 DEF Closed
    <3>2. list[i] \in Comms
      BY <1>1
    <3>3. ~Matches(list[i], c.from, c.to) /\ ~Matches(list[j], c.from, c.to)
      BY <1>1, <1>5, Found
    <3>4. list[i].pair # c.pair
      BY <1>1, <1>2 DEF Calls, SocketsOK
    <3> QED
      BY <3>1, <3>2, <3>3, <3>4, PathFacts
  <2>7. \A q \in PathsOf(Range(list)) :
          q.front # PathOf(c).front /\ q.pair # PathOf(c).pair
    BY <2>6 DEF PathsOf, Range
  <2> QED
    BY <1>1, <1>3, <1>5, <2>5, <2>7, GiveRefines
<1> QED
  BY <1>2, <1>4, <1>5 DEF Add

LEMMA RegisterRefines ==
  ASSUME Invariant, NEW t \in Threads, Register(t)
  PROVE  Service!Keep(t)
<1>1. /\ TypeOK /\ pc[t] \in Places /\ pc[t].at = "register" /\ UNCHANGED list
  BY DEF Invariant, TypeOK, Register
<1>2. PICK c \in Comms : c = pc[t].comm
  BY <1>1, PlaceFacts
<1>3. /\ cache'[t] = cache[t] \cup Both(c)
      /\ \A x \in Threads : x # t => cache'[x] = cache[x]
      /\ pc'[t] = Idle /\ \A x \in Threads : x # t => pc'[x] = pc[x]
  BY <1>1, <1>2 DEF Register, TypeOK
<1>4. Given(t) = {PathOf(c)} /\ Given(t)' = {}
  BY <1>1, <1>2, <1>3, PlaceFacts DEF Given
<1>5. \A x \in Threads : x # t => Given(x)' = Given(x)
  BY <1>3 DEF Given
<1>6. [x \in Threads |-> Given(x)]' = [[x \in Threads |-> Given(x)] EXCEPT ![t] = {}]
  BY <1>4, <1>5
<1>7. PathsOf(cache'[t]) = PathsOf(cache[t]) \cup {PathOf(c)}
  <2>1. {PathOf(d) : d \in Both(c)} = {PathOf(c)}
    BY PathFacts DEF Both
  <2>2. {PathOf(d) : d \in cache[t] \cup Both(c)}
          = {PathOf(d) : d \in cache[t]} \cup {PathOf(d) : d \in Both(c)}
    OBVIOUS
  <2> QED
    BY <1>3, <2>1, <2>2 DEF PathsOf
<1>8. [x \in Threads |-> PathsOf(cache[x])]'
        = [[x \in Threads |-> PathsOf(cache[x])] EXCEPT ![t] = @ \cup Given(t)]
  <2>1. [x \in Threads |-> PathsOf(cache[x])]' = [x \in Threads |-> PathsOf(cache'[x])]
    BY DEF PathsOf
  <2>2. \A x \in Threads : x # t => PathsOf(cache'[x]) = PathsOf(cache[x])
    BY <1>3
  <2> QED
    BY <1>4, <1>7, <2>1, <2>2
<1>9. PathsOf(Range(list))' = PathsOf(Range(list))
  BY <1>1 DEF PathsOf, Range
<1> QED
  BY <1>4, <1>6, <1>8, <1>9 DEF Service!Keep

\* The count never ends the scan early.
LEMMA AllReached ==
  ASSUME Invariant
  PROVE  Reached(Back) = Unknown(Back)
<1>1. /\ list \in Seq(Comms) /\ count \in Nat
      /\ Cardinality(Unknown(Back)) <= count
  BY DEF Invariant, TypeOK, CountCovers
<1>2. PICK U : U = Unknown(Back)
  OBVIOUS
<1>3. IsFiniteSet(U) /\ U \subseteq Nat /\ Cardinality(U) \in Nat
  BY <1>1, <1>2, UnknownFinite, FS_CardinalityType
<1>4. ASSUME NEW i \in U PROVE Cardinality({j \in U : j > i}) < count
  <2>1. PICK V : V = {j \in U : j > i}
    OBVIOUS
  <2>2. V \subseteq U \ {i}
    BY <1>3, <2>1
  <2>3. IsFiniteSet(U \ {i}) /\ Cardinality(U \ {i}) = Cardinality(U) - 1
    BY <1>3, FS_RemoveElement
  <2>4. Cardinality(V) <= Cardinality(U) - 1 /\ Cardinality(V) \in Nat
    BY <2>2, <2>3, FS_Subset, FS_CardinalityType
  <2> QED
    BY <1>1, <1>2, <1>3, <2>1, <2>4
<1> QED
  BY <1>2, <1>4 DEF Reached

LEMMA FetchRefines ==
  ASSUME Invariant, Fetch(Back)
  PROVE  Service!Fetch
<1>1. /\ TypeOK /\ Closed /\ CachedIsListed' /\ pc' = pc /\ pc[Back] = Idle
      /\ UNCHANGED list /\ Back \in Threads /\ list \in Seq(Comms)
  BY FetchStep DEF Invariant, TypeOK, Fetch, Threads
<1>2. PICK U : U = Unknown(Back)
  OBVIOUS
<1>3. /\ cache'[Back] = cache[Back] \cup UNION {Both(list[i]) : i \in U}
      /\ \A x \in Threads : x # Back => cache'[x] = cache[x]
  BY <1>1, <1>2, AllReached DEF Fetch, TypeOK
<1>4. ASSUME NEW i \in DOMAIN list, list[i].to = Back PROVE list[i] \in cache'[Back]
  BY <1>2, <1>3, <1>4 DEF Unknown, Both
<1>5. ASSUME NEW i \in DOMAIN list PROVE PathOf(list[i]) \in PathsOf(cache'[Back])
  <2>1. list[i] \in Comms
    BY <1>1
  <2>2. PICK j \in DOMAIN list : list[j] = Opposite(list[i])
    BY <1>1 DEF Closed
  <2>3. list[j].to = list[i].from /\ PathOf(list[j]) = PathOf(list[i])
    BY <2>1, <2>2, Opposites, PathFacts
  <2>4. list[i].to = Back \/ list[j].to = Back
    BY <2>1, <2>3, Ends
  <2> QED
    BY <1>4, <2>3, <2>4 DEF PathsOf
<1>6. PathsOf(cache'[Back]) = PathsOf(Range(list))
  <2>1. cache'[Back] \subseteq Range(list)
    BY <1>1 DEF CachedIsListed, Range
  <2> QED
    BY <1>5, <2>1 DEF PathsOf, Range
<1>7. Given(Back) = {} /\ [x \in Threads |-> Given(x)]' = [x \in Threads |-> Given(x)]
  BY <1>1, PlaceFacts DEF Given
<1>8. PathsOf(Range(list))' = PathsOf(Range(list))
  BY <1>1 DEF PathsOf, Range
<1>9. [x \in Threads |-> PathsOf(cache[x])]'
        = [[x \in Threads |-> PathsOf(cache[x])] EXCEPT ![Back] = PathsOf(Range(list))]
  <2>1. [x \in Threads |-> PathsOf(cache[x])]' = [x \in Threads |-> PathsOf(cache'[x])]
    BY DEF PathsOf
  <2> QED
    BY <1>3, <1>6, <2>1
<1> QED
  BY <1>1, <1>7, <1>8, <1>9 DEF Service!Fetch

\* Asking for a path with its two searches under the mutex is one step to all
\* others, and fetch_new_interthread_communicators() misses nothing: the threads
\* see the service of PathService.
THEOREM PathsImplementService == Spec => ImplementsService
<1>1. Init => Service!Init
  <2> SUFFICES ASSUME Init PROVE Service!Init
    OBVIOUS
  <2>1. list = <<>> /\ \A t \in Threads : cache[t] = {} /\ Given(t) = {}
    BY PlaceFacts DEF Init, Given
  <2>2. Range(list) = {}
    BY <2>1 DEF Range
  <2> QED
    BY <2>1, <2>2 DEF Service!Init, Service!Threads, Threads, PathsOf
<1>2. Invariant /\ Calls /\ Next => Service!Next \/ UNCHANGED Service!vars
  <2> SUFFICES ASSUME Invariant, Calls, Next
               PROVE  Service!Next \/ UNCHANGED Service!vars
    OBVIOUS
  <2>1. ASSUME NEW t \in Threads, NEW u \in Partners(t), Search(t, u)
        PROVE  Service!Next \/ UNCHANGED Service!vars
    BY <2>1, SearchRefines
  <2>2. ASSUME NEW t \in Threads, Add(t) PROVE Service!Next
    BY <2>2, AddRefines
  <2>3. ASSUME NEW t \in Threads, Register(t) PROVE Service!Next
    BY <2>3, RegisterRefines DEF Service!Next, Service!Threads, Threads
  <2>4. CASE Fetch(Back)
    BY <2>4, FetchRefines DEF Service!Next
  <2> QED
    BY <2>1, <2>2, <2>3, <2>4 DEF Next, Ask, Finish
<1>3. UNCHANGED vars => UNCHANGED Service!vars
  <2> SUFFICES ASSUME UNCHANGED vars PROVE UNCHANGED Service!vars
    OBVIOUS
  <2>1. UNCHANGED <<list, cache, pc>>
    BY DEF vars
  <2> QED
    BY <2>1 DEF Service!vars, Given, PathsOf, Range
<1> QED
  BY <1>1, <1>2, <1>3, InvariantAlways, CallsAlways, PTL
  DEF Spec, ImplementsService, Service!Spec
=============================================================================
