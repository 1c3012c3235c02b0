------------------------ MODULE XContractGraph_proofs ------------------------
(***************************************************************************)
(* The cross-contract walk analyses every callee under exactly the pins    *)
(* that all chains of at most MaxDepth calls agree on, for every call      *)
(* network and every depth bound.                                          *)
(*                                                                         *)
(* The argument.  The queue is sorted by depth, so when the walk takes up  *)
(* depth n every item of a smaller depth has been walked (Level).  Two     *)
(* inductions follow it.  What an item or a callee holds is at least what  *)
(* all chains up to its depth agree on (NoPinGivenUp).  And for each chain *)
(* of at most Level calls some item has been queued under pins the chain   *)
(* passes, and is walked or will be before the level is left (Followed):   *)
(* once it is walked, the callees it reaches hold no more than the chain   *)
(* passes them (NoPinTooMany), also when their pins are weakened later.    *)
(***************************************************************************)
EXTENDS XContractGraph, TLAPS, SequenceTheorems, NumberLemmas

Program == Apps \union {Root}

\* What a chain of calls can bring about.
Arrival == Program \X SUBSET Pin

Calling(S) ==
    UNION {{<<Sites(x[1])[k].callee, ConstArgs(Sites(x[1])[k], x[2])>> :
               k \in DOMAIN Sites(x[1])} : x \in S}

\* The depth the walk is at: all items of a smaller depth have been walked.
Level ==
    IF Walking THEN walk.depth
    ELSE IF frontier # <<>> THEN Head(frontier).depth
    ELSE walk.depth + 1

\* The pins all chains of at most n calls to q agree on.
Common(q, n) ==
    {p \in Pin : \A d \in 0..n : \A x \in Arrivals[d] : x[1] = q => p \in x[2]}

\* The pins program q is walked under from now on.
Pins(q) == IF q = Root THEN {} ELSE merged[q]

\* Site k of q has been visited under the pins P.
Handled(q, P, k) ==
    LET site == Sites(q)[k] IN
    /\ site.callee \in callees
    /\ merged[site.callee] \subseteq ConstArgs(site, P)
    /\ \E e \in edges : e.caller = q /\ e.site = k

Walked(q, P) == \A k \in DOMAIN Sites(q) : Handled(q, P, k)

IsFor(item, q, P, n) == item.prog = q /\ item.pins = P /\ item.depth <= n

\* Program q has been walked under the pins P, or will be by the end of depth n.
Covered(q, P, n) ==
    \/ Walked(q, P)
    \/ Walking /\ IsFor(walk, q, P, n)
    \/ \E i \in DOMAIN frontier : IsFor(frontier[i], q, P, n)

-----------------------------------------------------------------------------
QueueSorted ==
    /\ \A i \in DOMAIN frontier :
           walk.depth <= frontier[i].depth /\ frontier[i].depth <= walk.depth + 1
    /\ \A i, j \in DOMAIN frontier : i <= j => frontier[i].depth <= frontier[j].depth
    /\ walk.depth < MaxDepth \/ (callees = {} /\ ~ Walking)

\* What is queued, walked, loaded or recorded is reached by a chain of that length.
OnlyReached ==
    /\ \A i \in DOMAIN frontier : \E x \in Arrivals[frontier[i].depth] : x[1] = frontier[i].prog
    /\ \E x \in Arrivals[walk.depth] : x[1] = walk.prog
    /\ \A a \in callees : \E d \in 1..(walk.depth + 1) : \E x \in Arrivals[d] : x[1] = a

NoPinGivenUp ==
    /\ \A i \in DOMAIN frontier :
           Common(frontier[i].prog, frontier[i].depth) \subseteq frontier[i].pins
    /\ Common(walk.prog, walk.depth) \subseteq walk.pins
    /\ \A a \in callees : Common(a, walk.depth + 1) \subseteq merged[a]

Reaches(n) ==
    \A x \in Arrivals[n] : x[1] \in callees \union {Root} /\ Pins(x[1]) \subseteq x[2]

NoPinTooMany == \A n \in 0..MaxDepth : n <= Level => Reaches(n)

Follows(n) ==
    \A x \in Arrivals[n] : \E P \in SUBSET Pin : P \subseteq x[2] /\ Covered(x[1], P, n)

Followed == \A n \in 0..MaxDepth : n <= Level /\ n < MaxDepth => Follows(n)

\* The pins a callee holds now will be those its sites see.
LatestCovered ==
    Level < MaxDepth =>
        \A q \in callees \union {Root} : Covered(q, Pins(q), MaxDepth)

VisitedHandled ==
    Walking => \A k \in 1..(walk.next - 1) : Handled(walk.prog, walk.pins, k)

EdgesShortest ==
    \A e \in edges :
        /\ \E x \in Arrivals[e.depth] : x[1] = e.caller
        /\ \A d \in 0..MaxDepth : d < e.depth => \A x \in Arrivals[d] : x[1] # e.caller

IInv ==
    /\ TypeOK
    /\ QueueSorted
    /\ OnlyReached
    /\ NoPinGivenUp
    /\ NoPinTooMany
    /\ Followed
    /\ LatestCovered
    /\ VisitedHandled
    /\ EdgesShortest
    /\ analyses = merged

-----------------------------------------------------------------------------
(* The networks and the chains of calls.                                   *)

LEMMA NetFacts ==
    ASSUME TypeOK
    PROVE  /\ \A q \in Program : Sites(q) \in Seq(Site)
           /\ \A q \in Program : \A k \in DOMAIN Sites(q) :
                  /\ Sites(q)[k] \in Site
                  /\ Sites(q)[k].callee \in Apps
                  /\ \A P : ConstArgs(Sites(q)[k], P) \subseteq Pin
           /\ \A q \in Program : DOMAIN Sites(q) = 1..Len(Sites(q)) /\ Len(Sites(q)) \in Nat
<1>1. net \in [Program -> Seq(Site)]
  BY NetworksAreNetworks DEF TypeOK, Network, Program
<1>2. \A q \in Program : Sites(q) \in Seq(Site)
  BY <1>1 DEF Sites
<1>3. \A q \in Program : DOMAIN Sites(q) = 1..Len(Sites(q)) /\ Len(Sites(q)) \in Nat
  <2> SUFFICES ASSUME NEW q \in Program
               PROVE  DOMAIN Sites(q) = 1..Len(Sites(q)) /\ Len(Sites(q)) \in Nat
    OBVIOUS
  <2> HIDE DEF Site
  <2> QED BY <1>2, LenProperties
<1>4. ASSUME NEW q \in Program, NEW k \in DOMAIN Sites(q) PROVE Sites(q)[k] \in Site
  <2> HIDE DEF Site
  <2> QED BY <1>2, ElementOfSeq, <1>3
<1>5. \A site, P : ConstArgs(site, P) \subseteq Pin
  BY DEF ConstArgs
<1>6. \A site \in Site : site.callee \in Apps
  BY DEF Site
<1> QED BY <1>2, <1>3, <1>4, <1>5, <1>6

\* The pins passed on grow with the pins held.
LEMMA ConstArgsMonotone ==
    ASSUME NEW site, NEW P, NEW Q, P \subseteq Q
    PROVE  ConstArgs(site, P) \subseteq ConstArgs(site, Q)
BY DEF ConstArgs

LEMMA CallingType ==
    ASSUME TypeOK, NEW S \in SUBSET Arrival
    PROVE  Calling(S) \subseteq Arrival
<1> SUFFICES ASSUME NEW x \in S, NEW k \in DOMAIN Sites(x[1])
             PROVE  <<Sites(x[1])[k].callee, ConstArgs(Sites(x[1])[k], x[2])>> \in Arrival
  BY DEF Calling
<1>1. x[1] \in Program
  BY DEF Arrival
<1> QED BY <1>1, NetFacts DEF Arrival, Program

\* The chains of n + 1 calls are those of n calls with one more.
LEMMA ArrivalsStep ==
    ASSUME TypeOK
    PROVE  /\ Arrivals[0] = {<<Root, {}>>}
           /\ \A n \in Nat : Arrivals[n] \subseteq Arrival
           /\ \A n \in Nat : Arrivals[n + 1] = Calling(Arrivals[n])
<1> DEFINE D == SUBSET Arrival
           G == [S \in D |-> Calling(S)]
           F(f) == [n \in Nat |->
                       IF n = 0 THEN {<<Root, {}>>}
                       ELSE UNION {{<<Sites(x[1])[k].callee, ConstArgs(Sites(x[1])[k], x[2])>> :
                                       k \in DOMAIN Sites(x[1])} : x \in f[n - 1]}]
<1>1. {<<Root, {}>>} \in D
  BY DEF Arrival, Program
<1>2. G \in [D -> D]
  BY CallingType
<1>3. PICK f \in [Nat -> D] : f[0] = {<<Root, {}>>} /\ \A n \in Nat : f[n + 1] = G[f[n]]
  <2> DEFINE A == {<<Root, {}>>}
  <2>1. A \in D
    BY <1>1
  <2> HIDE DEF A, D, G, F
  <2>2. \E f \in [Nat -> D] : f[0] = A /\ \A n \in Nat : f[n + 1] = G[f[n]]
    BY <2>1, <1>2, RecursionOverNumbers
  <2> QED BY <2>2 DEF A
<1>4. f = F(f)
  <2>1. ASSUME NEW n \in Nat PROVE f[n] = F(f)[n]
    <3>1. CASE n = 0
      BY <1>3, <3>1
    <3>2. CASE n # 0
      <4>1. n - 1 \in Nat /\ (n - 1) + 1 = n
        BY <3>2
      <4>2. f[n] = G[f[n - 1]] /\ f[n - 1] \in D
        <5> HIDE DEF G, D
        <5> QED BY <1>3, <4>1
      <4>3. f[n] = Calling(f[n - 1])
        BY <4>2
      <4>4. F(f)[n] = Calling(f[n - 1])
        BY <3>2 DEF Calling
      <4> QED BY <4>3, <4>4
    <3> QED BY <3>1, <3>2
  <2>2. f = [n \in Nat |-> f[n]]
    <3> HIDE DEF D
    <3> QED BY <1>3
  <2>3. F(f) = [n \in Nat |-> F(f)[n]]
    OBVIOUS
  <2>4. [n \in Nat |-> f[n]] = [n \in Nat |-> F(f)[n]]
    <3> HIDE DEF F
    <3> QED BY <2>1
  <2> HIDE DEF F
  <2> QED BY <2>2, <2>3, <2>4
<1>5. Arrivals = F(Arrivals)
  <2>1. Arrivals = CHOOSE g : g = F(g)
    BY DEF Arrivals
  <2> HIDE DEF F
  <2> QED BY <1>4, <2>1
<1>6. Arrivals[0] = {<<Root, {}>>}
  BY <1>5
<1>7. ASSUME NEW n \in Nat PROVE Arrivals[n + 1] = Calling(Arrivals[n])
  <2>1. n + 1 \in Nat /\ n + 1 # 0 /\ (n + 1) - 1 = n
    OBVIOUS
  <2>2. F(Arrivals)[n + 1] = Calling(Arrivals[n])
    BY <2>1 DEF Calling
  <2> HIDE DEF F
  <2> QED BY <1>5, <2>2
<1>8. \A n \in Nat : Arrivals[n] \subseteq Arrival
  <2> DEFINE T == {n \in Nat : Arrivals[n] \subseteq Arrival}
  <2>1. 0 \in T
    BY <1>1, <1>6
  <2>2. \A n \in Nat : n \in T => n + 1 \in T
    BY <1>7, CallingType
  <2>3. \A n \in Nat : n \in T
    <3> HIDE DEF T
    <3> QED BY <2>1, <2>2, NumberInduction
  <2> QED BY <2>3
<1> QED BY <1>6, <1>7, <1>8

\* One more call, as pairs.
LEMMA OneMoreCall ==
    ASSUME TypeOK, NEW n \in Nat
    PROVE  /\ \A x \in Arrivals[n] : \A k \in DOMAIN Sites(x[1]) :
                  <<Sites(x[1])[k].callee, ConstArgs(Sites(x[1])[k], x[2])>> \in Arrivals[n + 1]
           /\ \A y \in Arrivals[n + 1] : \E x \in Arrivals[n] : \E k \in DOMAIN Sites(x[1]) :
                  /\ y[1] = Sites(x[1])[k].callee
                  /\ y[2] = ConstArgs(Sites(x[1])[k], x[2])
<1> DEFINE Made(x) == {<<Sites(x[1])[k].callee, ConstArgs(Sites(x[1])[k], x[2])>> :
                          k \in DOMAIN Sites(x[1])}
<1>1. Arrivals[n + 1] = UNION {Made(x) : x \in Arrivals[n]}
  BY ArrivalsStep DEF Calling
<1>2. \A y : y \in Arrivals[n + 1] <=> \E x \in Arrivals[n] : y \in Made(x)
  <2> HIDE DEF Made
  <2> QED BY <1>1
<1>3. ASSUME NEW x \in Arrivals[n], NEW k \in DOMAIN Sites(x[1])
      PROVE  <<Sites(x[1])[k].callee, ConstArgs(Sites(x[1])[k], x[2])>> \in Arrivals[n + 1]
  BY <1>2
<1>4. ASSUME NEW y \in Arrivals[n + 1]
      PROVE  \E x \in Arrivals[n] : \E k \in DOMAIN Sites(x[1]) :
                  /\ y[1] = Sites(x[1])[k].callee
                  /\ y[2] = ConstArgs(Sites(x[1])[k], x[2])
  <2>1. PICK x \in Arrivals[n] : y \in Made(x)
    BY <1>2
  <2>2. PICK k \in DOMAIN Sites(x[1]) :
               y = <<Sites(x[1])[k].callee, ConstArgs(Sites(x[1])[k], x[2])>>
    BY <2>1
  <2> QED BY <2>2
<1> QED BY <1>3, <1>4

LEMMA ArrivalFacts ==
    ASSUME TypeOK, NEW n \in Nat, NEW x \in Arrivals[n]
    PROVE  /\ x[1] \in Program
           /\ x[2] \subseteq Pin
           /\ x = <<x[1], x[2]>>
           /\ n = 0 => x[1] = Root /\ x[2] = {}
           /\ n # 0 => x[1] \in Apps
<1>1. x \in Arrival
  BY ArrivalsStep
<1>2. x[1] \in Program /\ x[2] \subseteq Pin /\ x = <<x[1], x[2]>>
  BY <1>1 DEF Arrival
<1>3. n = 0 => x[1] = Root /\ x[2] = {}
  BY ArrivalsStep
<1>4. ASSUME n # 0 PROVE x[1] \in Apps
  <2>1. n - 1 \in Nat /\ (n - 1) + 1 = n
    BY <1>4
  <2>2. PICK y \in Arrivals[n - 1] : \E k \in DOMAIN Sites(y[1]) : x[1] = Sites(y[1])[k].callee
    <3>1. x \in Arrivals[(n - 1) + 1]
      BY <2>1
    <3>2. \E y \in Arrivals[n - 1] : \E k \in DOMAIN Sites(y[1]) :
              x[1] = Sites(y[1])[k].callee /\ x[2] = ConstArgs(Sites(y[1])[k], y[2])
      BY <2>1, <3>1, OneMoreCall
    <3> QED BY <3>2
  <2>3. y[1] \in Program
    BY <2>1, <2>2, ArrivalsStep DEF Arrival
  <2> QED BY <2>2, <2>3, NetFacts
<1> QED BY <1>2, <1>3, <1>4

-----------------------------------------------------------------------------
(* What the actions do, in the terms of the invariant.                     *)

Item == [prog : Program, depth : 0..MaxDepth, pins : SUBSET Pin]

Visit == VisitNewCallee \/ VisitKnownCallee

LEMMA SameNet ==
    ASSUME UNCHANGED net
    PROVE  /\ Arrivals' = Arrivals
           /\ \A q : (Sites(q))' = Sites(q)
           /\ \A q, n : (Common(q, n))' = Common(q, n)
<1>1. Arrivals' = Arrivals /\ \A q : (Sites(q))' = Sites(q)
  BY DEF Arrivals, Sites
<1> QED BY <1>1 DEF Common

LEMMA QueueFacts ==
    ASSUME TypeOK
    PROVE  /\ frontier \in Seq(Item)
           /\ Len(frontier) \in Nat
           /\ DOMAIN frontier = 1..Len(frontier)
           /\ \A i \in DOMAIN frontier :
                  /\ frontier[i] \in Item
                  /\ frontier[i].prog \in Program
                  /\ frontier[i].depth \in 0..MaxDepth
                  /\ frontier[i].pins \subseteq Pin
           /\ walk.prog \in Program /\ walk.depth \in 0..MaxDepth
           /\ walk.pins \subseteq Pin /\ walk.next \in Nat
           /\ walk = [prog |-> walk.prog, depth |-> walk.depth,
                      pins |-> walk.pins, next |-> walk.next]
<1>1. frontier \in Seq(Item)
  BY DEF TypeOK, Item, Program
<1>2. Len(frontier) \in Nat /\ DOMAIN frontier = 1..Len(frontier)
      /\ \A i \in DOMAIN frontier : frontier[i] \in Item
  <2> HIDE DEF Item
  <2> QED BY <1>1
<1>3. \A item \in Item : item.prog \in Program /\ item.depth \in 0..MaxDepth
                          /\ item.pins \subseteq Pin
  BY DEF Item
<1>4. walk \in [prog : Program, depth : 0..MaxDepth, pins : SUBSET Pin, next : Nat]
  BY DEF TypeOK, Program
<1> QED BY <1>1, <1>2, <1>3, <1>4

\* The head is taken off the queue.
LEMMA TailFacts ==
    ASSUME TypeOK, frontier # <<>>, frontier' = Tail(frontier)
    PROVE  /\ Head(frontier) = frontier[1]
           /\ 1 \in DOMAIN frontier
           /\ frontier' \in Seq(Item)
           /\ DOMAIN frontier' = 1..(Len(frontier) - 1)
           /\ \A i \in DOMAIN frontier' :
                  i + 1 \in DOMAIN frontier /\ frontier'[i] = frontier[i + 1]
           /\ \A i \in DOMAIN frontier :
                  i = 1 \/ (i - 1 \in DOMAIN frontier' /\ frontier'[i - 1] = frontier[i])
<1>1. frontier \in Seq(Item) /\ Len(frontier) \in Nat /\ DOMAIN frontier = 1..Len(frontier)
  BY QueueFacts
<1> HIDE DEF Item
<1>2. Len(frontier) # 0
  BY <1>1, EmptySeq
<1>3. /\ frontier' \in Seq(Item)
      /\ Len(frontier') = Len(frontier) - 1
      /\ DOMAIN frontier' = 1..(Len(frontier) - 1)
      /\ \A i \in 1..(Len(frontier) - 1) : frontier'[i] = frontier[i + 1]
  BY <1>1, <1>2
<1>4. \A i \in 1..Len(frontier) : i # 1 =>
          i - 1 \in 1..(Len(frontier) - 1) /\ (i - 1) + 1 = i
  BY <1>1
<1>5. \A i \in 1..(Len(frontier) - 1) : i + 1 \in 1..Len(frontier)
  BY <1>1
<1>6. Head(frontier) = frontier[1] /\ 1 \in DOMAIN frontier
  BY <1>1, <1>2
<1> QED BY <1>1, <1>3, <1>4, <1>5, <1>6

\* A visit leaves the queue alone or puts the callee at its end.
LEMMA AppendFacts ==
    ASSUME TypeOK, NEW item \in Item, frontier' = Append(frontier, item)
    PROVE  /\ frontier' \in Seq(Item)
           /\ DOMAIN frontier' = 1..(Len(frontier) + 1)
           /\ \A i \in DOMAIN frontier : i \in DOMAIN frontier' /\ frontier'[i] = frontier[i]
           /\ Len(frontier) + 1 \in DOMAIN frontier'
           /\ frontier'[Len(frontier) + 1] = item
           /\ \A i \in DOMAIN frontier' : i \in DOMAIN frontier \/ i = Len(frontier) + 1
<1>1. frontier \in Seq(Item) /\ Len(frontier) \in Nat /\ DOMAIN frontier = 1..Len(frontier)
  BY QueueFacts
<1> HIDE DEF Item
<1>2. /\ frontier' \in Seq(Item)
      /\ DOMAIN frontier' = 1..(Len(frontier) + 1)
      /\ \A i \in 1..Len(frontier) : frontier'[i] = frontier[i]
      /\ frontier'[Len(frontier) + 1] = item
  BY <1>1
<1> QED BY <1>1, <1>2

LEMMA CurrentFacts ==
    ASSUME TypeOK, Walking
    PROVE  /\ walk.next \in DOMAIN Sites(walk.prog)
           /\ walk.next \in Nat \ {0}
           /\ Current = Sites(walk.prog)[walk.next]
           /\ Current.callee \in Apps
           /\ Passed = ConstArgs(Current, walk.pins)
           /\ Passed \subseteq Pin
<1>1. walk.prog \in Program /\ walk.next \in DOMAIN Sites(walk.prog) /\ walk.next \in Nat \ {0}
  BY QueueFacts, NetFacts DEF Walking
<1> QED BY <1>1, NetFacts DEF Current, Passed

LEMMA VisitFacts ==
    ASSUME TypeOK, QueueSorted, Visit
    PROVE  /\ Walking
           /\ net' = net
           /\ walk' = [walk EXCEPT !.next = walk.next + 1]
           /\ callees' = callees \union {Current.callee}
           /\ merged' \in [Apps -> SUBSET Pin]
           /\ \A a \in Apps : a # Current.callee => merged'[a] = merged[a]
           /\ merged'[Current.callee] =
                  IF Current.callee \in callees THEN merged[Current.callee] \intersect Passed
                  ELSE Passed
           /\ analyses = merged => analyses' = merged'
           /\ \/ frontier' = frontier /\ merged' = merged /\ Current.callee \in callees
              \/ frontier' = Append(frontier, [prog  |-> Current.callee,
                                               depth |-> walk.depth + 1,
                                               pins  |-> merged'[Current.callee]])
           /\ RecordEdge
<1>1. Walking
  BY DEF Visit, VisitNewCallee, VisitKnownCallee
<1>2. Current.callee \in Apps /\ Passed \subseteq Pin
  BY <1>1, CurrentFacts
<1>3. merged \in [Apps -> SUBSET Pin]
  BY DEF TypeOK
<1>4. CASE VisitNewCallee
  <2>1. /\ Current.callee \notin callees
        /\ merged' = [merged EXCEPT ![Current.callee] = Passed]
        /\ analyses' = [analyses EXCEPT ![Current.callee] = Passed]
        /\ frontier' = Append(frontier, [prog |-> Current.callee, depth |-> walk.depth + 1,
                                         pins |-> Passed])
    BY <1>4 DEF VisitNewCallee, Enqueue
  <2>2. /\ net' = net
        /\ walk' = [walk EXCEPT !.next = walk.next + 1]
        /\ callees' = callees \union {Current.callee}
        /\ RecordEdge
    BY <1>4 DEF VisitNewCallee
  <2>3. merged'[Current.callee] = Passed
    BY <1>2, <1>3, <2>1
  <2> QED BY <1>1, <1>2, <1>3, <2>1, <2>2, <2>3
<1>5. CASE VisitKnownCallee
  <2>1. /\ Current.callee \in callees
        /\ net' = net
        /\ walk' = [walk EXCEPT !.next = walk.next + 1]
        /\ callees' = callees \union {Current.callee}
        /\ RecordEdge
    BY <1>5 DEF VisitKnownCallee
  <2>2. Meet = merged[Current.callee] \intersect Passed
    BY DEF Meet
  <2>3. CASE Meet # merged[Current.callee]
    <3>1. /\ merged' = [merged EXCEPT ![Current.callee] = Meet]
          /\ analyses' = [analyses EXCEPT ![Current.callee] = Meet]
          /\ frontier' = Append(frontier, [prog |-> Current.callee, depth |-> walk.depth + 1,
                                           pins |-> Meet])
      BY <1>5, <2>3 DEF VisitKnownCallee, Enqueue
    <3>2. merged'[Current.callee] = Meet /\ Meet \subseteq Pin
      BY <1>2, <1>3, <2>2, <3>1
    <3> QED BY <1>1, <1>2, <1>3, <2>1, <2>2, <3>1, <3>2
  <2>4. CASE Meet = merged[Current.callee]
    <3>1. UNCHANGED <<merged, analyses, frontier>>
      BY <1>5, <2>4 DEF VisitKnownCallee
    <3> QED BY <1>1, <1>2, <1>3, <2>1, <2>2, <2>4, <3>1
  <2> QED BY <2>3, <2>4
<1> QED BY <1>4, <1>5 DEF Visit

LEMMA WalkAfterVisit ==
    ASSUME TypeOK, walk' = [walk EXCEPT !.next = walk.next + 1]
    PROVE  /\ walk'.prog = walk.prog /\ walk'.depth = walk.depth /\ walk'.pins = walk.pins
           /\ walk'.next = walk.next + 1
           /\ walk' \in [prog : Program, depth : 0..MaxDepth, pins : SUBSET Pin, next : Nat]
BY QueueFacts

LEMMA EdgesAfterVisit ==
    ASSUME TypeOK, Walking, RecordEdge
    PROVE  /\ edges \subseteq edges'
           /\ \E e \in edges' : e.caller = walk.prog /\ e.site = walk.next
           /\ \A e \in edges' : \/ e \in edges
                                \/ /\ e.caller = walk.prog /\ e.site = walk.next
                                   /\ e.depth = walk.depth
                                   /\ \A f \in edges : f.caller # walk.prog \/ f.site # walk.next
           /\ edges' \subseteq [caller : Program, site : Nat \ {0}, callee : Apps,
                               depth : 0..MaxDepth]
<1> DEFINE new == [caller |-> walk.prog, site |-> walk.next,
                   callee |-> Current.callee, depth |-> walk.depth]
<1>1. new \in [caller : Program, site : Nat \ {0}, callee : Apps, depth : 0..MaxDepth]
  BY QueueFacts, CurrentFacts
<1>2. edges \subseteq [caller : Program, site : Nat \ {0}, callee : Apps, depth : 0..MaxDepth]
  BY DEF TypeOK, Program
<1>3. CASE \E e \in edges : e.caller = walk.prog /\ e.site = walk.next
  <2>1. edges' = edges
    BY <1>3 DEF RecordEdge
  <2> QED BY <1>2, <1>3, <2>1
<1>4. CASE ~ \E e \in edges : e.caller = walk.prog /\ e.site = walk.next
  <2>1. edges' = edges \union {new}
    BY <1>4 DEF RecordEdge
  <2>2. new.caller = walk.prog /\ new.site = walk.next /\ new.depth = walk.depth
    OBVIOUS
  <2> HIDE DEF new
  <2> QED BY <1>1, <1>2, <1>4, <2>1, <2>2
<1> QED BY <1>3, <1>4

LEMMA StartFacts ==
    ASSUME TypeOK, StartWalk
    PROVE  /\ ~ Walking
           /\ frontier # <<>> /\ frontier' = Tail(frontier)
           /\ Head(frontier) = frontier[1] /\ 1 \in DOMAIN frontier
           /\ frontier[1].depth < MaxDepth
           /\ walk'.prog = frontier[1].prog /\ walk'.depth = frontier[1].depth
           /\ walk'.pins = frontier[1].pins /\ walk'.next = 1
           /\ walk' \in [prog : Program, depth : 0..MaxDepth, pins : SUBSET Pin, next : Nat]
           /\ UNCHANGED <<net, callees, merged, analyses, edges>>
<1>1. /\ ~ Walking /\ frontier # <<>> /\ frontier' = Tail(frontier)
      /\ Head(frontier).depth < MaxDepth
      /\ walk' = [prog  |-> Head(frontier).prog, depth |-> Head(frontier).depth,
                  pins  |-> Head(frontier).pins, next  |-> 1]
      /\ UNCHANGED <<net, callees, merged, analyses, edges>>
  BY DEF StartWalk
<1>2. Head(frontier) = frontier[1] /\ 1 \in DOMAIN frontier
  BY <1>1, TailFacts
<1>3. /\ frontier[1].prog \in Program /\ frontier[1].depth \in 0..MaxDepth
      /\ frontier[1].pins \subseteq Pin
  BY <1>2, QueueFacts
<1>4. walk' = [prog  |-> frontier[1].prog, depth |-> frontier[1].depth,
               pins  |-> frontier[1].pins, next  |-> 1]
  BY <1>1, <1>2
<1> QED BY <1>1, <1>2, <1>3, <1>4

LEMMA DropFacts ==
    ASSUME TypeOK, DropTooDeep
    PROVE  /\ ~ Walking
           /\ frontier # <<>> /\ frontier' = Tail(frontier)
           /\ Head(frontier) = frontier[1] /\ 1 \in DOMAIN frontier
           /\ frontier[1].depth = MaxDepth
           /\ UNCHANGED <<net, walk, callees, merged, analyses, edges>>
<1>1. /\ ~ Walking /\ frontier # <<>> /\ frontier' = Tail(frontier)
      /\ Head(frontier).depth >= MaxDepth
      /\ UNCHANGED <<net, walk, callees, merged, analyses, edges>>
  BY DEF DropTooDeep
<1>2. Head(frontier) = frontier[1] /\ 1 \in DOMAIN frontier
  BY <1>1, TailFacts
<1>3. frontier[1].depth \in 0..MaxDepth
  BY <1>2, QueueFacts
<1> QED BY <1>1, <1>2, <1>3, MaxDepthIsNat

\* What a visit puts at the end of the queue.
LEMMA NewItem ==
    ASSUME TypeOK, QueueSorted, Visit
    PROVE  [prog |-> Current.callee, depth |-> walk.depth + 1,
            pins |-> merged'[Current.callee]] \in Item
<1>1. walk.depth < MaxDepth /\ Current.callee \in Apps /\ merged' \in [Apps -> SUBSET Pin]
  BY VisitFacts, CurrentFacts DEF QueueSorted
<1>2. walk.depth + 1 \in 0..MaxDepth
  BY <1>1, QueueFacts, MaxDepthIsNat
<1> QED BY <1>1, <1>2 DEF Item, Program

-----------------------------------------------------------------------------
(* Types, and the order of the queue.                                      *)

LEMMA TypeStep ==
    ASSUME TypeOK, QueueSorted, analyses = merged, Next
    PROVE  TypeOK' /\ analyses' = merged'
<1>1. CASE DropTooDeep
  <2>1. frontier' \in Seq(Item)
    BY <1>1, DropFacts, TailFacts
  <2> QED BY <1>1, <2>1, DropFacts DEF TypeOK, Item, Program
<1>2. CASE StartWalk
  <2>1. frontier' \in Seq(Item)
    BY <1>2, StartFacts, TailFacts
  <2> QED BY <1>2, <2>1, StartFacts DEF TypeOK, Item, Program
<1>3. CASE Visit
  <2>1. frontier' \in Seq(Item)
    BY <1>3, VisitFacts, NewItem, AppendFacts, QueueFacts
  <2>2. callees' \subseteq Apps /\ net' \in Networks
    BY <1>3, VisitFacts, CurrentFacts DEF TypeOK
  <2>3. walk' \in [prog : Program, depth : 0..MaxDepth, pins : SUBSET Pin, next : Nat]
    BY <1>3, VisitFacts, WalkAfterVisit
  <2>4. merged' \in [Apps -> SUBSET Pin] /\ analyses' = merged'
    BY <1>3, VisitFacts
  <2>5. edges' \subseteq [caller : Program, site : Nat \ {0}, callee : Apps,
                         depth : 0..MaxDepth]
    BY <1>3, VisitFacts, EdgesAfterVisit
  <2> QED BY <2>1, <2>2, <2>3, <2>4, <2>5 DEF TypeOK, Item, Program
<1> QED BY <1>1, <1>2, <1>3 DEF Next, Visit

LEMMA QueueStep ==
    ASSUME TypeOK, QueueSorted, analyses = merged, Next
    PROVE  QueueSorted'
<1> USE MaxDepthIsNat
<1>0. /\ \A i \in DOMAIN frontier : frontier[i].depth \in Nat
      /\ walk.depth \in Nat /\ Len(frontier) \in Nat
      /\ DOMAIN frontier = 1..Len(frontier)
  BY QueueFacts
<1>1. CASE DropTooDeep
  <2>1. /\ DOMAIN frontier' = 1..(Len(frontier) - 1)
        /\ \A i \in DOMAIN frontier' :
               i + 1 \in DOMAIN frontier /\ frontier'[i] = frontier[i + 1]
    BY <1>1, DropFacts, TailFacts
  <2>2. Walking' = Walking /\ walk' = walk /\ callees' = callees
    BY <1>1, DropFacts DEF Walking, Sites
  <2> QED BY <1>0, <2>1, <2>2, SMTT(30) DEF QueueSorted
<1>2. CASE StartWalk
  <2>1. /\ DOMAIN frontier' = 1..(Len(frontier) - 1)
        /\ \A i \in DOMAIN frontier' :
               i + 1 \in DOMAIN frontier /\ frontier'[i] = frontier[i + 1]
    BY <1>2, StartFacts, TailFacts
  <2>2. walk'.depth = frontier[1].depth /\ frontier[1].depth < MaxDepth /\ 1 \in DOMAIN frontier
    BY <1>2, StartFacts
  <2>3. \A i \in DOMAIN frontier : /\ frontier[1].depth <= frontier[i].depth
                                   /\ frontier[i].depth <= frontier[1].depth + 1
    BY <1>0, <2>2 DEF QueueSorted
  <2>4. \A i \in DOMAIN frontier' :
            walk'.depth <= frontier'[i].depth /\ frontier'[i].depth <= walk'.depth + 1
    BY <2>1, <2>2, <2>3
  <2>5. \A i, j \in DOMAIN frontier' : i <= j => frontier'[i].depth <= frontier'[j].depth
    BY <1>0, <2>1, SMTT(30) DEF QueueSorted
  <2>6. walk'.depth < MaxDepth
    BY <2>2
  <2> QED BY <2>4, <2>5, <2>6 DEF QueueSorted
<1>3. CASE Visit
  <2>1. walk'.depth = walk.depth /\ walk.depth < MaxDepth
    BY <1>3, VisitFacts, WalkAfterVisit DEF QueueSorted
  <2>2. CASE frontier' = frontier
    BY <2>1, <2>2 DEF QueueSorted
  <2>3. CASE frontier' # frontier
    <3> DEFINE item == [prog |-> Current.callee, depth |-> walk.depth + 1,
                        pins |-> merged'[Current.callee]]
    <3>1. item \in Item /\ frontier' = Append(frontier, item) /\ item.depth = walk.depth + 1
      BY <1>3, <2>3, VisitFacts, NewItem
    <3> HIDE DEF item
    <3>2. /\ DOMAIN frontier' = 1..(Len(frontier) + 1)
          /\ \A i \in DOMAIN frontier : frontier'[i] = frontier[i]
          /\ frontier'[Len(frontier) + 1] = item
      BY <3>1, AppendFacts
    <3> QED BY <1>0, <2>1, <3>1, <3>2 DEF QueueSorted
  <2> QED BY <2>2, <2>3
<1> QED BY <1>1, <1>2, <1>3 DEF Next, Visit

-----------------------------------------------------------------------------
(* What is held is reached, and at least what all chains agree on.         *)

LEMMA NextKeepsNet ==
    ASSUME TypeOK, QueueSorted, Next
    PROVE  net' = net
BY VisitFacts, StartFacts, DropFacts DEF Next, Visit

LEMMA CalleeReached ==
    ASSUME TypeOK, Walking, OnlyReached
    PROVE  \E x \in Arrivals[walk.depth + 1] : x[1] = Current.callee
<1>1. walk.depth \in Nat /\ walk.next \in DOMAIN Sites(walk.prog)
      /\ Current = Sites(walk.prog)[walk.next]
  BY QueueFacts, CurrentFacts
<1>2. PICK x \in Arrivals[walk.depth] : x[1] = walk.prog
  BY DEF OnlyReached
<1>3. <<Sites(x[1])[walk.next].callee, ConstArgs(Sites(x[1])[walk.next], x[2])>>
          \in Arrivals[walk.depth + 1]
  BY <1>1, <1>2, OneMoreCall
<1> QED BY <1>1, <1>2, <1>3

LEMMA ReachedStep ==
    ASSUME TypeOK, QueueSorted, OnlyReached, Next
    PROVE  OnlyReached'
<1> USE MaxDepthIsNat
<1>1. Arrivals' = Arrivals
  BY NextKeepsNet, SameNet
<1>2. CASE DropTooDeep
  <2>1. /\ \A i \in DOMAIN frontier' :
               i + 1 \in DOMAIN frontier /\ frontier'[i] = frontier[i + 1]
        /\ walk' = walk /\ callees' = callees
    BY <1>2, DropFacts, TailFacts
  <2> QED BY <1>1, <2>1 DEF OnlyReached
<1>3. CASE StartWalk
  <2>1. /\ \A i \in DOMAIN frontier' :
               i + 1 \in DOMAIN frontier /\ frontier'[i] = frontier[i + 1]
        /\ 1 \in DOMAIN frontier
        /\ walk'.prog = frontier[1].prog /\ walk'.depth = frontier[1].depth
        /\ callees' = callees
    BY <1>3, StartFacts, TailFacts
  <2>2. walk.depth <= walk'.depth /\ walk.depth \in Nat /\ walk'.depth \in Nat
    BY <2>1, QueueFacts DEF QueueSorted
  <2>3. 1..(walk.depth + 1) \subseteq 1..(walk'.depth + 1)
    BY <2>2
  <2>4. \A a \in callees' : \E d \in 1..(walk'.depth + 1) : \E x \in Arrivals[d] : x[1] = a
    BY <2>1, <2>3 DEF OnlyReached
  <2>5. \A i \in DOMAIN frontier' :
            \E x \in Arrivals[frontier'[i].depth] : x[1] = frontier'[i].prog
    BY <2>1 DEF OnlyReached
  <2>6. \E x \in Arrivals[walk'.depth] : x[1] = walk'.prog
    BY <2>1 DEF OnlyReached
  <2> QED BY <1>1, <2>4, <2>5, <2>6 DEF OnlyReached
<1>4. CASE Visit
  <2>1. \E x \in Arrivals[walk.depth + 1] : x[1] = Current.callee
    BY <1>4, VisitFacts, CalleeReached
  <2>2. /\ walk'.depth = walk.depth /\ walk'.prog = walk.prog
        /\ callees' = callees \union {Current.callee}
        /\ walk.depth + 1 \in 1..(walk.depth + 1)
    BY <1>4, VisitFacts, WalkAfterVisit, QueueFacts
  <2>3. \A a \in callees' : \E d \in 1..(walk'.depth + 1) : \E x \in Arrivals[d] : x[1] = a
    BY <2>1, <2>2 DEF OnlyReached
  <2>4. \A i \in DOMAIN frontier' :
            \E x \in Arrivals[frontier'[i].depth] : x[1] = frontier'[i].prog
    <3>1. CASE frontier' = frontier
      BY <3>1 DEF OnlyReached
    <3>2. CASE frontier' # frontier
      <4> DEFINE item == [prog |-> Current.callee, depth |-> walk.depth + 1,
                          pins |-> merged'[Current.callee]]
      <4>1. item \in Item /\ frontier' = Append(frontier, item)
            /\ item.depth = walk.depth + 1 /\ item.prog = Current.callee
        BY <1>4, <3>2, VisitFacts, NewItem
      <4> HIDE DEF item
      <4>2. \A i \in DOMAIN frontier' : \/ i \in DOMAIN frontier /\ frontier'[i] = frontier[i]
                                        \/ frontier'[i] = item
        BY <4>1, AppendFacts
      <4> QED BY <2>1, <4>1, <4>2 DEF OnlyReached
    <3> QED BY <3>1, <3>2
  <2> QED BY <1>1, <2>2, <2>3, <2>4 DEF OnlyReached
<1> QED BY <1>2, <1>3, <1>4 DEF Next, Visit

LEMMA CommonShrinks ==
    ASSUME NEW q, NEW m \in Nat, NEW n \in Nat, m <= n
    PROVE  Common(q, n) \subseteq Common(q, m)
<1>1. 0..m \subseteq 0..n
  OBVIOUS
<1> QED BY <1>1 DEF Common

\* What all chains pass to a callee, this site passes too when its program holds
\* what all chains to it agree on.
LEMMA PassedIsCommon ==
    ASSUME TypeOK, Walking, OnlyReached, NoPinGivenUp
    PROVE  Common(Current.callee, walk.depth + 1) \subseteq Passed
<1> DEFINE n == walk.depth
           q == walk.prog
           site == Current
<1>1. /\ n \in Nat /\ q \in Program /\ walk.next \in DOMAIN Sites(q)
      /\ site = Sites(q)[walk.next] /\ Passed = ConstArgs(site, walk.pins)
      /\ site \in Site
  BY QueueFacts, CurrentFacts, NetFacts
<1>2. ASSUME NEW d \in 0..n, NEW x \in Arrivals[d], x[1] = q
      PROVE  <<site.callee, ConstArgs(site, x[2])>> \in Arrivals[d + 1]
             /\ d + 1 \in 0..(n + 1)
  <2>1. d \in Nat /\ d + 1 \in 0..(n + 1)
    BY <1>1
  <2> QED BY <1>1, <1>2, <2>1, OneMoreCall
<1>3. PICK y \in Arrivals[n] : y[1] = q
  BY DEF OnlyReached
<1>4. n \in 0..n
  BY <1>1
<1> SUFFICES ASSUME NEW p \in Common(site.callee, n + 1)
             PROVE  p \in ConstArgs(site, walk.pins)
  BY <1>1
<1>5. ASSUME NEW d \in 0..n, NEW x \in Arrivals[d], x[1] = q
      PROVE  p \in ConstArgs(site, x[2])
  <2>1. <<site.callee, ConstArgs(site, x[2])>> \in Arrivals[d + 1] /\ d + 1 \in 0..(n + 1)
    BY <1>2, <1>5
  <2> DEFINE z == <<site.callee, ConstArgs(site, x[2])>>
  <2>2. z[1] = site.callee /\ z[2] = ConstArgs(site, x[2])
    OBVIOUS
  <2>3. p \in z[2]
    <3> HIDE DEF z, site, n
    <3> QED BY <2>1, <2>2 DEF Common, z
  <2> QED BY <2>2, <2>3
<1> DEFINE arg == site.args[p[1]]
<1> HIDE DEF site
<1>6. p \in ConstArgs(site, y[2])
  <2> HIDE DEF n, q
  <2> QED BY <1>3, <1>4, <1>5
<1>7. /\ p \in Pin
      /\ \/ arg.kind = "const" /\ arg.value = p[2]
         \/ arg.kind = "forward" /\ <<arg.index, p[2]>> \in y[2]
  BY <1>6 DEF ConstArgs
<1>8. CASE arg.kind = "const" /\ arg.value = p[2]
  BY <1>7, <1>8 DEF ConstArgs
<1>9. CASE arg.kind = "forward"
  <2> DEFINE r == <<arg.index, p[2]>>
  <2>1. \A d \in 0..n : \A x \in Arrivals[d] : x[1] = q => r \in x[2]
    <3> HIDE DEF n, q
    <3>1. \A P : p \in ConstArgs(site, P) => r \in P
      BY <1>9 DEF ConstArgs
    <3> HIDE DEF r
    <3> QED BY <1>5, <3>1
  <2>2. r \in Pin
    <3>1. y[2] \subseteq Pin
      BY <1>1, <1>3, ArrivalFacts
    <3>2. r \in y[2]
      BY <1>7, <1>9
    <3> QED BY <3>1, <3>2
  <2>3. r \in Common(q, n)
    <3> HIDE DEF r
    <3> QED BY <2>1, <2>2 DEF Common
  <2>4. r \in walk.pins
    BY <2>3 DEF NoPinGivenUp
  <2> QED BY <1>7, <1>9, <2>4 DEF ConstArgs
<1> QED BY <1>7, <1>8, <1>9

LEMMA PinsStep ==
    ASSUME TypeOK, QueueSorted, OnlyReached, NoPinGivenUp, Next
    PROVE  NoPinGivenUp'
<1> USE MaxDepthIsNat
<1>1. \A q, n : (Common(q, n))' = Common(q, n)
  BY NextKeepsNet, SameNet
<1>2. CASE DropTooDeep
  <2>1. /\ \A i \in DOMAIN frontier' :
               i + 1 \in DOMAIN frontier /\ frontier'[i] = frontier[i + 1]
        /\ walk' = walk /\ callees' = callees /\ merged' = merged
    BY <1>2, DropFacts, TailFacts
  <2> QED BY <1>1, <2>1 DEF NoPinGivenUp
<1>3. CASE StartWalk
  <2>1. /\ \A i \in DOMAIN frontier' :
               i + 1 \in DOMAIN frontier /\ frontier'[i] = frontier[i + 1]
        /\ 1 \in DOMAIN frontier
        /\ walk'.prog = frontier[1].prog /\ walk'.depth = frontier[1].depth
        /\ walk'.pins = frontier[1].pins
        /\ callees' = callees /\ merged' = merged
    BY <1>3, StartFacts, TailFacts
  <2>2. walk.depth <= walk'.depth /\ walk.depth \in Nat /\ walk'.depth \in Nat
    BY <2>1, QueueFacts DEF QueueSorted
  <2>3. \A a : Common(a, walk'.depth + 1) \subseteq Common(a, walk.depth + 1)
    <3>1. walk.depth + 1 \in Nat /\ walk'.depth + 1 \in Nat /\ walk.depth + 1 <= walk'.depth + 1
      BY <2>2
    <3> QED BY <3>1, CommonShrinks
  <2>4. \A a \in callees' : Common(a, walk'.depth + 1) \subseteq merged'[a]
    BY <2>1, <2>3 DEF NoPinGivenUp
  <2>5. \A i \in DOMAIN frontier' :
            Common(frontier'[i].prog, frontier'[i].depth) \subseteq frontier'[i].pins
    BY <2>1 DEF NoPinGivenUp
  <2>6. Common(walk'.prog, walk'.depth) \subseteq walk'.pins
    BY <2>1 DEF NoPinGivenUp
  <2> QED BY <1>1, <2>4, <2>5, <2>6 DEF NoPinGivenUp
<1>4. CASE Visit
  <2>1. Common(Current.callee, walk.depth + 1) \subseteq Passed
    BY <1>4, VisitFacts, PassedIsCommon
  <2>2. Common(Current.callee, walk.depth + 1) \subseteq merged'[Current.callee]
    BY <1>4, <2>1, VisitFacts DEF NoPinGivenUp
  <2>3. /\ walk'.depth = walk.depth /\ walk'.prog = walk.prog /\ walk'.pins = walk.pins
        /\ callees' = callees \union {Current.callee}
        /\ \A a \in callees : a # Current.callee => merged'[a] = merged[a]
    BY <1>4, VisitFacts, WalkAfterVisit DEF TypeOK
  <2>4. \A a \in callees' : Common(a, walk'.depth + 1) \subseteq merged'[a]
    BY <2>2, <2>3 DEF NoPinGivenUp
  <2>5. \A i \in DOMAIN frontier' :
            Common(frontier'[i].prog, frontier'[i].depth) \subseteq frontier'[i].pins
    <3>1. CASE frontier' = frontier
      BY <3>1 DEF NoPinGivenUp
    <3>2. CASE frontier' # frontier
      <4> DEFINE item == [prog |-> Current.callee, depth |-> walk.depth + 1,
                          pins |-> merged'[Current.callee]]
      <4>1. item \in Item /\ frontier' = Append(frontier, item)
            /\ Common(item.prog, item.depth) \subseteq item.pins
        BY <1>4, <2>2, <3>2, VisitFacts, NewItem
      <4> HIDE DEF item
      <4>2. \A i \in DOMAIN frontier' : \/ i \in DOMAIN frontier /\ frontier'[i] = frontier[i]
                                        \/ frontier'[i] = item
        BY <4>1, AppendFacts
      <4> QED BY <4>1, <4>2 DEF NoPinGivenUp
    <3> QED BY <3>1, <3>2
  <2>6. Common(walk'.prog, walk'.depth) \subseteq walk'.pins
    BY <2>3 DEF NoPinGivenUp
  <2> QED BY <1>1, <2>4, <2>5, <2>6 DEF NoPinGivenUp
<1> QED BY <1>2, <1>3, <1>4 DEF Next, Visit

-----------------------------------------------------------------------------
(* What is walked stays walked, and what is queued gets walked.            *)

LEMMA HandledStays ==
    ASSUME TypeOK, QueueSorted, Next,
           NEW q \in Program, NEW P, NEW k \in DOMAIN Sites(q), Handled(q, P, k)
    PROVE  Handled(q, P, k)'
<1> DEFINE c == Sites(q)[k].callee
<1>1. net' = net /\ (Sites(q))' = Sites(q) /\ c \in Apps
  BY NextKeepsNet, SameNet, NetFacts
<1>2. CASE DropTooDeep \/ StartWalk
  <2>1. UNCHANGED <<callees, merged, edges>>
    BY <1>2, DropFacts, StartFacts
  <2> QED BY <1>1, <2>1 DEF Handled
<1>3. CASE Visit
  <2>1. callees \subseteq callees' /\ edges \subseteq edges'
    BY <1>3, VisitFacts, EdgesAfterVisit
  <2>2. c \in callees
    BY DEF Handled
  <2>3. merged'[c] \subseteq merged[c]
    BY <1>1, <1>3, <2>2, VisitFacts
  <2> QED BY <1>1, <2>1, <2>2, <2>3 DEF Handled
<1> QED BY <1>2, <1>3 DEF Next, Visit

LEMMA WalkedStays ==
    ASSUME TypeOK, QueueSorted, Next, NEW q \in Program, NEW P, Walked(q, P)
    PROVE  Walked(q, P)'
<1>1. (Sites(q))' = Sites(q)
  BY NextKeepsNet, SameNet
<1>2. \A k \in DOMAIN Sites(q) : Handled(q, P, k)'
  BY HandledStays DEF Walked
<1> QED BY <1>1, <1>2 DEF Walked

\* A visit handles its site.
LEMMA VisitHandles ==
    ASSUME TypeOK, QueueSorted, Visit, NEW q, NEW P, NEW k,
           q = walk.prog, P = walk.pins, k = walk.next
    PROVE  Handled(q, P, k)'
<1>1. (Sites(q))' = Sites(q) /\ Walking
  BY VisitFacts, SameNet
<1>2. Current = Sites(q)[k] /\ Passed = ConstArgs(Sites(q)[k], P)
  BY <1>1, CurrentFacts
<1>3. Current.callee \in callees' /\ merged'[Current.callee] \subseteq Passed
  BY VisitFacts
<1>4. \E e \in edges' : e.caller = q /\ e.site = k
  BY VisitFacts, EdgesAfterVisit
<1> QED BY <1>1, <1>2, <1>3, <1>4 DEF Handled

LEMMA VisitedStep ==
    ASSUME TypeOK, QueueSorted, VisitedHandled, Next
    PROVE  VisitedHandled'
<1>1. CASE DropTooDeep
  <2>1. ~ Walking'
    BY <1>1, DropFacts DEF Walking, Sites
  <2> QED BY <2>1 DEF VisitedHandled
<1>2. CASE StartWalk
  <2>1. walk'.next = 1
    BY <1>2, StartFacts
  <2> QED BY <2>1 DEF VisitedHandled
<1>3. CASE Visit
  <2>1. /\ walk'.prog = walk.prog /\ walk'.pins = walk.pins /\ walk'.next = walk.next + 1
        /\ Walking /\ walk.next \in Nat \ {0} /\ walk.next \in DOMAIN Sites(walk.prog)
        /\ DOMAIN Sites(walk.prog) = 1..Len(Sites(walk.prog))
        /\ Len(Sites(walk.prog)) \in Nat /\ walk.prog \in Program
    BY <1>3, VisitFacts, WalkAfterVisit, CurrentFacts, NetFacts, QueueFacts
  <2>2. PICK q, P, n : q = walk.prog /\ P = walk.pins /\ n = walk.next
    OBVIOUS
  <2>3. ASSUME NEW k \in 1..n PROVE Handled(q, P, k)'
    <3>1. CASE k = n
      BY <1>3, <2>2, <3>1, VisitHandles
    <3>2. CASE k # n
      <4>1. k \in 1..(walk.next - 1) /\ k \in DOMAIN Sites(q)
        BY <2>1, <2>2, <3>2
      <4>2. Handled(q, P, k)
        BY <2>1, <2>2, <4>1 DEF VisitedHandled
      <4> QED BY <2>1, <2>2, <4>1, <4>2, HandledStays
    <3> QED BY <3>1, <3>2
  <2>4. q = walk'.prog /\ P = walk'.pins /\ n = walk'.next - 1
    BY <2>1, <2>2
  <2> QED BY <2>3, <2>4 DEF VisitedHandled
<1> QED BY <1>1, <1>2, <1>3 DEF Next, Visit

LEMMA CoveredAfterStart ==
    ASSUME TypeOK, QueueSorted, StartWalk,
           NEW q \in Program, NEW P, NEW n, Covered(q, P, n)
    PROVE  Covered(q, P, n)'
<1>1. Next /\ (Sites(q))' = Sites(q)
  BY NextKeepsNet, SameNet DEF Next
<1>2. CASE Walked(q, P)
  BY <1>1, <1>2, WalkedStays DEF Covered
<1>3. CASE Walking /\ IsFor(walk, q, P, n)
  BY <1>3, StartFacts
<1>4. ASSUME NEW i \in DOMAIN frontier, IsFor(frontier[i], q, P, n)
      PROVE  Covered(q, P, n)'
  <2>1. CASE i = 1
    <3>1. IsFor(walk', q, P, n) /\ walk'.next = 1 /\ walk'.prog = q
      BY <1>4, <2>1, StartFacts DEF IsFor
    <3>2. CASE Walking'
      BY <3>1, <3>2 DEF Covered, IsFor
    <3>3. CASE ~ Walking'
      <4>1. 1 \notin 1..Len(Sites(q)) /\ DOMAIN Sites(q) = 1..Len(Sites(q)) /\ Len(Sites(q)) \in Nat
        BY <1>1, <3>1, <3>3, NetFacts DEF Walking
      <4>2. DOMAIN Sites(q) = {}
        BY <4>1
      <4>3. Walked(q, P)'
        BY <1>1, <4>2 DEF Walked
      <4> QED BY <4>3 DEF Covered
    <3> QED BY <3>2, <3>3
  <2>2. CASE i # 1
    <3>1. i - 1 \in DOMAIN frontier' /\ frontier'[i - 1] = frontier[i]
      BY <2>2, StartFacts, TailFacts
    <3>2. \E j \in DOMAIN frontier' : IsFor(frontier'[j], q, P, n)
      BY <1>4, <3>1
    <3> QED BY <3>2 DEF Covered, IsFor
  <2> QED BY <2>1, <2>2
<1> QED BY <1>2, <1>3, <1>4 DEF Covered

LEMMA CoveredAfterDrop ==
    ASSUME TypeOK, QueueSorted, DropTooDeep,
           NEW q \in Program, NEW P, NEW n \in Nat, n < MaxDepth, Covered(q, P, n)
    PROVE  Covered(q, P, n)'
<1>1. Next
  BY DEF Next
<1>2. CASE Walked(q, P)
  BY <1>1, <1>2, WalkedStays DEF Covered
<1>3. CASE Walking /\ IsFor(walk, q, P, n)
  BY <1>3, DropFacts
<1>4. ASSUME NEW i \in DOMAIN frontier, IsFor(frontier[i], q, P, n)
      PROVE  Covered(q, P, n)'
  <2>1. i # 1
    <3>1. frontier[1].depth = MaxDepth
      BY DropFacts
    <3> QED BY <1>4, <3>1, MaxDepthIsNat DEF IsFor
  <2>2. i - 1 \in DOMAIN frontier' /\ frontier'[i - 1] = frontier[i]
    BY <2>1, DropFacts, TailFacts
  <2>3. \E j \in DOMAIN frontier' : IsFor(frontier'[j], q, P, n)
    BY <1>4, <2>2
  <2> QED BY <2>3 DEF Covered, IsFor
<1> QED BY <1>2, <1>3, <1>4 DEF Covered

LEMMA CoveredAfterVisit ==
    ASSUME TypeOK, QueueSorted, VisitedHandled, Visit,
           NEW q \in Program, NEW P, NEW n, Covered(q, P, n)
    PROVE  Covered(q, P, n)'
<1>1. Next /\ (Sites(q))' = Sites(q)
  BY NextKeepsNet, SameNet DEF Next, Visit
<1>2. CASE Walked(q, P)
  BY <1>1, <1>2, WalkedStays DEF Covered
<1>3. CASE Walking /\ IsFor(walk, q, P, n)
  <2>1. /\ walk'.prog = q /\ walk'.pins = P /\ walk'.depth <= n
        /\ walk'.next = walk.next + 1 /\ walk.next \in DOMAIN Sites(q) /\ walk.next \in Nat
        /\ DOMAIN Sites(q) = 1..Len(Sites(q)) /\ Len(Sites(q)) \in Nat
    BY <1>3, VisitFacts, WalkAfterVisit, CurrentFacts, NetFacts DEF IsFor
  <2>2. CASE Walking'
    BY <2>1, <2>2 DEF Covered, IsFor
  <2>3. CASE ~ Walking'
    <3>1. walk'.next \notin 1..Len(Sites(q))
      BY <1>1, <2>1, <2>3 DEF Walking
    <3>2. walk.next = Len(Sites(q))
      BY <2>1, <3>1
    <3>3. ASSUME NEW k \in DOMAIN Sites(q) PROVE Handled(q, P, k)'
      <4>1. CASE k = walk.next
        BY <1>3, <4>1, VisitHandles DEF IsFor
      <4>2. CASE k # walk.next
        <5>1. k \in 1..(walk.next - 1)
          BY <2>1, <3>2, <4>2
        <5>2. Handled(q, P, k)
          BY <1>3, <5>1 DEF VisitedHandled, IsFor
        <5> QED BY <1>1, <5>2, HandledStays
      <4> QED BY <4>1, <4>2
    <3>4. Walked(q, P)'
      BY <1>1, <3>3 DEF Walked
    <3> QED BY <3>4 DEF Covered
  <2> QED BY <2>2, <2>3
<1>4. ASSUME NEW i \in DOMAIN frontier, IsFor(frontier[i], q, P, n)
      PROVE  Covered(q, P, n)'
  <2>1. i \in DOMAIN frontier' /\ frontier'[i] = frontier[i]
    <3>1. CASE frontier' = frontier
      BY <3>1
    <3>2. CASE frontier' # frontier
      BY <3>2, VisitFacts, NewItem, AppendFacts
    <3> QED BY <3>1, <3>2
  <2>2. \E j \in DOMAIN frontier' : IsFor(frontier'[j], q, P, n)
    BY <1>4, <2>1
  <2> QED BY <2>2 DEF Covered, IsFor
<1> QED BY <1>2, <1>3, <1>4 DEF Covered

-----------------------------------------------------------------------------
(* The level.                                                              *)

LEMMA LevelFacts ==
    TypeOK /\ QueueSorted =>
        /\ Level \in Nat
        /\ walk.depth <= Level /\ Level <= walk.depth + 1
        /\ \A i \in DOMAIN frontier : ~ Walking => Level <= frontier[i].depth
        /\ Walking => Level = walk.depth /\ walk.depth < MaxDepth
<1> SUFFICES ASSUME TypeOK, QueueSorted
             PROVE  /\ Level \in Nat
                    /\ walk.depth <= Level /\ Level <= walk.depth + 1
                    /\ \A i \in DOMAIN frontier : ~ Walking => Level <= frontier[i].depth
                    /\ Walking => Level = walk.depth /\ walk.depth < MaxDepth
  OBVIOUS
<1>1. /\ walk.depth \in Nat /\ Len(frontier) \in Nat /\ DOMAIN frontier = 1..Len(frontier)
      /\ \A i \in DOMAIN frontier : frontier[i].depth \in Nat
      /\ frontier \in Seq(Item)
  BY QueueFacts
<1>2. CASE Walking
  BY <1>1, <1>2 DEF Level, QueueSorted
<1>3. CASE ~ Walking /\ frontier # <<>>
  <2>1. Head(frontier) = frontier[1] /\ 1 \in DOMAIN frontier
    <3> HIDE DEF Item
    <3> QED BY <1>1, <1>3
  <2>2. Level = frontier[1].depth
    BY <1>3, <2>1 DEF Level
  <2>3. \A i \in DOMAIN frontier : frontier[1].depth <= frontier[i].depth
    BY <1>1, <2>1 DEF QueueSorted
  <2> QED BY <1>1, <1>3, <2>1, <2>2, <2>3 DEF QueueSorted
<1>4. CASE ~ Walking /\ frontier = <<>>
  <2>1. Level = walk.depth + 1 /\ DOMAIN frontier = {}
    BY <1>4 DEF Level
  <2> QED BY <1>1, <1>4, <2>1
<1> QED BY <1>2, <1>3, <1>4

\* A step leaves the level or goes on to the next.  It does that when nothing is being
\* walked, and the depth last walked is the one that is left, or no depth is.
LEMMA LevelStep ==
    ASSUME TypeOK, QueueSorted, TypeOK', QueueSorted', Next
    PROVE  /\ Level \in Nat /\ Level' \in Nat
           /\ Level' = Level \/ (Level' = Level + 1 /\ ~ Walking')
           /\ Level' = Level + 1 => Level >= MaxDepth \/ walk'.depth = Level
           /\ DropTooDeep => Level = MaxDepth
<1> USE MaxDepthIsNat
<1>1. /\ Level \in Nat
      /\ walk.depth <= Level /\ Level <= walk.depth + 1
      /\ Walking => Level = walk.depth /\ walk.depth < MaxDepth
  BY LevelFacts
<1>2. /\ Level' \in Nat
      /\ walk'.depth <= Level' /\ Level' <= walk'.depth + 1
      /\ Walking' => Level' = walk'.depth
  <2>1. (TypeOK /\ QueueSorted =>
           /\ Level \in Nat
           /\ walk.depth <= Level /\ Level <= walk.depth + 1
           /\ \A i \in DOMAIN frontier : ~ Walking => Level <= frontier[i].depth
           /\ Walking => Level = walk.depth /\ walk.depth < MaxDepth)'
    BY LevelFacts, PTL
  <2> QED BY <2>1
<1>3. walk.depth \in Nat
  BY QueueFacts
<1>4. CASE DropTooDeep
  <2>1. /\ ~ Walking /\ frontier # <<>> /\ Head(frontier).depth = MaxDepth
        /\ walk' = walk /\ net' = net /\ frontier' = Tail(frontier)
    BY <1>4, DropFacts
  <2>2. Level = MaxDepth /\ ~ Walking'
    BY <2>1 DEF Level, Walking, Sites
  <2>3. Level <= Level'
    <3>1. CASE frontier' = <<>>
      <4>1. Level' = walk.depth + 1
        BY <2>1, <2>2, <3>1 DEF Level
      <4> QED BY <1>1, <1>3, <4>1
    <3>2. CASE frontier' # <<>>
      <4>1. Head(frontier') = frontier'[1] /\ 1 \in DOMAIN frontier'
        <5>1. frontier' \in Seq(Item)
          BY <2>1, TailFacts
        <5> HIDE DEF Item
        <5> QED BY <3>2, <5>1
      <4>2. 2 \in DOMAIN frontier /\ frontier'[1] = frontier[2]
        BY <2>1, <4>1, TailFacts
      <4>3. Level' = frontier[2].depth
        BY <2>2, <3>2, <4>1, <4>2 DEF Level
      <4> QED BY <2>1, <4>2, <4>3, LevelFacts
    <3> QED BY <3>1, <3>2
  <2> QED BY <1>1, <1>2, <1>3, <2>1, <2>2, <2>3
<1>5. CASE StartWalk
  <2>1. ~ Walking /\ frontier # <<>> /\ walk'.depth = Head(frontier).depth
    BY <1>5, StartFacts
  <2>2. Level = walk'.depth
    BY <2>1 DEF Level
  <2>3. ~ DropTooDeep
    <3>1. Head(frontier).depth < MaxDepth /\ Head(frontier).depth \in Nat
      BY <1>1, <1>5, <2>1, <2>2, StartFacts
    <3> QED BY <3>1 DEF DropTooDeep
  <2> QED BY <1>1, <1>2, <2>2, <2>3
<1>6. CASE Visit
  <2>1. walk'.depth = walk.depth /\ Walking
    BY <1>6, VisitFacts, WalkAfterVisit
  <2> QED BY <1>1, <1>2, <1>3, <2>1 DEF DropTooDeep
<1> QED BY <1>4, <1>5, <1>6 DEF Next, Visit

\* What was to be walked at a depth the walk has left, was walked.
LEMMA LeftIsWalked ==
    TypeOK /\ QueueSorted =>
        \A q, P : \A m \in Nat : m < Level /\ Covered(q, P, m) => Walked(q, P)
<1> SUFFICES ASSUME TypeOK, QueueSorted, NEW q, NEW P, NEW n \in Nat,
                    n < Level, Covered(q, P, n)
             PROVE  Walked(q, P)
  OBVIOUS
<1>1. ~ (Walking /\ IsFor(walk, q, P, n))
  BY LevelFacts, QueueFacts DEF IsFor
<1>2. ASSUME NEW i \in DOMAIN frontier PROVE ~ IsFor(frontier[i], q, P, n)
  <2>1. frontier[i].depth \in Nat /\ walk.depth \in Nat
    BY QueueFacts
  <2>2. CASE Walking
    <3>1. Level = walk.depth /\ walk.depth <= frontier[i].depth
      BY <2>2, LevelFacts DEF QueueSorted
    <3> QED BY <2>1, <3>1 DEF IsFor
  <2>3. CASE ~ Walking
    <3>1. Level <= frontier[i].depth /\ Level \in Nat
      BY <2>3, LevelFacts
    <3> QED BY <2>1, <3>1 DEF IsFor
  <2> QED BY <2>2, <2>3
<1> QED BY <1>1, <1>2 DEF Covered

\* One more call, once the programs of all chains of n calls have been walked.
LEMMA WalkedReachesFurther ==
    TypeOK =>
        \A m \in Nat :
            (\A x \in Arrivals[m] : \E P \in SUBSET Pin : P \subseteq x[2] /\ Walked(x[1], P))
                => Reaches(m + 1)
<1> SUFFICES ASSUME TypeOK, NEW n \in Nat,
                    \A x \in Arrivals[n] :
                        \E P \in SUBSET Pin : P \subseteq x[2] /\ Walked(x[1], P),
                    NEW y \in Arrivals[n + 1]
             PROVE  y[1] \in callees \union {Root} /\ Pins(y[1]) \subseteq y[2]
  BY DEF Reaches
<1>1. PICK x \in Arrivals[n] : \E k \in DOMAIN Sites(x[1]) :
                  /\ y[1] = Sites(x[1])[k].callee
                  /\ y[2] = ConstArgs(Sites(x[1])[k], x[2])
  BY OneMoreCall
<1>2. PICK k \in DOMAIN Sites(x[1]) :
                  /\ y[1] = Sites(x[1])[k].callee
                  /\ y[2] = ConstArgs(Sites(x[1])[k], x[2])
  BY <1>1
<1>3. PICK P \in SUBSET Pin : P \subseteq x[2] /\ Walked(x[1], P)
  OBVIOUS
<1>4. y[1] \in callees /\ merged[y[1]] \subseteq ConstArgs(Sites(x[1])[k], P)
  BY <1>2, <1>3 DEF Walked, Handled
<1>5. ConstArgs(Sites(x[1])[k], P) \subseteq y[2]
  BY <1>2, <1>3, ConstArgsMonotone
<1>6. y[1] # Root
  BY <1>4, RootHasNoAppId DEF TypeOK
<1> QED BY <1>4, <1>5, <1>6 DEF Pins

\* The two lemmas of the state a step leads to.
LEMMA LeftIsWalkedThen ==
    (TypeOK /\ QueueSorted =>
        \A q, P : \A m \in Nat : m < Level /\ Covered(q, P, m) => Walked(q, P))'
BY LeftIsWalked, PTL

LEMMA WalkedReachesFurtherThen ==
    (TypeOK =>
        \A m \in Nat :
            (\A x \in Arrivals[m] : \E P \in SUBSET Pin : P \subseteq x[2] /\ Walked(x[1], P))
                => Reaches(m + 1))'
BY WalkedReachesFurther, PTL

\* Pins are only ever given up.
LEMMA PinsShrink ==
    ASSUME TypeOK, QueueSorted, Next, NEW q \in callees \union {Root}
    PROVE  q \in callees' \union {Root} /\ Pins(q)' \subseteq Pins(q)
<1>1. CASE DropTooDeep \/ StartWalk
  BY <1>1, DropFacts, StartFacts DEF Pins
<1>2. CASE Visit
  BY <1>2, VisitFacts DEF Pins, TypeOK
<1> QED BY <1>1, <1>2 DEF Next, Visit

LEMMA CoveredStays ==
    ASSUME TypeOK, QueueSorted, VisitedHandled, Next,
           NEW q \in Program, NEW P, NEW n \in Nat, Covered(q, P, n),
           n < MaxDepth \/ ~ DropTooDeep
    PROVE  Covered(q, P, n)'
BY CoveredAfterDrop, CoveredAfterStart, CoveredAfterVisit DEF Next, Visit

-----------------------------------------------------------------------------
(* The chains, level by level.                                             *)

LEMMA ReachesStays ==
    ASSUME TypeOK, QueueSorted, Next, NEW n \in Nat, Reaches(n)
    PROVE  Reaches(n)'
<1>1. Arrivals' = Arrivals
  BY NextKeepsNet, SameNet
<1>2. ASSUME NEW x \in Arrivals[n]
      PROVE  x[1] \in callees' \union {Root} /\ Pins(x[1])' \subseteq x[2]
  <2>1. x[1] \in callees \union {Root} /\ Pins(x[1]) \subseteq x[2]
    BY DEF Reaches
  <2> QED BY <2>1, PinsShrink
<1> QED BY <1>1, <1>2 DEF Reaches

LEMMA FollowsStays ==
    ASSUME TypeOK, QueueSorted, VisitedHandled, Next, NEW n \in Nat, n < MaxDepth, Follows(n)
    PROVE  Follows(n)'
<1>1. Arrivals' = Arrivals
  BY NextKeepsNet, SameNet
<1>2. ASSUME NEW x \in Arrivals[n]
      PROVE  \E P \in SUBSET Pin : P \subseteq x[2] /\ Covered(x[1], P, n)'
  <2>1. PICK P \in SUBSET Pin : P \subseteq x[2] /\ Covered(x[1], P, n)
    BY DEF Follows
  <2>2. x[1] \in Program
    BY ArrivalFacts
  <2>3. Covered(x[1], P, n)'
    BY <2>1, <2>2, CoveredStays
  <2> QED BY <2>1, <2>3
<1> QED BY <1>1, <1>2 DEF Follows

LEMMA NotTooManyStep ==
    ASSUME TypeOK, QueueSorted, VisitedHandled, NoPinTooMany, Followed, Next,
           TypeOK', QueueSorted'
    PROVE  NoPinTooMany'
<1> SUFFICES ASSUME NEW n \in 0..MaxDepth, n <= Level' PROVE Reaches(n)'
  BY DEF NoPinTooMany
<1>1. /\ Level \in Nat /\ Level' \in Nat /\ MaxDepth \in Nat /\ n \in Nat
      /\ Level' = Level \/ Level' = Level + 1
  BY LevelStep, MaxDepthIsNat
<1>2. CASE n <= Level
  BY <1>1, <1>2, ReachesStays DEF NoPinTooMany
<1>3. CASE ~ (n <= Level)
  <2>1. Level < Level' /\ n = Level + 1 /\ Level < MaxDepth /\ Level \in 0..MaxDepth
    BY <1>1, <1>3
  <2>2. PICK l \in Nat : l = Level
    BY <1>1
  <2>3. Follows(l)'
    BY <1>1, <2>1, <2>2, FollowsStays DEF Followed
  <2>5. \A q, P : Covered(q, P, l)' => Walked(q, P)'
    BY <2>1, <2>2, LeftIsWalkedThen
  <2>6. \A x \in Arrivals'[l] : \E P \in SUBSET Pin : P \subseteq x[2] /\ Walked(x[1], P)'
    BY <2>3, <2>5 DEF Follows
  <2>8. Reaches(l + 1)'
    BY <2>6, WalkedReachesFurtherThen
  <2> QED BY <2>1, <2>2, <2>8
<1> QED BY <1>2, <1>3

LEMMA LatestStep ==
    ASSUME TypeOK, QueueSorted, VisitedHandled, LatestCovered, Next, TypeOK', QueueSorted'
    PROVE  LatestCovered'
<1> SUFFICES ASSUME Level' < MaxDepth, NEW q \in callees' \union {Root}
             PROVE  \E P : P = Pins(q)' /\ Covered(q, P, MaxDepth)'
  BY DEF LatestCovered
<1>1. Level < MaxDepth /\ ~ DropTooDeep /\ MaxDepth \in Nat
  BY LevelStep, MaxDepthIsNat
<1>2. callees \subseteq Program /\ Root \in Program
  BY DEF TypeOK, Program
<1>3. ASSUME q \in callees \union {Root}, Pins(q)' = Pins(q)
      PROVE  \E P : P = Pins(q)' /\ Covered(q, P, MaxDepth)'
  <2>1. PICK P : P = Pins(q)
    OBVIOUS
  <2>2. Covered(q, P, MaxDepth)
    BY <1>1, <1>3, <2>1 DEF LatestCovered
  <2>3. Covered(q, P, MaxDepth)'
    BY <1>1, <1>2, <1>3, <2>2, CoveredStays
  <2> QED BY <1>3, <2>1, <2>3
<1>4. CASE StartWalk
  BY <1>3, <1>4, StartFacts DEF Pins
<1>5. CASE Visit
  <2>1. Current.callee \in Apps /\ Current.callee # Root
    BY <1>5, VisitFacts, CurrentFacts, RootHasNoAppId
  <2>2. CASE q # Current.callee \/ frontier' = frontier
    <3>1. CASE q # Current.callee
      <4>1. q \in callees \union {Root} /\ Pins(q)' = Pins(q)
        BY <1>5, <3>1, VisitFacts DEF Pins, TypeOK
      <4> QED BY <1>3, <4>1
    <3>2. CASE q = Current.callee /\ frontier' = frontier
      <4>1. merged' = merged /\ Current.callee \in callees
        <5>1. ASSUME NEW item, frontier' = Append(frontier, item) PROVE FALSE
          <6>1. Len(frontier) \in Nat /\ frontier \in Seq(Item)
            BY QueueFacts
          <6>2. Len(Append(frontier, item)) = Len(frontier) + 1
            <7> HIDE DEF Item
            <7> QED BY <6>1
          <6> QED BY <3>2, <5>1, <6>1, <6>2
        <5> QED BY <1>5, <5>1, VisitFacts
      <4> QED BY <1>3, <3>2, <4>1 DEF Pins
    <3> QED BY <2>2, <3>1, <3>2
  <2>3. CASE q = Current.callee /\ frontier' # frontier
    <3> DEFINE item == [prog |-> Current.callee, depth |-> walk.depth + 1,
                        pins |-> merged'[Current.callee]]
    <3>1. item \in Item /\ frontier' = Append(frontier, item)
          /\ item.prog = q /\ item.pins = Pins(q)'
      BY <1>5, <2>1, <2>3, VisitFacts, NewItem DEF Pins
    <3>2. item.depth <= MaxDepth
      BY <3>1, MaxDepthIsNat DEF Item
    <3> HIDE DEF item
    <3>3. \E i \in DOMAIN frontier' : frontier'[i] = item
      BY <3>1, AppendFacts
    <3>4. PICK P : P = Pins(q)'
      OBVIOUS
    <3>5. \E i \in DOMAIN frontier' : IsFor(frontier'[i], q, P, MaxDepth)
      BY <3>1, <3>2, <3>3, <3>4 DEF IsFor
    <3>6. Covered(q, P, MaxDepth)'
      BY <3>5 DEF Covered, IsFor
    <3> QED BY <3>4, <3>6
  <2> QED BY <2>2, <2>3
<1> QED BY <1>1, <1>4, <1>5 DEF Next, Visit

LEMMA FollowedStep ==
    ASSUME TypeOK, QueueSorted, VisitedHandled, Followed, Next,
           TypeOK', QueueSorted', NoPinTooMany', LatestCovered'
    PROVE  Followed'
<1> SUFFICES ASSUME NEW n \in 0..MaxDepth, n <= Level', n < MaxDepth PROVE Follows(n)'
  BY DEF Followed
<1>1. /\ Level \in Nat /\ Level' \in Nat /\ MaxDepth \in Nat /\ n \in Nat
      /\ Level' = Level \/ (Level' = Level + 1 /\ ~ Walking')
      /\ Level' = Level + 1 => Level >= MaxDepth \/ walk'.depth = Level
  BY LevelStep, MaxDepthIsNat
<1>2. CASE n <= Level
  BY <1>1, <1>2, FollowsStays DEF Followed
<1>3. CASE ~ (n <= Level)
  <2>1. n = Level' /\ n < MaxDepth /\ ~ Walking' /\ n = walk'.depth + 1
    BY <1>1, <1>3
  <2>2. ASSUME NEW x \in Arrivals'[n]
        PROVE  \E P \in SUBSET Pin : P \subseteq x[2] /\ Covered(x[1], P, n)'
    <3>1. PICK P : P = Pins(x[1])'
      OBVIOUS
    <3>2. x[1] \in callees' \union {Root} /\ P \subseteq x[2]
      BY <2>1, <2>2, <3>1 DEF NoPinTooMany, Reaches
    <3>3. P \in SUBSET Pin
      BY <3>1, <3>2 DEF Pins, TypeOK
    <3>4. Covered(x[1], P, MaxDepth)'
      BY <2>1, <3>1, <3>2 DEF LatestCovered
    <3>5. \A i \in DOMAIN frontier' : frontier'[i].depth <= n
      BY <2>1 DEF QueueSorted
    <3>6. Covered(x[1], P, n)'
      BY <2>1, <3>4, <3>5 DEF Covered, IsFor
    <3> QED BY <3>2, <3>3, <3>6
  <2> QED BY <2>2 DEF Follows
<1> QED BY <1>2, <1>3

\* A program that was met at a smaller depth had all its sites visited then.
LEMMA EdgesStep ==
    ASSUME TypeOK, QueueSorted, OnlyReached, Followed, EdgesShortest, Next
    PROVE  EdgesShortest'
<1>1. Arrivals' = Arrivals
  BY NextKeepsNet, SameNet
<1>2. CASE DropTooDeep \/ StartWalk
  <2>1. edges' = edges
    BY <1>2, DropFacts, StartFacts
  <2> QED BY <1>1, <2>1 DEF EdgesShortest
<1>3. CASE Visit
  <2>1. \A e \in edges' : \/ e \in edges
                         \/ /\ e.caller = walk.prog /\ e.site = walk.next
                            /\ e.depth = walk.depth
                            /\ \A f \in edges : f.caller # walk.prog \/ f.site # walk.next
    BY <1>3, VisitFacts, EdgesAfterVisit
  <2>2. \E x \in Arrivals[walk.depth] : x[1] = walk.prog
    BY DEF OnlyReached
  <2>3. ASSUME \A f \in edges : f.caller # walk.prog \/ f.site # walk.next,
               NEW d \in 0..MaxDepth, d < walk.depth, NEW x \in Arrivals[d], x[1] = walk.prog
        PROVE  FALSE
    <3>1. Walking /\ Level = walk.depth /\ Level \in Nat /\ walk.depth < MaxDepth /\ d \in Nat
          /\ walk.next \in DOMAIN Sites(walk.prog)
      BY <1>3, VisitFacts, LevelFacts, CurrentFacts
    <3>2. d <= Level /\ d < MaxDepth /\ d < Level
      BY <2>3, <3>1, MaxDepthIsNat
    <3>3. PICK P \in SUBSET Pin : Covered(x[1], P, d)
      BY <3>2 DEF Followed, Follows
    <3>4. Walked(x[1], P)
      BY <3>1, <3>2, <3>3, LeftIsWalked
    <3> QED BY <2>3, <3>1, <3>4 DEF Walked, Handled
  <2> QED BY <1>1, <2>1, <2>2, <2>3 DEF EdgesShortest
<1> QED BY <1>2, <1>3 DEF Next, Visit

-----------------------------------------------------------------------------
(* The invariant, and what it says of a walk that has ended.               *)

LEMMA InitEstablishes == Init => IInv
<1> SUFFICES ASSUME Init PROVE IInv
  OBVIOUS
<1> USE MaxDepthIsNat
<1> DEFINE item == [prog |-> Root, depth |-> 0, pins |-> {}]
<1>1. /\ net \in Networks /\ frontier = <<item>> /\ walk = Idle /\ callees = {} /\ edges = {}
      /\ merged = [a \in Apps |-> {}] /\ analyses = [a \in Apps |-> {}]
  BY DEF Init
<1>2. /\ walk.prog = Root /\ walk.depth = 0 /\ walk.pins = {} /\ walk.next = 0
      /\ walk \in [prog : Program, depth : 0..MaxDepth, pins : SUBSET Pin, next : Nat]
  BY <1>1 DEF Idle, Program
<1>3. item \in Item /\ item.prog = Root /\ item.depth = 0 /\ item.pins = {}
  BY DEF Item, Program
<1> HIDE DEF item
<1>4. frontier \in Seq(Item) /\ DOMAIN frontier = {1} /\ frontier[1] = item /\ frontier # <<>>
      /\ Head(frontier) = item
  <2> HIDE DEF Item
  <2> QED BY <1>1, <1>3
<1>5. TypeOK /\ analyses = merged
  BY <1>1, <1>2, <1>4 DEF TypeOK, Item, Program
<1>6. ~ Walking /\ Level = 0
  BY <1>2, <1>3, <1>4 DEF Walking, Level
<1>7. /\ Arrivals[0] = {<<Root, {}>>} /\ 0 \in 0..0 /\ 0..0 = {0}
      /\ <<Root, {}>> \in Arrivals[0]
      /\ \A x \in Arrivals[0] : x[1] = Root /\ x[2] = {}
  BY <1>5, ArrivalsStep
<1>8. QueueSorted
  BY <1>1, <1>2, <1>3, <1>4, <1>6 DEF QueueSorted
<1>9. OnlyReached
  <2>1. \E x \in Arrivals[0] : x[1] = Root
    BY <1>7
  <2>2. \A i \in DOMAIN frontier : frontier[i].depth = 0 /\ frontier[i].prog = Root
    BY <1>3, <1>4
  <2>3. \A i \in DOMAIN frontier : \E x \in Arrivals[frontier[i].depth] : x[1] = frontier[i].prog
    BY <2>1, <2>2
  <2>4. \E x \in Arrivals[walk.depth] : x[1] = walk.prog
    BY <1>2, <2>1
  <2> QED BY <1>1, <2>3, <2>4 DEF OnlyReached
<1>10. NoPinGivenUp
  <2>1. Common(Root, 0) = {}
    BY <1>7 DEF Common
  <2> QED BY <1>1, <1>2, <1>3, <1>4, <2>1 DEF NoPinGivenUp
<1>11. NoPinTooMany
  <2>1. Reaches(0)
    BY <1>7 DEF Reaches, Pins
  <2> QED BY <1>6, <2>1 DEF NoPinTooMany
<1>12. LatestCovered
  <2>1. \A q \in callees \union {Root} : q = Root /\ Pins(q) = {}
    BY <1>1 DEF Pins
  <2>2. Covered(Root, {}, MaxDepth)
    BY <1>3, <1>4 DEF Covered, IsFor
  <2> QED BY <2>1, <2>2 DEF LatestCovered
<1>13. Followed
  <2>1. Covered(Root, {}, 0)
    BY <1>3, <1>4 DEF Covered, IsFor
  <2>2. Follows(0)
    BY <1>7, <2>1 DEF Follows
  <2> QED BY <1>6, <2>2 DEF Followed
<1>14. VisitedHandled /\ EdgesShortest
  BY <1>1, <1>6 DEF VisitedHandled, EdgesShortest
<1> QED BY <1>5, <1>8, <1>9, <1>10, <1>11, <1>12, <1>13, <1>14 DEF IInv

LEMMA StutterKeeps == IInv /\ UNCHANGED vars => IInv'
<1> SUFFICES ASSUME IInv, UNCHANGED vars PROVE IInv'
  OBVIOUS
<1>1. UNCHANGED <<net, frontier, walk, callees, merged, analyses, edges>>
  BY DEF vars
<1>2. Arrivals' = Arrivals /\ \A q : (Sites(q))' = Sites(q)
  BY <1>1, SameNet
<1>3. \A q, n : (Common(q, n))' = Common(q, n)
  BY <1>1, SameNet
<1>4. Walking' = Walking /\ Level' = Level
  BY <1>1 DEF Walking, Level, Sites
<1>5. \A q, P, k : Handled(q, P, k)' = Handled(q, P, k)
  BY <1>1, <1>2 DEF Handled
<1>6. \A q, P : Walked(q, P)' = Walked(q, P)
  BY <1>2, <1>5 DEF Walked
<1>7. \A q, P, n : Covered(q, P, n)' = Covered(q, P, n)
  BY <1>1, <1>4, <1>6 DEF Covered, IsFor
<1>8. \A q : Pins(q)' = Pins(q)
  BY <1>1 DEF Pins
<1>9. \A n : Reaches(n)' = Reaches(n) /\ Follows(n)' = Follows(n)
  BY <1>1, <1>2, <1>7, <1>8 DEF Reaches, Follows
<1>10. TypeOK' /\ QueueSorted' /\ OnlyReached' /\ NoPinGivenUp' /\ analyses' = merged'
  BY <1>1, <1>2, <1>3, <1>4 DEF IInv, TypeOK, QueueSorted, OnlyReached, NoPinGivenUp
<1>11. NoPinTooMany' /\ Followed'
  BY <1>4, <1>9 DEF IInv, NoPinTooMany, Followed
<1>12. LatestCovered'
  BY <1>1, <1>4, <1>7, <1>8 DEF IInv, LatestCovered
<1>13. VisitedHandled' /\ EdgesShortest'
  BY <1>1, <1>2, <1>4, <1>5 DEF IInv, VisitedHandled, EdgesShortest
<1> QED BY <1>10, <1>11, <1>12, <1>13 DEF IInv

LEMMA StepPreserves == IInv /\ [Next]_vars => IInv'
<1> SUFFICES ASSUME IInv, Next PROVE IInv'
  BY StutterKeeps
<1>1. TypeOK /\ QueueSorted /\ analyses = merged
  BY DEF IInv
<1>2. TypeOK' /\ analyses' = merged' /\ QueueSorted'
  BY <1>1, TypeStep, QueueStep
<1>3. OnlyReached' /\ NoPinGivenUp'
  BY ReachedStep, PinsStep DEF IInv
<1>4. VisitedHandled'
  BY VisitedStep DEF IInv
<1>5. NoPinTooMany' /\ LatestCovered'
  BY <1>2, NotTooManyStep, LatestStep DEF IInv
<1>6. Followed'
  BY <1>2, <1>5, FollowedStep DEF IInv
<1>7. EdgesShortest'
  BY EdgesStep DEF IInv
<1> QED BY <1>2, <1>3, <1>4, <1>5, <1>6, <1>7 DEF IInv

(* In every reachable state the walk has followed every chain of calls up to
   the depth it is at, and nothing that no chain agrees on. *)
THEOREM WalkInductive == Spec => []IInv
BY InitEstablishes, StepPreserves, PTL DEF Spec

(* Every variable of the walk keeps its type: no item is queued, and no edge
   recorded, beyond the depth bound. *)
THEOREM WalkTypeCorrect == Spec => []TypeOK
<1>1. IInv => TypeOK
  BY DEF IInv
<1> QED BY <1>1, WalkInductive, PTL

LEMMA AllChainsFollowed ==
    ASSUME IInv, Done
    PROVE  \A n \in 0..MaxDepth : Reaches(n)
<1> USE MaxDepthIsNat
<1>1. TypeOK /\ ~ Walking /\ frontier = <<>> /\ DOMAIN frontier = {} /\ Level \in Nat
  BY LevelFacts DEF IInv, Done
<1> DEFINE T == {n \in Nat : n <= MaxDepth => Reaches(n)}
<1>2. 0 \in T
  BY <1>1 DEF IInv, NoPinTooMany
<1>3. ASSUME NEW n \in Nat, n \in T PROVE n + 1 \in T
  <2> SUFFICES ASSUME n + 1 <= MaxDepth PROVE Reaches(n + 1)
    OBVIOUS
  <2>1. CASE n + 1 <= Level
    <3>1. n + 1 \in 0..MaxDepth
      OBVIOUS
    <3> QED BY <2>1, <3>1 DEF IInv, NoPinTooMany
  <2>2. CASE ~ (n + 1 <= Level)
    <3>1. Level < MaxDepth /\ n <= MaxDepth
      BY <1>1, <2>2
    <3>2. Reaches(n)
      BY <1>3, <3>1
    <3>3. \A x \in Arrivals[n] : \E P \in SUBSET Pin : P \subseteq x[2] /\ Walked(x[1], P)
      <4> TAKE x \in Arrivals[n]
      <4>1. x[1] \in callees \union {Root} /\ Pins(x[1]) \subseteq x[2]
        BY <3>2 DEF Reaches
      <4>2. Covered(x[1], Pins(x[1]), MaxDepth)
        BY <3>1, <4>1 DEF IInv, LatestCovered
      <4>3. Walked(x[1], Pins(x[1]))
        BY <1>1, <4>2 DEF Covered
      <4>4. Pins(x[1]) \in SUBSET Pin
        BY <1>1, <4>1 DEF Pins, TypeOK
      <4> QED BY <4>1, <4>3, <4>4
    <3> QED BY <1>1, <3>3, WalkedReachesFurther
  <2> QED BY <2>1, <2>2
<1>4. \A n \in Nat : n \in T
  <2> HIDE DEF T
  <2> QED BY <1>2, <1>3, NumberInduction
<1> QED BY <1>4

LEMMA EndedWalkIsTheMeet == IInv => AnalysesAreTheMeet
<1> SUFFICES ASSUME IInv, Done
             PROVE  /\ callees = {x[1] : x \in ArrivalsWithin(MaxDepth)}
                    /\ \A a \in callees : analyses[a] =
                           {p \in Pin : \A x \in ArrivalsWithin(MaxDepth) : x[1] = a => p \in x[2]}
  BY DEF AnalysesAreTheMeet
<1> USE MaxDepthIsNat
<1>1. /\ TypeOK /\ OnlyReached /\ NoPinGivenUp /\ analyses = merged
      /\ walk.depth \in Nat /\ callees \subseteq Apps
      /\ callees # {} => walk.depth < MaxDepth
  <2>1. TypeOK /\ OnlyReached /\ NoPinGivenUp /\ analyses = merged /\ QueueSorted
    BY DEF IInv
  <2>2. walk.depth \in Nat /\ callees \subseteq Apps
    BY <2>1 DEF TypeOK
  <2>3. callees # {} => walk.depth < MaxDepth
    BY <2>1 DEF QueueSorted
  <2> QED BY <2>1, <2>2, <2>3
<1>2. \A x : x \in ArrivalsWithin(MaxDepth) <=> \E d \in 1..MaxDepth : x \in Arrivals[d]
  BY DEF ArrivalsWithin
<1>3. ASSUME NEW d \in 1..MaxDepth, NEW x \in Arrivals[d]
      PROVE  x[1] \in callees /\ merged[x[1]] \subseteq x[2]
  <2>1. d \in Nat /\ d # 0 /\ d \in 0..MaxDepth
    OBVIOUS
  <2>2. x[1] \in Apps /\ x[1] # Root
    BY <1>1, <2>1, ArrivalFacts, RootHasNoAppId
  <2>3. x[1] \in callees \union {Root} /\ Pins(x[1]) \subseteq x[2]
    BY <2>1, AllChainsFollowed DEF Reaches
  <2> QED BY <2>2, <2>3 DEF Pins
<1>4. ASSUME NEW a \in callees
      PROVE  \E x \in ArrivalsWithin(MaxDepth) : x[1] = a
  <2>1. PICK d \in 1..(walk.depth + 1) : \E x \in Arrivals[d] : x[1] = a
    BY <1>1 DEF OnlyReached
  <2>2. d \in 1..MaxDepth
    BY <1>1
  <2> QED BY <1>2, <2>1, <2>2
<1>5. callees = {x[1] : x \in ArrivalsWithin(MaxDepth)}
  BY <1>2, <1>3, <1>4
<1>6. ASSUME NEW a \in callees, NEW p \in merged[a]
      PROVE  p \in Pin /\ \A x \in ArrivalsWithin(MaxDepth) : x[1] = a => p \in x[2]
  <2>1. p \in Pin
    BY <1>1 DEF TypeOK
  <2> QED BY <1>2, <1>3, <2>1
<1>7. ASSUME NEW a \in callees, NEW p \in Pin,
             \A x \in ArrivalsWithin(MaxDepth) : x[1] = a => p \in x[2]
      PROVE  p \in merged[a]
  <2>1. ASSUME NEW d \in 0..(walk.depth + 1), NEW x \in Arrivals[d], x[1] = a
        PROVE  p \in x[2]
    <3>1. d # 0
      BY <1>1, <2>1, ArrivalFacts, RootHasNoAppId DEF TypeOK
    <3>2. d \in 1..MaxDepth
      BY <1>1, <3>1
    <3> QED BY <1>2, <1>7, <2>1, <3>2
  <2>2. p \in Common(a, walk.depth + 1)
    BY <2>1 DEF Common
  <2> QED BY <1>1, <2>2 DEF NoPinGivenUp
<1>8. \A a \in callees : analyses[a] =
          {p \in Pin : \A x \in ArrivalsWithin(MaxDepth) : x[1] = a => p \in x[2]}
  BY <1>1, <1>6, <1>7
<1> QED BY <1>5, <1>8

(* XContractGraph.build analyses what some chain of at most MaxDepth calls
   reaches, and each callee under exactly the pins that all of them pass. *)
THEOREM AnalysedUnderTheMeet == Spec => []AnalysesAreTheMeet
BY EndedWalkIsTheMeet, WalkInductive, PTL

(* The depth of an edge is that of the shortest chain of calls to its caller. *)
THEOREM EdgesAtShortestDepth == Spec => []EdgeDepthIsShortest
<1>1. IInv => EdgeDepthIsShortest
  BY DEF IInv, EdgesShortest, EdgeDepthIsShortest
<1> QED BY <1>1, WalkInductive, PTL

=============================================================================
