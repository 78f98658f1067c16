-------------------------- MODULE PlanSolveProofs --------------------------
(* What TLAPS proves of PlanSolve, for any pool, fleet, places and limits. *)
EXTENDS PlanSolve, SumLemmas

LEMMA FiniteOrders ==
    ASSUME NEW S \in SUBSET Orders
    PROVE  IsFiniteSet(S) /\ Cardinality(S) \in Nat
<1>1. IsFiniteSet(Orders)
    BY CountAssumption, FS_Interval DEF Orders
<1>2. IsFiniteSet(S)
    BY <1>1, FS_Subset
<1> QED BY <1>2, FS_CardinalityType

LEMMA FiniteImage ==
    ASSUME NEW S \in SUBSET Orders, NEW f
    PROVE  /\ IsFiniteSet({f[o] : o \in S})
           /\ Cardinality({f[o] : o \in S}) \in Nat
<1> DEFINE T == {f[o] : o \in S}
           g == [o \in S |-> f[o]]
<1>1. g \in Surjection(S, T)
    BY DEF Surjection
<1>2. IsFiniteSet(T)
    BY <1>1, FiniteOrders, FS_Surjection
<1> QED BY <1>2, FS_CardinalityType

LEMMA OrderType ==
    ASSUME order \in Inputs, NEW o \in Orders
    PROVE  order[o] \in Order
BY InputsAssumption

-----------------------------------------------------------------------------
(* Trimming. *)

\* What the assignment leaves behind: no order on a vehicle that was not given
\* to the solver, and no more weight or drops on a vehicle than allowed.
Fits ==
    stage \in {"assigned", "routed", "assembled"} =>
        /\ \A o \in Orders \ Eligible : load[o] = NoVehicle
        /\ \A v \in Vehicles :
              /\ Weight(On(load, v)) <= Capacity[v]
              /\ MaxDrops >= 1 => Cardinality(DropKeys(On(load, v))) <= MaxDrops

\* What the routing leaves behind: a tour of some of the drops, of none if none
\* is allowed, and the orders of the others among the trimmed.
TourOf(v, K) ==
    /\ tour[v] \in Sequences(K)
    /\ MaxDrops < 1 => K = {}
    /\ \A o \in Orders : (\E d \in Drops(v) \ K : o \in AtDrop(v, d)) => o \in trimmed

Toured ==
    stage \in {"routed", "assembled"} =>
        /\ \A v \in Vehicles : \E K \in SUBSET Drops(v) : TourOf(v, K)
        /\ MaxDrops >= 1 => trimmed = {}

LEMMA FiniteDrops ==
    ASSUME order \in Inputs, NEW v \in Vehicles
    PROVE  /\ Drops(v) \subseteq DropKeys(On(load, v))
           /\ Drops(v) \subseteq Coordinates
           /\ IsFiniteSet(Drops(v)) /\ Cardinality(Drops(v)) \in Nat
           /\ Cardinality(Drops(v)) <= Cardinality(DropKeys(On(load, v)))
<1> DEFINE S == On(load, v)
           f == [o \in Orders |-> DropKey(o)]
<1>1. S \in SUBSET Orders
    BY DEF On, Solvable, Pool
<1>2. DropKeys(S) = {f[o] : o \in S}
    BY <1>1 DEF DropKeys
<1>3. IsFiniteSet(DropKeys(S)) /\ Cardinality(DropKeys(S)) \in Nat
    <2> HIDE DEF f, S
    <2> QED BY <1>1, <1>2, FiniteImage
<1>4. ASSUME NEW d \in Drops(v) PROVE d \in DropKeys(S) /\ d \in Coordinates
    <2>1. PICK o \in S : order[o].place = d /\ d \in Coordinates
        BY DEF Drops, Located
    <2>2. DropKey(o) = d
        BY <2>1, NowhereAssumption DEF DropKey, Coordinates
    <2> QED BY <2>1, <2>2 DEF DropKeys
<1> HIDE DEF S
<1>5. Drops(v) \in SUBSET DropKeys(S)
    BY <1>4
<1>6. IsFiniteSet(Drops(v)) /\ Cardinality(Drops(v)) <= Cardinality(DropKeys(S))
    BY <1>3, <1>5, FS_Subset
<1> QED BY <1>4, <1>5, <1>6, FS_CardinalityType DEF S

\* A vehicle within the limit keeps all its drops: none has as many nearer ones
\* as are allowed.
LEMMA KeptAll ==
    ASSUME order \in Inputs, NEW v \in Vehicles, MaxDrops >= 1,
           Cardinality(DropKeys(On(load, v))) <= MaxDrops
    PROVE  Kept(v) = Drops(v)
<1> DEFINE D == Drops(v)
<1>0. /\ IsFiniteSet(D) /\ Cardinality(D) \in Nat
      /\ Cardinality(D) <= MaxDrops
    <2>1. DropKeys(On(load, v)) = {[o \in Orders |-> DropKey(o)][p] : p \in On(load, v)}
        BY DEF DropKeys, On, Solvable, Pool
    <2>2. On(load, v) \in SUBSET Orders
        BY DEF On, Solvable, Pool
    <2>3. Cardinality(DropKeys(On(load, v))) \in Nat
        BY <2>1, <2>2, FiniteImage
    <2> QED BY <2>3, FiniteDrops, DropsAssumption
<1>1. ASSUME NEW d \in D PROVE Cardinality({e \in D : Nearer(v, e, d)}) < MaxDrops
    <2> DEFINE E == {e \in D : Nearer(v, e, d)}
    <2>1. E \in SUBSET (D \ {d})
        BY DEF Nearer
    <2>2. IsFiniteSet(D \ {d}) /\ Cardinality(D \ {d}) = Cardinality(D) - 1
        BY <1>0, <1>1, FS_RemoveElement
    <2> HIDE DEF D, E
    <2>3. IsFiniteSet(E) /\ Cardinality(E) <= Cardinality(D \ {d})
        BY <2>1, <2>2, FS_Subset
    <2>4. Cardinality(E) \in Nat
        BY <2>3, FS_CardinalityType
    <2>5. Cardinality(E) < MaxDrops
        BY <1>0, <2>2, <2>3, <2>4, DropsAssumption
    <2> QED BY <2>5 DEF E
<1> QED BY <1>1, DropsAssumption DEF Kept

LEMMA TrimsNothing ==
    ASSUME order \in Inputs, Fits, stage = "assigned", MaxDrops >= 1
    PROVE  UNION {Trimmed(v) : v \in Vehicles} = {}
<1>1. \A v \in Vehicles : Kept(v) = Drops(v)
    BY KeptAll DEF Fits
<1> QED BY <1>1 DEF Trimmed

-----------------------------------------------------------------------------
(* Types. *)

\* A sequence of drops visits each of them.
LEMMA VisitsAll ==
    ASSUME NEW S, IsFiniteSet(S), NEW s \in Sequences(S), NEW d \in S
    PROVE  s \in Seq(S) /\ \E i \in DOMAIN s : s[i] = d
<1> DEFINE n == Cardinality(S)
<1>1. n \in Nat /\ IsFiniteSet(1..n) /\ Cardinality(1..n) = n
    <2>1. n \in Nat
        BY FS_CardinalityType
    <2> HIDE DEF n
    <2>2. IsFiniteSet(1..n) /\ Cardinality(1..n) = IF 1 > n THEN 0 ELSE n - 1 + 1
        BY <2>1, FS_Interval
    <2> QED BY <2>1, <2>2
<1>2. s \in Injection(1..n, S)
    BY DEF Sequences, Injection, IsInjective
<1>3. s \in Surjection(1..n, S)
    BY <1>1, <1>2, FS_Injection
<1> QED BY <1>1, <1>2, <1>3 DEF Surjection, Injection

LEMMA TourType ==
    ASSUME order \in Inputs, NEW v \in Vehicles, NEW s \in Sequences(Kept(v))
    PROVE  s \in Seq(Coordinates)
<1>1. IsFiniteSet(Kept(v)) /\ Kept(v) \subseteq Coordinates
    <2>1. Kept(v) \in SUBSET Drops(v)
        BY DEF Kept
    <2> QED BY <2>1, FiniteDrops, FS_Subset
<1>2. Cardinality(Kept(v)) \in Nat
    BY <1>1, FS_CardinalityType
<1> QED BY <1>1, <1>2 DEF Sequences

\* An order on a vehicle that is not visited has no coordinates or was trimmed.
LEMMA ReasonKnown ==
    ASSUME order \in Inputs, Fits, Toured, stage \in {"routed", "assembled"}, load \in Loads,
           NEW o \in Orders, o \notin Routed, load[o] # NoVehicle
    PROVE  Reason(o) \in {"missing_coords", "max_drops_exceeded"}
<1> SUFFICES ASSUME order[o].place \in Coordinates PROVE o \in trimmed
    BY DEF Reason
<1> DEFINE v == load[o]
           d == order[o].place
<1>1. v \in Vehicles /\ o \in On(load, v)
    BY DEF Loads, Fits, Eligible, On
<1>2. d \in Drops(v) /\ o \in AtDrop(v, d)
    BY <1>1 DEF Drops, Located, AtDrop
<1>3. PICK K \in SUBSET Drops(v) : TourOf(v, K)
    BY <1>1 DEF Toured
<1>4. CASE d \in K
    <2>1. IsFiniteSet(K) /\ tour[v] \in Sequences(K)
        BY <1>1, <1>3, FiniteDrops, FS_Subset DEF TourOf
    <2>2. \E i \in DOMAIN tour[v] : tour[v][i] = d
        BY <1>4, <2>1, VisitsAll
    <2>3. o \in Routed
        BY <1>1, <2>2 DEF Routed, RoutedOn, Visited
    <2> QED BY <2>3
<1>5. CASE d \notin K
    BY <1>2, <1>3, <1>5 DEF TourOf
<1> QED BY <1>4, <1>5

LEMMA ItemType ==
    ASSUME order \in Inputs, Fits, Toured, stage = "routed", load \in Loads,
           NEW o \in Orders
    PROVE  ItemOf(o) \in [kind : {"none", "routed", "UNROUTED", "UNASSIGNED"},
                         vehicle : Vehicles \cup {NoVehicle}, sequence : Nat,
                         reason : {"none", "missing_coords", "max_drops_exceeded"}]
<1>1. load[o] \in Vehicles \cup {NoVehicle}
    BY DEF Loads
<1>2. CASE o \in Routed
    <2> DEFINE before == {p \in RoutedOn(load[o]) : VisitedBefore(load[o], p, o)}
    <2>1. before \in SUBSET Orders
        BY DEF RoutedOn, On, Solvable, Pool
    <2>2. Cardinality(before) \in Nat
        BY <2>1, FiniteOrders
    <2>3. 1 + Cardinality(before) \in Nat
        BY <2>2
    <2> HIDE DEF before
    <2>4. ItemOf(o) = [kind |-> "routed", vehicle |-> load[o], reason |-> "none",
                       sequence |-> 1 + Cardinality(before)]
        BY <1>2 DEF ItemOf, before
    <2> QED BY <1>1, <2>3, <2>4
<1>3. CASE o \notin Routed /\ load[o] # NoVehicle
    <2>1. ItemOf(o) = [kind |-> "UNROUTED", vehicle |-> load[o], sequence |-> 0,
                       reason |-> Reason(o)]
        BY <1>3 DEF ItemOf, NoItem
    <2> QED BY <1>1, <1>3, <2>1, ReasonKnown
<1>4. CASE o \notin Routed /\ load[o] = NoVehicle
    BY <1>4 DEF ItemOf, NoItem
<1> QED BY <1>2, <1>3, <1>4

-----------------------------------------------------------------------------
(* The steps. *)

IInv == TypeOK /\ Fits /\ Toured

LEMMA InitEstablishes == Init => IInv
<1> SUFFICES ASSUME Init PROVE IInv
    OBVIOUS
<1> USE DEF Init
<1>1. load \in Loads
    BY DEF NoLoad, Loads
<1>2. tour \in [Vehicles -> Seq(Coordinates)]
    <2>1. <<>> \in Seq(Coordinates)
        OBVIOUS
    <2> QED BY <2>1
<1> QED BY <1>1, <1>2 DEF IInv, TypeOK, Fits, Toured, NoItem

LEMMA AnswersFit ==
    ASSUME NEW l \in Loads, NEW st, Answers(l, st)
    PROVE  /\ \A o \in Orders \ Eligible : l[o] = NoVehicle
           /\ \A v \in Vehicles :
                 /\ Weight(On(l, v)) <= Capacity[v]
                 /\ MaxDrops >= 1 => Cardinality(DropKeys(On(l, v))) <= MaxDrops
<1>1. CASE Feasible(l)
    BY <1>1 DEF Feasible
<1>2. CASE l = NoLoad
    <2>1. \A v \in Vehicles : On(l, v) = {}
        BY <1>2, NoVehicleAssumption DEF NoLoad, On, Solvable, Pool
    <2>2. \A v \in Vehicles : DropKeys(On(l, v)) = {}
        BY <2>1 DEF DropKeys
    <2>3. \A v \in Vehicles : Cardinality(DropKeys(On(l, v))) = 0
        BY <2>2, FS_EmptySet
    <2>4. \A v \in Vehicles : Weight(On(l, v)) = 0
        BY <2>1, SumEmpty DEF Weight
    <2> QED BY <1>2, <2>3, <2>4, DropsAssumption, CapacityAssumption DEF NoLoad
<1> QED BY <1>1, <1>2 DEF Answers

LEMMA NextPreserves == IInv /\ [Next]_vars => IInv'
<1> SUFFICES ASSUME IInv, [Next]_vars PROVE IInv'
    OBVIOUS
<1> USE DEF IInv
<1>1. CASE Prepare
    <2>1. forced' \in SUBSET Orders
        BY <1>1 DEF Prepare, Due, Top, Pushed, Pool
    <2> QED BY <1>1, <2>1 DEF Prepare, TypeOK, Fits, Toured
<1>2. CASE SolveAssignment
    <2>1. TypeOK'
        BY <1>2 DEF SolveAssignment, TypeOK
    <2>2. Fits'
        <3>1. /\ \A o \in Orders \ Eligible : load'[o] = NoVehicle
              /\ \A v \in Vehicles :
                    /\ Weight(On(load', v)) <= Capacity[v]
                    /\ MaxDrops >= 1 => Cardinality(DropKeys(On(load', v))) <= MaxDrops
            BY <1>2, AnswersFit DEF SolveAssignment
        <3> QED BY <1>2, <3>1 DEF SolveAssignment, Fits, Eligible, DropKeys, DropKey, On,
                                 Solvable, Pool, Kg, Weight
    <2>3. Toured'
        BY <1>2 DEF SolveAssignment, Toured
    <2> QED BY <2>1, <2>2, <2>3
<1>3. CASE SolveRoutes
    <2>1. /\ tour' \in [Vehicles -> UNION {Sequences(Kept(v)) : v \in Vehicles}]
          /\ \A v \in Vehicles : tour'[v] \in Sequences(Kept(v))
        BY <1>3 DEF SolveRoutes
    <2>2. tour' \in [Vehicles -> Seq(Coordinates)]
        BY <2>1, TourType DEF TypeOK
    <2>3. trimmed' \in SUBSET Orders
        BY <1>3 DEF SolveRoutes, Trimmed
    <2>4. TypeOK'
        BY <1>3, <2>2, <2>3 DEF SolveRoutes, TypeOK
    <2>5. Fits'
        BY <1>3 DEF SolveRoutes, Fits, Eligible, DropKeys, DropKey, On, Solvable, Pool, Kg, Weight
    <2>6. ASSUME NEW v \in Vehicles PROVE \E K \in SUBSET Drops(v) : TourOf(v, K)'
        <3>1. Kept(v) \in SUBSET Drops(v) /\ Drops(v)' = Drops(v)
            BY <1>3 DEF SolveRoutes, Kept, Drops, Located, On, Solvable, Pool
        <3>2. \A d : AtDrop(v, d)' = AtDrop(v, d)
            BY <1>3 DEF SolveRoutes, AtDrop, On, Solvable, Pool
        <3>3. \A o \in Orders : (\E d \in Drops(v) \ Kept(v) : o \in AtDrop(v, d)) => o \in trimmed'
            BY <1>3 DEF SolveRoutes, Trimmed
        <3> DEFINE K == Kept(v)
        <3> HIDE DEF K
        <3>4. tour'[v] \in Sequences(K)
            BY <2>1 DEF K
        <3>5. /\ K \in SUBSET Drops(v)
              /\ MaxDrops < 1 => K = {}
              /\ \A o \in Orders : (\E d \in Drops(v) \ K : o \in AtDrop(v, d)) => o \in trimmed'
            BY <3>1, <3>3 DEF K, Kept
        <3> QED BY <3>1, <3>2, <3>4, <3>5 DEF TourOf, Sequences
    <2>7. Toured'
        <3>1. MaxDrops >= 1 => trimmed' = {}
            BY <1>3, TrimsNothing DEF SolveRoutes, TypeOK
        <3>2. \A v \in Vehicles : (\E K \in SUBSET Drops(v) : TourOf(v, K))'
            BY <1>3, <2>6 DEF SolveRoutes, Drops, Located, On, Solvable, Pool
        <3> QED BY <3>1, <3>2 DEF Toured
    <2> QED BY <2>4, <2>5, <2>7
<1>4. CASE Assemble
    <2>1. TypeOK'
        BY <1>4, ItemType DEF Assemble, TypeOK
    <2>2. Fits'
        BY <1>4 DEF Assemble, Fits, Eligible, DropKeys, DropKey, On, Solvable, Pool, Kg, Weight
    <2>3. Toured'
        <3>1. \A v, K : TourOf(v, K)' <=> TourOf(v, K)
            BY <1>4 DEF Assemble, TourOf, Drops, Located, AtDrop, On, Solvable, Pool, Sequences
        <3>2. \A v : Drops(v)' = Drops(v)
            BY <1>4 DEF Assemble, Drops, Located, On, Solvable, Pool
        <3> QED BY <1>4, <3>1, <3>2 DEF Assemble, Toured
    <2> QED BY <2>1, <2>2, <2>3
<1>5. CASE UNCHANGED vars
    <2>1. TypeOK' /\ Fits'
        BY <1>5 DEF vars, TypeOK, Fits, Eligible, DropKeys, DropKey, On, Solvable, Pool, Kg, Weight
    <2>2. \A v, K : TourOf(v, K)' <=> TourOf(v, K)
        BY <1>5 DEF vars, TourOf, Drops, Located, AtDrop, On, Solvable, Pool, Sequences
    <2>3. \A v : Drops(v)' = Drops(v)
        BY <1>5 DEF vars, Drops, Located, On, Solvable, Pool
    <2> QED BY <1>5, <2>1, <2>2, <2>3 DEF vars, Toured
<1> QED BY <1>1, <1>2, <1>3, <1>4, <1>5 DEF Next

\* Values keep their types, and an order that an assignment placed and the
\* routing did not always has one of the two known reasons.
THEOREM TypeCorrect == Spec => []TypeOK
<1>1. IInv => TypeOK
    BY DEF IInv
<1> QED BY InitEstablishes, NextPreserves, <1>1, PTL DEF Spec

\* With a limit of at least one drop the routing never rejects what the
\* assignment placed: trim_drops then has nothing to do.
THEOREM NothingEverTrimmed == Spec => []NothingTrimmed
<1> DEFINE Inv == IInv /\ (stage \notin {"routed", "assembled"} => trimmed = {})
<1>1. Init => Inv
    BY InitEstablishes DEF Init
<1>2. Inv /\ [Next]_vars => Inv'
    BY NextPreserves DEF Next, Prepare, SolveAssignment, SolveRoutes, Assemble, vars
<1>3. Inv => NothingTrimmed
    BY DEF IInv, Toured, NothingTrimmed
<1> QED BY <1>1, <1>2, <1>3, PTL DEF Spec
-----------------------------------------------------------------------------
(* Pushing out what could wait. *)

Kgs == [o \in Orders |-> Kg(o)]
Optional == Pool \ (Due \cup Top)
PushOrder == {p \in Orders \X Orders : PushedBefore(p[1], p[2])}

LEMMA KgType == ASSUME order \in Inputs, NEW o \in Orders PROVE Kg(o) \in Nat
BY OrderType DEF Kg, Order

LEMMA SlackType == ASSUME order \in Inputs, NEW o \in Orders PROVE order[o].slack \in Int
BY OrderType DEF Order

LEMMA WeightType ==
    ASSUME order \in Inputs, NEW S \in SUBSET Orders
    PROVE  Weight(S) \in Nat
<1>1. IsFiniteSet(S) /\ \A o \in S : Kgs[o] \in Nat
    BY KgType, FiniteOrders DEF Kgs
<1>2. SumFunctionOnSet(Kgs, S) \in Nat
    BY <1>1, SumMonotonic
<1> QED BY <1>2 DEF Weight, Kgs

LEMMA WeightGrows ==
    ASSUME order \in Inputs, NEW T \in SUBSET Orders, NEW S \in SUBSET T
    PROVE  Weight(S) <= Weight(T)
<1>1. IsFiniteSet(T) /\ \A o \in T : Kgs[o] \in Nat
    BY KgType, FiniteOrders DEF Kgs
<1>2. SumFunctionOnSet(Kgs, S) <= SumFunctionOnSet(Kgs, T)
    BY <1>1, SumMonotonic
<1> QED BY <1>2 DEF Weight, Kgs

LEMMA WeightAddsUp ==
    ASSUME order \in Inputs, NEW T \in SUBSET Orders, NEW S \in SUBSET T
    PROVE  Weight(T) = Weight(S) + Weight(T \ S)
<1>1. IsFiniteSet(S) /\ IsFiniteSet(T \ S) /\ \A o \in T : Kgs[o] \in Int
    BY KgType, FiniteOrders DEF Kgs
<1>2. S \cup (T \ S) = T /\ S \cap (T \ S) = {}
    OBVIOUS
<1>3. SumFunctionOnSet(Kgs, T) = SumFunctionOnSet(Kgs, S) + SumFunctionOnSet(Kgs, T \ S)
    BY <1>1, <1>2, SumUnion
<1> QED BY <1>3 DEF Weight, Kgs

LEMMA WeightWithout ==
    ASSUME order \in Inputs, NEW T \in SUBSET Orders, NEW x \in T
    PROVE  Weight(T) = Kg(x) + Weight(T \ {x})
<1>1. IsFiniteSet(T) /\ (\A o \in T : Kgs[o] \in Int) /\ Kgs[x] = Kg(x)
    BY KgType, FiniteOrders DEF Kgs
<1>2. SumFunctionOnSet(Kgs, T) = Kgs[x] + SumFunctionOnSet(Kgs, T \ {x})
    BY <1>1, SumRemove
<1> QED BY <1>1, <1>2 DEF Weight, Kgs

LEMMA PushOrderStrict ==
    ASSUME order \in Inputs, NEW S \in SUBSET Orders
    PROVE  IsStrictOrder(PushOrder, S)
<1>1. \A o \in S : Kg(o) \in Int /\ order[o].slack \in Int /\ o \in Int /\ o \in Orders
    <2>1. \A o \in Orders : o \in Int
        BY CountAssumption DEF Orders
    <2> QED BY <2>1, KgType, SlackType
<1>2. \A p, q \in S : <<p, q>> \in PushOrder <=> PushedBefore(p, q)
    BY DEF PushOrder
<1>3. \A p \in S : ~PushedBefore(p, p)
    BY <1>1 DEF PushedBefore
<1>4. \A p, q \in S : p # q => PushedBefore(p, q) \/ PushedBefore(q, p)
    BY <1>1 DEF PushedBefore
<1>5. \A p, q, r \in S : PushedBefore(p, q) /\ PushedBefore(q, r) => PushedBefore(p, r)
    BY <1>1 DEF PushedBefore
<1> QED BY <1>2, <1>3, <1>4, <1>5 DEF IsStrictOrder

\* What is needed is what could wait and does not fit.
LEMMA NeedIsExcess ==
    ASSUME order \in Inputs
    PROVE  /\ Need = Weight(Optional) - StockCapacity
           /\ Need \in Int
<1> DEFINE must == (Due \cup Top) \cap Pool
<1>1. Pool \in SUBSET Orders /\ must \in SUBSET Pool /\ Pool \ must = Optional
    BY DEF Pool, Optional
<1>2. Weight(Pool) = Weight(must) + Weight(Optional)
    <2> HIDE DEF must
    <2> QED BY <1>1, WeightAddsUp
<1>3. Weight(must) \in Nat /\ Weight(Optional) \in Nat /\ Need = Weight(Pool) - StockCapacity - Weight(must)
    BY <1>1, WeightType DEF Need
<1> QED BY <1>2, <1>3, StockAssumption

LEMMA PushedIsTaken ==
    ASSUME order \in Inputs, StockCapacity > 0
    PROVE  LET S == Optional
               m == [A \in SUBSET S |-> Weight(A)]
           IN  /\ IsFiniteSet(S) /\ m \in [SUBSET S -> Int]
               /\ \A A, B \in SUBSET S : A \subseteq B => m[A] <= m[B]
               /\ Need > 0 => Pushed = Taken(S, PushOrder, m, Need)
               /\ ~(Need > 0) => Pushed = {}
<1> DEFINE S == Optional
           m == [A \in SUBSET S |-> Weight(A)]
<1>1. S \in SUBSET Orders
    BY DEF Optional, Pool
<1>2. m \in [SUBSET S -> Int]
    BY <1>1, WeightType
<1>3. \A A, B \in SUBSET S : A \subseteq B => m[A] <= m[B]
    BY <1>1, WeightGrows
<1>4. ASSUME Need > 0 PROVE Pushed = Taken(S, PushOrder, m, Need)
    <2>1. \A o \in S : {p \in S : <<p, o>> \in PushOrder} = {p \in S : PushedBefore(p, o)}
        BY <1>1 DEF PushOrder
    <2>2. \A o \in S : m[{p \in S : <<p, o>> \in PushOrder}] = Weight({p \in S : PushedBefore(p, o)})
        BY <2>1
    <2>3. Pushed = {o \in S : Weight({p \in S : PushedBefore(p, o)}) < Need}
        BY <1>4, NeedIsExcess, StockAssumption DEF Pushed, Optional
    <2> HIDE DEF S, m
    <2> QED BY <2>2, <2>3 DEF Taken
<1>5. ASSUME ~(Need > 0) PROVE Pushed = {}
    BY <1>5, NeedIsExcess DEF Pushed
<1> QED BY <1>1, <1>2, <1>3, <1>4, <1>5, FiniteOrders

LEMMA PushingRelieves ==
    ASSUME order \in Inputs, StockCapacity > 0, forced = Due \cup Top \cup Pushed
    PROVE  LET pushed == forced \ (Due \cup Top)
           IN  /\ Weight(Pool \ forced) <= StockCapacity
               /\ pushed # {} =>
                     \E last \in pushed :
                         Weight(Pool \ forced) + Kg(last) > StockCapacity
               /\ \A p \in pushed, q \in Pool \ forced : order[p].slack <= order[q].slack
<1> DEFINE S == Optional
           m == [A \in SUBSET S |-> Weight(A)]
<1>1. S \in SUBSET Orders /\ Pushed \in SUBSET S
    BY DEF Optional, Pool, Pushed
<1>2. /\ forced \ (Due \cup Top) = Pushed
      /\ Pool \ forced = S \ Pushed
    BY <1>1 DEF Optional
<1>3. Weight(S) = Weight(Pushed) + Weight(S \ Pushed)
    BY <1>1, WeightAddsUp
<1>4. /\ Weight(S) \in Nat /\ Weight(Pushed) \in Nat /\ Weight(S \ Pushed) \in Nat
      /\ Need = Weight(S) - StockCapacity /\ Need \in Int
    <2>1. S \ Pushed \in SUBSET Orders /\ Pushed \in SUBSET Orders
        BY <1>1
    <2> HIDE DEF S
    <2> QED BY <1>1, <2>1, WeightType, NeedIsExcess DEF S
<1>5. CASE ~(Need > 0)
    <2>1. Pushed = {} /\ S \ Pushed = S
        BY <1>5, PushedIsTaken
    <2>2. Weight(S \ Pushed) <= StockCapacity
        BY <1>4, <1>5, <2>1, StockAssumption
    <2> QED BY <1>2, <2>1, <2>2
<1>6. CASE Need > 0
    <2>1. /\ \A x \in Pushed, y \in S : <<y, x>> \in PushOrder => y \in Pushed
          /\ Pushed = S \/ m[Pushed] >= Need
          /\ Pushed # {} => \E x \in Pushed : m[Pushed \ {x}] < Need
        <3>1. /\ IsFiniteSet(S) /\ m \in [SUBSET S -> Int]
              /\ \A A, B \in SUBSET S : A \subseteq B => m[A] <= m[B]
              /\ Pushed = Taken(S, PushOrder, m, Need)
            BY <1>6, PushedIsTaken
        <3>2. IsStrictOrder(PushOrder, S)
            BY <1>1, PushOrderStrict
        <3> HIDE DEF S, m
        <3> QED BY <1>4, <3>1, <3>2, TakenIsEnough
    <2>2. \A A \in SUBSET S : m[A] = Weight(A)
        OBVIOUS
    <2> HIDE DEF m
    <2>3. Weight(S \ Pushed) <= StockCapacity
        <3>1. CASE Pushed = S
            <4>1. S \ Pushed = {}
                BY <3>1
            <4>2. Weight({}) = 0
                BY SumEmpty DEF Weight
            <4> QED BY <4>1, <4>2, StockAssumption
        <3>2. CASE m[Pushed] >= Need
            <4>1. Weight(Pushed) >= Need
                BY <1>1, <2>2, <3>2
            <4> QED BY <1>3, <1>4, <4>1, StockAssumption
        <3> QED BY <2>1, <3>1, <3>2
    <2>4. ASSUME Pushed # {}
          PROVE  \E last \in Pushed : Weight(S \ Pushed) + Kg(last) > StockCapacity
        <3>1. PICK x \in Pushed : m[Pushed \ {x}] < Need
            BY <2>1, <2>4
        <3>2. Pushed \in SUBSET Orders /\ Pushed \ {x} \in SUBSET S /\ Pushed \ {x} \in SUBSET Orders
              /\ x \in Orders
            BY <1>1
        <3>3. Weight(Pushed) = Kg(x) + Weight(Pushed \ {x})
            BY <3>2, WeightWithout
        <3>4. Weight(Pushed \ {x}) < Need
            BY <2>2, <3>1, <3>2
        <3>5. Weight(Pushed \ {x}) \in Nat /\ Kg(x) \in Nat
            BY <3>2, WeightType, KgType
        <3>6. Weight(S \ Pushed) + Kg(x) > StockCapacity
            BY <1>3, <1>4, <3>3, <3>4, <3>5, StockAssumption
        <3> QED BY <3>6
    <2>5. ASSUME NEW p \in Pushed, NEW q \in S \ Pushed
          PROVE  order[p].slack <= order[q].slack
        <3>1. p \in Orders /\ q \in Orders /\ ~PushedBefore(q, p)
            BY <1>1, <2>1 DEF PushOrder
        <3>2. order[p].slack \in Int /\ order[q].slack \in Int
            BY <3>1, SlackType
        <3> QED BY <3>1, <3>2 DEF PushedBefore
    <2> QED BY <1>2, <2>3, <2>4, <2>5
<1> QED BY <1>5, <1>6

\* What must ship is settled with the preparation and never looked at again:
\* over the warehouse's capacity, the pushed orders make room for the others,
\* each was needed, and none is less urgent than an order left to wait.
THEOREM PushesTheUrgent == Spec => []OverflowPushesUrgent
<1> DEFINE Settled == stage # "read" => forced = Due \cup Top \cup Pushed
           Inv == order \in Inputs /\ Settled
<1>1. Init => Inv
    BY DEF Init
<1>2. Inv /\ [Next]_vars => Inv'
    <2> SUFFICES ASSUME Inv, [Next]_vars PROVE Inv'
        OBVIOUS
    <2>1. order' = order
        BY DEF Next, Prepare, SolveAssignment, SolveRoutes, Assemble, vars
    <2>2. (Due \cup Top \cup Pushed)' = Due \cup Top \cup Pushed
        BY <2>1 DEF Due, Top, Pushed, Pool, Need, Weight, Kg, PushedBefore
    <2> QED BY <2>1, <2>2 DEF Next, Prepare, SolveAssignment, SolveRoutes, Assemble, vars
<1>3. Inv => OverflowPushesUrgent
    BY PushingRelieves DEF OverflowPushesUrgent
<1> QED BY <1>1, <1>2, <1>3, PTL DEF Spec
-----------------------------------------------------------------------------
(* The answer. *)

\* What is written is made from what was solved, and nothing is written before.
Written == item = [o \in Orders |-> IF stage = "assembled" THEN ItemOf(o) ELSE NoItem]

AInv == IInv /\ Written /\ (stage \notin {"routed", "assembled"} => trimmed = {})

Before(o) == {p \in RoutedOn(load[o]) : VisitedBefore(load[o], p, o)}

LEMMA InitAInv == Init => AInv
<1>1. Init => Written
    BY DEF Init, Written
<1> QED BY <1>1, InitEstablishes DEF AInv, Init

\* The item of an order is settled with the routes.
LEMMA ItemDepends ==
    ASSUME UNCHANGED <<order, load, tour, trimmed>>
    PROVE  \A o \in Orders : ItemOf(o)' = ItemOf(o)
<1>1. Solvable' = Solvable
    BY DEF Solvable, Pool
<1>2. \A v : RoutedOn(v)' = RoutedOn(v)
    BY <1>1 DEF RoutedOn, On, Visited
<1>3. Routed' = Routed
    BY <1>2 DEF Routed
<1>4. \A v, p, o : VisitedBefore(v, p, o)' <=> VisitedBefore(v, p, o)
    BY DEF VisitedBefore
<1>5. \A o : Reason(o)' = Reason(o)
    BY DEF Reason
<1>6. \A o : Before(o)' = Before(o)
    BY <1>2, <1>4 DEF Before
<1> QED BY <1>1, <1>3, <1>5, <1>6 DEF ItemOf, NoItem, Before

LEMMA NextAInv == AInv /\ [Next]_vars => AInv'
<1> SUFFICES ASSUME AInv, [Next]_vars PROVE AInv'
    OBVIOUS
<1>1. IInv' /\ (stage \notin {"routed", "assembled"} => trimmed = {})'
    BY NextPreserves DEF AInv, Next, Prepare, SolveAssignment, SolveRoutes, Assemble, vars
<1>2. Written'
    <2>1. CASE Assemble
        <3>1. \A o \in Orders : ItemOf(o)' = ItemOf(o)
            BY <2>1, ItemDepends DEF Assemble
        <3> QED BY <2>1, <3>1 DEF Assemble, Written
    <2>2. CASE Prepare \/ SolveAssignment \/ SolveRoutes
        BY <2>2 DEF Prepare, SolveAssignment, SolveRoutes, AInv, Written, NoItem
    <2>3. CASE UNCHANGED vars
        <3>1. \A o \in Orders : ItemOf(o)' = ItemOf(o)
            BY <2>3, ItemDepends DEF vars
        <3>2. item' = item /\ stage' = stage /\ NoItem' = NoItem
            BY <2>3 DEF vars, NoItem
        <3> QED BY <3>1, <3>2 DEF AInv, Written
    <2> QED BY <2>1, <2>2, <2>3 DEF Next
<1> QED BY <1>1, <1>2 DEF AInv

LEMMA RoutedType ==
    ASSUME IInv
    PROVE  Routed = {o \in Solvable : load[o] # NoVehicle /\ Visited(load[o], o)}
<1>1. \A o \in Orders : load[o] \in Vehicles \cup {NoVehicle}
    BY DEF IInv, TypeOK, Loads
<1>2. Solvable \subseteq Orders
    BY DEF Solvable, Pool
<1> QED BY <1>1, <1>2, NoVehicleAssumption DEF Routed, RoutedOn, On

\* An order the solver was given, that must ship and has no route, is named: no
\* vehicle took it, or its drop was not visited, and then it has none.
LEMMA UnroutedIsNamed ==
    ASSUME AInv, stage = "assembled", MaxDrops >= 1,
           NEW o \in forced \cap Pool, item[o].kind # "routed"
    PROVE  o \in Warned
<1>1. o \in Orders /\ item[o] = ItemOf(o)
    BY DEF AInv, Written, Pool
<1>2. o \notin Routed
    BY <1>1 DEF ItemOf
<1>3. CASE o \notin Solvable
    BY <1>3 DEF Warned
<1>4. CASE o \in Solvable /\ load[o] = NoVehicle
    BY <1>4 DEF Warned
<1>5. CASE o \in Solvable /\ load[o] # NoVehicle
    <2>1. Reason(o) \in {"missing_coords", "max_drops_exceeded"}
        BY <1>1, <1>2, <1>5, ReasonKnown DEF AInv, IInv, TypeOK
    <2>2. trimmed = {}
        BY DEF AInv, IInv, Toured
    <2>3. order[o].place \notin Coordinates
        BY <2>1, <2>2 DEF Reason
    <2> QED BY <1>5, <2>3 DEF Warned
<1> QED BY <1>3, <1>4, <1>5

\* No stage of a generation loses an order that must ship without a warning.
THEOREM MustShipAlwaysReported == Spec => []MustShipReported
<1>1. AInv => MustShipReported
    BY UnroutedIsNamed DEF MustShipReported
<1> QED BY InitAInv, NextAInv, <1>1, PTL DEF Spec

-----------------------------------------------------------------------------
(* The answer is one that Placement allows. *)

Carrier ==
    [o \in Solvable |-> IF item[o].kind = "routed" THEN item[o].vehicle ELSE NoVehicle]
Back == {o \in Orders : item[o].kind \in {"UNROUTED", "UNASSIGNED"}}
Offered == [o \in Solvable |-> order[o]]
Carried(v) == {o \in DOMAIN Carrier : Carrier[o] = v}

LEMMA WhoCarries ==
    ASSUME AInv, stage = "assembled"
    PROVE  /\ Carrier = [o \in Solvable |-> IF o \in Routed THEN load[o] ELSE NoVehicle]
           /\ Carrier \in [Solvable -> Vehicles \cup {NoVehicle}]
           /\ Back = {o \in Solvable : Carrier[o] = NoVehicle}
<1>1. \A o \in Orders : item[o] = ItemOf(o)
    BY DEF AInv, Written
<1>2. Solvable \subseteq Orders
    BY DEF Solvable, Pool
<1>3. \A o \in Routed : o \in Solvable /\ load[o] \in Vehicles
    <2>1. \A o \in Orders : load[o] \in Vehicles \cup {NoVehicle}
        BY DEF AInv, IInv, TypeOK, Loads
    <2> QED BY <1>2, <2>1, RoutedType DEF AInv
<1>4. \A o \in Orders : load[o] # NoVehicle => o \in Solvable
    BY DEF AInv, IInv, Fits, Eligible
<1>5. \A o \in Orders :
        /\ item[o].kind = "routed" <=> o \in Routed
        /\ o \in Routed => item[o].vehicle = load[o]
        /\ item[o].kind \in {"UNROUTED", "UNASSIGNED"} <=> o \in Solvable \ Routed
    <2> SUFFICES ASSUME NEW o \in Orders
                 PROVE  /\ item[o].kind = "routed" <=> o \in Routed
                        /\ o \in Routed => item[o].vehicle = load[o]
                        /\ item[o].kind \in {"UNROUTED", "UNASSIGNED"} <=> o \in Solvable \ Routed
        OBVIOUS
    <2>1. CASE o \in Routed
        <3> DEFINE n == 1 + Cardinality(Before(o))
        <3> HIDE DEF n
        <3>1. item[o] = [kind |-> "routed", vehicle |-> load[o], reason |-> "none", sequence |-> n]
            BY <1>1, <2>1 DEF ItemOf, n, Before
        <3> QED BY <2>1, <3>1
    <2>2. CASE o \notin Routed /\ load[o] # NoVehicle
        <3>1. item[o] = [NoItem EXCEPT !.kind = "UNROUTED", !.vehicle = load[o], !.reason = Reason(o)]
            BY <1>1, <2>2 DEF ItemOf
        <3>2. item[o].kind = "UNROUTED"
            BY <3>1 DEF NoItem
        <3> QED BY <1>4, <2>2, <3>2
    <2>3. CASE o \notin Routed /\ load[o] = NoVehicle
        <3>1. item[o] = IF o \in Solvable THEN [NoItem EXCEPT !.kind = "UNASSIGNED"] ELSE NoItem
            BY <1>1, <2>3 DEF ItemOf
        <3>2. item[o].kind = IF o \in Solvable THEN "UNASSIGNED" ELSE "none"
            BY <3>1 DEF NoItem
        <3> QED BY <2>3, <3>2
    <2> QED BY <2>1, <2>2, <2>3
<1>6. Carrier = [o \in Solvable |-> IF o \in Routed THEN load[o] ELSE NoVehicle]
    BY <1>2, <1>5 DEF Carrier
<1>7. Back = Solvable \ Routed
    BY <1>2, <1>5 DEF Back
<1> QED BY <1>3, <1>6, <1>7, NoVehicleAssumption

\* Within the weight a vehicle takes and the number of its stops.
LEMMA CarriesWithin ==
    ASSUME AInv, stage = "assembled", NEW v \in Vehicles
    PROVE  /\ SumFunctionOnSet([o \in Solvable |-> Offered[o].weight], Carried(v)) <= Capacity[v]
           /\ Cardinality({Offered[o].place : o \in Carried(v)})
                 <= (IF MaxDrops < 1 THEN 0 ELSE MaxDrops)
<1> DEFINE C == Carried(v)
           w == [o \in Solvable |-> Offered[o].weight]
<1>1. order \in Inputs /\ Solvable \subseteq Orders
    BY DEF AInv, IInv, TypeOK, Solvable, Pool
<1>2. C = RoutedOn(v)
    <2>1. C = {o \in Routed : load[o] = v}
        BY WhoCarries, RoutedType, NoVehicleAssumption DEF Carried, AInv
    <2> QED BY <2>1, RoutedType, NoVehicleAssumption DEF RoutedOn, On, AInv
<1>3. C \in SUBSET On(load, v) /\ On(load, v) \in SUBSET Orders /\ C \subseteq Solvable
      /\ C \in SUBSET Orders
    BY <1>1, <1>2 DEF RoutedOn, On
<1>4. SumFunctionOnSet(w, C) <= Capacity[v]
    <2>1. \A o \in C : w[o] = Kgs[o]
        BY <1>1, <1>3 DEF Kgs, Kg, Solvable, Offered
    <2>2. IsFiniteSet(C)
        BY <1>3, FiniteOrders
    <2>3. SumFunctionOnSet(w, C) = Weight(C)
        <3> HIDE DEF C, w
        <3>1. SumFunctionOnSet(w, C) = SumFunctionOnSet(Kgs, C)
            BY <2>1, <2>2, SumCongruent
        <3> QED BY <3>1 DEF Weight, Kgs
    <2> HIDE DEF C, w
    <2>4. /\ Weight(C) <= Weight(On(load, v))
          /\ Weight(C) \in Nat /\ Weight(On(load, v)) \in Nat
        BY <1>1, <1>3, WeightGrows, WeightType
    <2>5. Weight(On(load, v)) <= Capacity[v] /\ Capacity[v] \in Nat
        BY CapacityAssumption DEF AInv, IInv, Fits
    <2> QED BY <2>3, <2>4, <2>5
<1>5. Cardinality({Offered[o].place : o \in C}) <= (IF MaxDrops < 1 THEN 0 ELSE MaxDrops)
    <2>1. PICK K \in SUBSET Drops(v) : TourOf(v, K)
        BY DEF AInv, IInv, Toured
    <2>2. ASSUME NEW o \in C PROVE Offered[o].place \in K
        <3>1. PICK i \in DOMAIN tour[v] : tour[v][i] = order[o].place
            BY <1>2, <2>2 DEF RoutedOn, Visited
        <3>2. tour[v][i] \in K
            BY <2>1, <3>1 DEF TourOf, Sequences
        <3> QED BY <1>3, <3>1, <3>2 DEF Offered
    <2> DEFINE P == {Offered[o].place : o \in C}
    <2>3. P \in SUBSET K
        BY <2>2
    <2> HIDE DEF P, C
    <2>4. /\ P \in SUBSET Drops(v) /\ IsFiniteSet(Drops(v)) /\ Cardinality(Drops(v)) \in Nat
          /\ Cardinality(Drops(v)) <= Cardinality(DropKeys(On(load, v)))
        BY <1>1, <2>1, <2>3, FiniteDrops
    <2>5. IsFiniteSet(P) /\ Cardinality(P) <= Cardinality(Drops(v)) /\ Cardinality(P) \in Nat
        BY <2>4, FS_Subset, FS_CardinalityType
    <2>6. CASE MaxDrops < 1
        <3>1. P = {}
            BY <2>1, <2>3, <2>6 DEF TourOf
        <3>2. Cardinality(P) = 0
            BY <3>1, FS_EmptySet
        <3> QED BY <2>6, <3>2 DEF P
    <2>7. CASE ~(MaxDrops < 1)
        <3>1. MaxDrops >= 1
            BY <2>7, DropsAssumption
        <3>2. Cardinality(DropKeys(On(load, v))) <= MaxDrops
            BY <3>1 DEF AInv, IInv, Fits
        <3>3. Cardinality(DropKeys(On(load, v))) \in Nat
            <4>1. DropKeys(On(load, v)) = {[o \in Orders |-> DropKey(o)][p] : p \in On(load, v)}
                BY <1>3 DEF DropKeys
            <4> QED BY <1>3, <4>1, FiniteImage
        <3>4. Cardinality(P) <= MaxDrops
            BY <2>4, <2>5, <3>2, <3>3, DropsAssumption
        <3> QED BY <2>7, <3>4 DEF P
    <2> QED BY <2>6, <2>7
<1> QED BY <1>4, <1>5

\* The library's operators are the same wherever they are taken from.
LEMMA SameSum ==
    ASSUME NEW f, NEW S
    PROVE  Promise!SumFunctionOnSet(f, S) = SumFunctionOnSet(f, S)
BY DEF Promise!SumFunctionOnSet, Promise!FoldFunctionOnSet, Promise!MapThenFoldSet,
       SumFunctionOnSet, FoldFunctionOnSet, MapThenFoldSet

LEMMA SameCardinality ==
    ASSUME NEW S
    PROVE  Promise!Cardinality(S) = Cardinality(S)
BY DEF Promise!Cardinality, Cardinality, Promise!IsFiniteSet, IsFiniteSet

\* What makes c and b an answer to the offer f.
AnswersOffer(f, c, b) ==
    /\ c \in [DOMAIN f -> Vehicles \cup {NoVehicle}]
    /\ b = {o \in DOMAIN c : c[o] = NoVehicle}
    /\ \A v \in Vehicles :
          /\ SumFunctionOnSet([o \in DOMAIN f |-> f[o].weight], {o \in DOMAIN c : c[o] = v})
                <= Capacity[v]
          /\ Cardinality({f[o].place : o \in {p \in DOMAIN c : c[p] = v}})
                <= (IF MaxDrops < 1 THEN 0 ELSE MaxDrops)

LEMMA AnswerIsOne ==
    ASSUME AInv, stage = "assembled"
    PROVE  AnswersOffer(Offered, Carrier, Back)
<1>1. DOMAIN Offered = Solvable /\ DOMAIN Carrier = Solvable
    BY DEF Offered, Carrier
<1> QED BY <1>1, WhoCarries, CarriesWithin DEF AnswersOffer, Carried

LEMMA AnswerAllowed ==
    ASSUME NEW c, NEW b, AnswersOffer(Offered, c, b)
    PROVE  Promise!IsAnswer(c, b)
<1>1. ASSUME NEW v \in Vehicles
      PROVE  /\ Promise!WeightOn(c, v) <= Capacity[v]
             /\ Promise!Cardinality(Promise!StopsOf(c, v))
                   <= (IF MaxDrops < 1 THEN 0 ELSE MaxDrops)
    <2>1. Promise!WeightOn(c, v)
             = SumFunctionOnSet([o \in DOMAIN Offered |-> Offered[o].weight],
                                {o \in DOMAIN c : c[o] = v})
        BY SameSum DEF Promise!WeightOn, Offered
    <2>2. Promise!StopsOf(c, v) = {Offered[o].place : o \in {p \in DOMAIN c : c[p] = v}}
        BY DEF Promise!StopsOf, Offered
    <2> QED BY <2>1, <2>2, SameCardinality DEF AnswersOffer
<1> QED BY <1>1 DEF Promise!IsAnswer, AnswersOffer, Offered

\* Before it is assembled there is no answer.
LEMMA NoAnswerBefore ==
    ASSUME AInv, stage # "assembled"
    PROVE  Back = {}
BY DEF AInv, Written, Back, NoItem

\* A generation answers once, and only with what Placement allows, whatever
\* the solvers return: the solution refines the promise step by step.
THEOREM AnswersAsPromised == Spec => ImplementsPlacement
<1> DEFINE carrier == IF stage = "assembled" THEN Carrier ELSE [o \in {} |-> NoVehicle]
<1>0. (AInv /\ stage = "assembled" => AnswersOffer(Offered, Carrier, Back))'
    <2>1. AInv /\ stage = "assembled" => AnswersOffer(Offered, Carrier, Back)
        BY AnswerIsOne
    <2> QED BY <2>1, PTL
<1>1. Init => Promise!Init
    BY InitAInv, NoAnswerBefore DEF Init, Promise!Init, Back
<1>2. AInv /\ AInv' /\ [Next]_vars => [Promise!Answer]_<<carrier, Back>>
    <2> SUFFICES ASSUME AInv, AInv', [Next]_vars
                 PROVE  [Promise!Answer]_<<carrier, Back>>
        OBVIOUS
    <2>1. CASE Assemble
        <3>1. stage # "assembled" /\ stage' = "assembled" /\ UNCHANGED order
            BY <2>1 DEF Assemble
        <3>2. Back = {}
            BY <3>1, NoAnswerBefore
        <3>3. ~Promise!Answered
            BY <3>1, <3>2 DEF Promise!Answered, Back
        <3>4. Solvable' = Solvable /\ Offered' = Offered
            BY <3>1 DEF Offered, Solvable, Pool
        <3>5. AnswersOffer(Offered, Carrier', Back')
            BY <1>0, <3>1, <3>4 DEF AnswersOffer
        <3>6. Promise!IsAnswer(Carrier', Back')
            BY <3>5, AnswerAllowed
        <3> QED BY <3>1, <3>3, <3>4, <3>6 DEF Promise!Answer, Carrier, Back, Offered
    <2>2. CASE ~Assemble
        <3>1. item' = item /\ order' = order
              /\ (stage' = "assembled" <=> stage = "assembled")
            BY <2>2 DEF Next, Prepare, SolveAssignment, SolveRoutes, vars
        <3> QED BY <3>1 DEF Carrier, Back, Solvable, Pool
    <2> QED BY <2>1, <2>2
<1>3. Spec => []AInv
    BY InitAInv, NextAInv, PTL DEF Spec
<1> QED BY <1>1, <1>2, <1>3, PTL DEF Spec, ImplementsPlacement, Promise!Spec, Carrier, Back
=============================================================================
