--------------------------- MODULE PlanViewProofs ---------------------------
(* What TLAPS proves of PlanView, for any plan, fleet, thresholds and dates. *)
EXTENDS PlanView, SumLemmas

\* Every routed item's vehicle keeps its route, in whatever status.
RoutedHasRoute == \A o \in Routed : route[item[o].on] # "none"

IInv == TypeOK /\ RoutedHasRoute

LEMMA ItemType ==
    ASSUME TypeOK, NEW o \in Orders
    PROVE  item[o] \in Item
BY PlansAssumption DEF TypeOK

LEMMA InitIInv == Init => IInv
<1> SUFFICES ASSUME Init PROVE IInv
    OBVIOUS
<1>1. today \in 0..LastDay
    BY LastDayAssumption DEF Init
<1>2. status \in [Orders -> {"absent", "new", "planned", "approved", "delivered"}]
    BY DEF Init
<1>3. route \in [Vehicles -> RouteStatus]
    BY DEF Init, RouteStatus
<1>4. RoutedHasRoute
    <2> SUFFICES ASSUME NEW o \in Routed PROVE route[item[o].on] # "none"
        BY DEF RoutedHasRoute
    <2>1. item[o].on \in Vehicles /\ o \in On(item[o].on)
        BY DEF Routed, On
    <2> QED BY <2>1 DEF Init
<1> QED BY <1>1, <1>2, <1>3, <1>4 DEF Init, TypeOK, IInv

\* While no item changes and no route is taken away, routed items keep theirs.
LEMMA KeepsRoutes ==
    ASSUME RoutedHasRoute, UNCHANGED item,
           \A v \in Vehicles : route[v] # "none" => route'[v] # "none"
    PROVE  RoutedHasRoute'
BY DEF RoutedHasRoute, Routed

LEMMA SetStatusType ==
    ASSUME TypeOK, NEW S, NEW st \in {"absent", "new", "planned", "approved", "delivered"}
    PROVE  /\ SetStatus(S, st) \in
                  [Orders -> {"absent", "new", "planned", "approved", "delivered"}]
           /\ \A o \in Orders \cap S : SetStatus(S, st)[o] = st
BY DEF TypeOK, SetStatus

LEMMA NextIInv == IInv /\ [Next]_vars => IInv'
<1> SUFFICES ASSUME IInv, [Next]_vars PROVE IInv'
    OBVIOUS
<1> USE DEF IInv
<1>1. CASE ApprovePlan
    <2>1. TypeOK'
        <3>1. route' \in [Vehicles -> RouteStatus]
            BY <1>1 DEF ApprovePlan, TypeOK, RouteStatus
        <3>2. status' \in [Orders -> {"absent", "new", "planned", "approved", "delivered"}]
            BY <1>1, SetStatusType DEF ApprovePlan
        <3> QED BY <1>1, <3>1, <3>2 DEF ApprovePlan, TypeOK
    <2>2. \A v \in Vehicles : route[v] # "none" => route'[v] # "none"
        BY <1>1 DEF ApprovePlan
    <2> QED BY <1>1, <2>1, <2>2, KeepsRoutes DEF ApprovePlan
<1>2. ASSUME NEW v \in Vehicles, ApproveRoute(v) PROVE IInv'
    <2>1. TypeOK'
        BY <1>2, SetStatusType DEF ApproveRoute, TypeOK, RouteStatus
    <2>2. \A w \in Vehicles : route[w] # "none" => route'[w] # "none"
        BY <1>2 DEF ApproveRoute, TypeOK
    <2> QED BY <1>2, <2>1, <2>2, KeepsRoutes DEF ApproveRoute
<1>3. ASSUME NEW v \in Vehicles, DepartRoute(v) PROVE IInv'
    <2>1. TypeOK'
        BY <1>3 DEF DepartRoute, TypeOK, RouteStatus
    <2>2. \A w \in Vehicles : route[w] # "none" => route'[w] # "none"
        BY <1>3 DEF DepartRoute, TypeOK
    <2> QED BY <1>3, <2>1, <2>2, KeepsRoutes DEF DepartRoute
<1>4. ASSUME NEW v \in Vehicles, CompleteRoute(v) PROVE IInv'
    <2>1. TypeOK'
        BY <1>4, SetStatusType DEF CompleteRoute, TypeOK, RouteStatus
    <2>2. \A w \in Vehicles : route[w] # "none" => route'[w] # "none"
        BY <1>4 DEF CompleteRoute, TypeOK
    <2> QED BY <1>4, <2>1, <2>2, KeepsRoutes DEF CompleteRoute
<1>5. ASSUME NEW v \in Vehicles, NEW kg \in Capacities, SaveVehicle(v, kg) PROVE IInv'
    <2>1. TypeOK'
        BY <1>5 DEF SaveVehicle, TypeOK
    <2> QED BY <1>5, <2>1, KeepsRoutes DEF SaveVehicle
<1>6. ASSUME NEW o \in Orders, DeleteOrder(o) PROVE IInv'
    <2>1. TypeOK'
        BY <1>6 DEF DeleteOrder, TypeOK
    <2> QED BY <1>6, <2>1, KeepsRoutes DEF DeleteOrder
<1>7. CASE NextDay
    <2>1. TypeOK'
        BY <1>7, LastDayAssumption DEF NextDay, TypeOK
    <2> QED BY <1>7, <2>1, KeepsRoutes DEF NextDay
<1>8. CASE UNCHANGED vars
    BY <1>8 DEF vars, TypeOK, RoutedHasRoute, Routed
<1> QED BY <1>1, <1>2, <1>3, <1>4, <1>5, <1>6, <1>7, <1>8 DEF Next

\* The type invariant, with the route every routed item keeps.
THEOREM TypeCorrect == Spec => []TypeOK
<1>1. Spec => []IInv
    BY InitIInv, NextIInv, PTL DEF Spec
<1>2. IInv => TypeOK
    BY DEF IInv
<1> QED BY <1>1, <1>2, PTL

-----------------------------------------------------------------------------
\* A route with an order that must leave today is never held back, however
\* thin it is and whatever the room in the warehouse.
LEMMA UrgentIsSent ==
    ASSUME IInv, NEW o \in Routed, status[o] # "absent", Slack(o) <= 0
    PROVE  /\ item[o].on \in Vehicles
           /\ item[o].on \in Listed(TRUE) \ Hold(TRUE)
<1> DEFINE v == item[o].on
<1>1. o \in Orders /\ v \in Vehicles /\ route[v] # "none"
    BY DEF Routed, IInv, RoutedHasRoute
<1>2. Slack(o) \in Slacks(v)
    BY <1>1 DEF Slacks, On, Living
<1>3. Send(v)
    BY <1>2 DEF Send
<1> QED BY <1>1, <1>3 DEF Hold, Waiting, Listed

LEMMA UrgentStep ==
    ASSUME IInv, ApprovePlan, NEW o \in Routed, status[o] = "planned", Slack(o) <= 0
    PROVE  status'[o] = "approved" \/ route[item[o].on] = "approved"
<1> SUFFICES ASSUME route[item[o].on] # "approved" PROVE status'[o] = "approved"
    OBVIOUS
<1>1. item[o].on \in Vehicles /\ item[o].on \in Sent
    BY UrgentIsSent DEF Sent
<1>2. o \in Orders /\ o \in InStatus(UNION {On(v) : v \in Sent}, "planned")
    BY <1>1 DEF On, Routed, InStatus
<1> QED BY <1>2 DEF ApprovePlan, SetStatus

\* Approving a plan takes every order along that must leave today or is late.
THEOREM UrgentAlwaysLeaves == Spec => UrgentLeaves
<1>1. IInv /\ [Next]_vars =>
        [ApprovePlan =>
            \A o \in Routed : status[o] = "planned" /\ Slack(o) <= 0
                => status'[o] = "approved" \/ route[item[o].on] = "approved"]_vars
    BY UrgentStep
<1> QED BY InitIInv, NextIInv, <1>1, PTL DEF Spec, UrgentLeaves
-----------------------------------------------------------------------------
(* Weights. *)

Kgs == [o \in Orders |-> Kg(o)]

LEMMA KgType == ASSUME TypeOK, NEW o \in Orders PROVE Kg(o) \in Nat
BY ItemType DEF Kg, Item

LEMMA FiniteOrders == ASSUME NEW S \in SUBSET Orders PROVE IsFiniteSet(S)
BY OrdersAssumption, FS_Subset

LEMMA WeightType ==
    ASSUME TypeOK, NEW S \in SUBSET Orders
    PROVE  Weight(S) \in Nat
<1>1. IsFiniteSet(S) /\ \A o \in S : Kgs[o] \in Nat
    BY KgType, FiniteOrders DEF Kgs
<1>2. SumFunctionOnSet(Kgs, S) \in Nat
    BY <1>1, SumMonotonic
<1> QED BY <1>2 DEF Weight, Kgs

LEMMA WeightGrows ==
    ASSUME TypeOK, NEW T \in SUBSET Orders, NEW S \in SUBSET T
    PROVE  Weight(S) <= Weight(T)
<1>1. IsFiniteSet(T) /\ \A o \in T : Kgs[o] \in Nat
    BY KgType, FiniteOrders DEF Kgs
<1>2. SumFunctionOnSet(Kgs, S) <= SumFunctionOnSet(Kgs, T)
    BY <1>1, SumMonotonic
<1> QED BY <1>2 DEF Weight, Kgs

LEMMA WeightAddsUp ==
    ASSUME TypeOK, NEW S \in SUBSET Orders, NEW T \in SUBSET Orders, S \cap T = {}
    PROVE  Weight(S \cup T) = Weight(S) + Weight(T)
<1>1. IsFiniteSet(S) /\ IsFiniteSet(T) /\ \A o \in S \cup T : Kgs[o] \in Int
    BY KgType, FiniteOrders DEF Kgs
<1>2. SumFunctionOnSet(Kgs, S \cup T) = SumFunctionOnSet(Kgs, S) + SumFunctionOnSet(Kgs, T)
    BY <1>1, SumUnion
<1> QED BY <1>2 DEF Weight, Kgs

-----------------------------------------------------------------------------
(* Sending routes for want of room. *)

\* What the vehicles of A carry.
Cargo(A) == UNION {On(v) : v \in A}
Urgency == {p \in Vehicles \X Vehicles : MoreUrgent(p[1], p[2])}

LEMMA SlacksType ==
    ASSUME TypeOK, NEW v \in Vehicles
    PROVE  /\ IsFiniteSet(Slacks(v)) /\ Slacks(v) \subseteq Int
           /\ Slacks(v) # {} => Min(Slacks(v)) \in Int
<1> DEFINE S == On(v) \cap Living
           f == [o \in S |-> Slack(o)]
<1>1. S \in SUBSET Orders
    BY DEF On
<1>2. \A o \in Orders : Slack(o) \in Int
    BY ItemType DEF Slack, Item, TypeOK
<1>3. Slacks(v) \subseteq Int
    BY <1>1, <1>2 DEF Slacks
<1>4. IsFiniteSet(Slacks(v))
    <2>1. f \in Surjection(S, Slacks(v))
        BY DEF Surjection, Slacks
    <2> QED BY <1>1, <2>1, FiniteOrders, FS_Surjection
<1>5. ASSUME Slacks(v) # {} PROVE Min(Slacks(v)) \in Int
    BY <1>3, <1>4, <1>5, MinIsLeast
<1> QED BY <1>3, <1>4, <1>5
\* Routes of less slack first, those without any last, as list_routes_for_run
\* has them among equals.
LEMMA UrgencyStrict ==
    ASSUME TypeOK, NEW S \in SUBSET Vehicles
    PROVE  IsStrictOrder(Urgency, S)
<1> DEFINE has(v) == Slacks(v) # {}
           least(v) == Min(Slacks(v))
           more(v, w) == \/ has(v) /\ ~has(w)
                         \/ has(v) /\ has(w) /\ least(v) < least(w)
                         \/ /\ (~has(v) /\ ~has(w)) \/ (has(v) /\ has(w) /\ least(v) = least(w))
                            /\ v < w
<1>1. \A v, w \in S : <<v, w>> \in Urgency <=> more(v, w)
    BY DEF Urgency, MoreUrgent
<1>2. \A v \in S : v \in Int /\ (has(v) => least(v) \in Int)
    <2>1. \A v \in Vehicles : v \in Int
        BY FleetAssumption DEF Vehicles
    <2> QED BY <2>1, SlacksType
<1> HIDE DEF has, least
<1>3. \A v \in S : ~more(v, v)
    BY <1>2
<1>4. \A v, w \in S : v # w => more(v, w) \/ more(w, v)
    BY <1>2
<1>5. \A u, v, w \in S : more(u, v) /\ more(v, w) => more(u, w)
    BY <1>2
<1> HIDE DEF more
<1> QED BY <1>1, <1>3, <1>4, <1>5 DEF IsStrictOrder

\* What stays if B of the waiting routes A leave is what stayed and their rest.
LEMMA CargoSplits ==
    ASSUME TypeOK, NEW A \in SUBSET Vehicles, NEW B \in SUBSET A
    PROVE  /\ Cargo(A) \in SUBSET Orders /\ Cargo(B) \in SUBSET Orders
           /\ Weight(Staying \cup Cargo(A)) = Weight(Staying \cup Cargo(A \ B)) + Weight(Cargo(B))
<1>1. \A v \in Vehicles : v \in Int /\ v # Unassigned
    BY FleetAssumption DEF Vehicles, Unassigned
<1>2. /\ Cargo(A) \in SUBSET Orders /\ Cargo(B) \in SUBSET Orders
      /\ Staying \cup Cargo(A \ B) \in SUBSET Orders
    BY DEF Cargo, On, Staying
<1>3. (Staying \cup Cargo(A \ B)) \cap Cargo(B) = {}
    BY <1>1 DEF Cargo, On, Staying
<1>4. Staying \cup Cargo(A) = (Staying \cup Cargo(A \ B)) \cup Cargo(B)
    BY DEF Cargo
<1> QED BY <1>2, <1>3, <1>4, WeightAddsUp

LEMMA FlippedIsTaken ==
    ASSUME TypeOK, StockCapacity > 0, NEW all \in BOOLEAN
    PROVE  LET S == Waiting(all)
               m == [A \in SUBSET S |-> Weight(Cargo(A))]
               need == Weight(Staying \cup Cargo(S)) - StockCapacity
           IN  /\ IsFiniteSet(S) /\ S \in SUBSET Vehicles /\ need \in Int
               /\ m \in [SUBSET S -> Int]
               /\ \A A, B \in SUBSET S : A \subseteq B => m[A] <= m[B]
               /\ Flipped(all) = Taken(S, Urgency, m, need)
<1> DEFINE S == Waiting(all)
           m == [A \in SUBSET S |-> Weight(Cargo(A))]
           total == Weight(Staying \cup Cargo(S))
           need == total - StockCapacity
           before(v) == {w \in S : <<w, v>> \in Urgency}
<1>1. S \in SUBSET Vehicles
    BY DEF Waiting, Listed
<1>2. IsFiniteSet(S)
    <2>1. IsFiniteSet(Vehicles)
        BY FleetAssumption, FS_Interval DEF Vehicles
    <2> QED BY <1>1, <2>1, FS_Subset
<1>3. \A A \in SUBSET S : Cargo(A) \in SUBSET Orders /\ Weight(Cargo(A)) \in Nat
    <2>1. \A A : Cargo(A) \in SUBSET Orders
        BY DEF Cargo, On
    <2> QED BY <2>1, WeightType
<1>4. total \in Nat /\ need \in Int
    <2>1. Staying \cup Cargo(S) \in SUBSET Orders
        BY <1>3 DEF Staying
    <2> QED BY <2>1, WeightType, StockAssumption
<1>5. \A A, B \in SUBSET S : A \subseteq B => m[A] <= m[B]
    <2> SUFFICES ASSUME NEW A \in SUBSET S, NEW B \in SUBSET S, A \subseteq B
                 PROVE  Weight(Cargo(A)) <= Weight(Cargo(B))
        OBVIOUS
    <2>1. Cargo(A) \in SUBSET Cargo(B)
        BY DEF Cargo
    <2> QED BY <1>3, <2>1, WeightGrows
<1>6. ASSUME NEW v \in S
      PROVE  Remaining(all, v) > StockCapacity <=> m[before(v)] < need
    <2>1. {w \in S : ~MoreUrgent(w, v)} = S \ before(v)
        BY <1>1 DEF Urgency
    <2>2. Remaining(all, v) = Weight(Staying \cup Cargo(S \ before(v)))
        BY <2>1 DEF Remaining, Cargo
    <2>3. before(v) \in SUBSET S
        OBVIOUS
    <2>4. total = Weight(Staying \cup Cargo(S \ before(v))) + Weight(Cargo(before(v)))
        <3> HIDE DEF S
        <3> QED BY <1>1, <2>3, CargoSplits
    <2>5. /\ Weight(Staying \cup Cargo(S \ before(v))) \in Nat
          /\ Weight(Cargo(before(v))) \in Nat
        <3>1. Staying \cup Cargo(S \ before(v)) \in SUBSET Orders
            BY DEF Staying, Cargo, On
        <3> QED BY <1>3, <2>3, <3>1, WeightType
    <2>6. m[before(v)] = Weight(Cargo(before(v)))
        BY <2>3
    <2> HIDE DEF m, before, S, total
    <2> QED BY <1>4, <2>2, <2>4, <2>5, <2>6, StockAssumption
<1>7. Flipped(all) = Taken(S, Urgency, m, need)
    <2>1. Flipped(all) = {v \in S : Remaining(all, v) > StockCapacity}
        BY DEF Flipped
    <2> HIDE DEF m, S, total, need
    <2> QED BY <1>6, <2>1 DEF Taken
<1>8. m \in [SUBSET S -> Int]
    BY <1>3
<1> QED BY <1>1, <1>2, <1>4, <1>5, <1>7, <1>8

LEMMA FlippingRelieves ==
    ASSUME TypeOK, StockCapacity > 0, NEW all \in BOOLEAN
    PROVE  /\ \/ Weight(Staying \cup Held(all)) <= StockCapacity
              \/ Hold(all) = {}
           /\ Flipped(all) # {} =>
                 \E last \in Flipped(all) :
                     Weight(Staying \cup Held(all) \cup On(last)) > StockCapacity
           /\ \A v \in Flipped(all), w \in Hold(all) : ~MoreUrgent(w, v)
<1> DEFINE S == Waiting(all)
           F == Flipped(all)
           m == [A \in SUBSET S |-> Weight(Cargo(A))]
           total == Weight(Staying \cup Cargo(S))
           need == total - StockCapacity
<1>1. /\ IsFiniteSet(S) /\ S \in SUBSET Vehicles /\ need \in Int
      /\ m \in [SUBSET S -> Int]
      /\ \A A, B \in SUBSET S : A \subseteq B => m[A] <= m[B]
      /\ F = Taken(S, Urgency, m, need)
    BY FlippedIsTaken
<1>2. F \in SUBSET S /\ Hold(all) = S \ F
    BY DEF Flipped, Hold
<1>3. Held(all) = Cargo(S \ F)
    <2>1. Hold(all) \in SUBSET Vehicles
        BY <1>1, <1>2
    <2>2. Held(all) = Cargo(Hold(all))
        BY <2>1 DEF Held, Cargo, Routed, On
    <2> QED BY <1>2, <2>2
<1>4. \A A \in SUBSET S : m[A] = Weight(Cargo(A))
    OBVIOUS
<1>5. total \in Nat
    BY WeightType DEF Staying, Cargo, On
<1> HIDE DEF m, S, F
<1>6. /\ \A x \in F, y \in S : <<y, x>> \in Urgency => y \in F
      /\ F = S \/ m[F] >= need
      /\ F # {} => \E x \in F : m[F \ {x}] < need
    <2> HIDE DEF need
    <2>1. IsStrictOrder(Urgency, S)
        BY <1>1, UrgencyStrict
    <2> QED BY <1>1, <2>1, TakenIsEnough
<1>7. \A B \in SUBSET S :
        /\ total = Weight(Staying \cup Cargo(S \ B)) + Weight(Cargo(B))
        /\ Weight(Staying \cup Cargo(S \ B)) \in Nat /\ Weight(Cargo(B)) \in Nat
    <2> SUFFICES ASSUME NEW B \in SUBSET S
                 PROVE  /\ total = Weight(Staying \cup Cargo(S \ B)) + Weight(Cargo(B))
                        /\ Weight(Staying \cup Cargo(S \ B)) \in Nat /\ Weight(Cargo(B)) \in Nat
        OBVIOUS
    <2>1. Staying \cup Cargo(S \ B) \in SUBSET Orders /\ Cargo(B) \in SUBSET Orders
        BY DEF Staying, Cargo, On
    <2> QED BY <1>1, <2>1, CargoSplits, WeightType
<1>8. Weight(Staying \cup Held(all)) <= StockCapacity \/ Hold(all) = {}
    <2> SUFFICES ASSUME F # S PROVE Weight(Staying \cup Cargo(S \ F)) <= StockCapacity
        BY <1>2, <1>3
    <2>1. Weight(Cargo(F)) >= total - StockCapacity
        BY <1>2, <1>4, <1>6
    <2>2. /\ total = Weight(Staying \cup Cargo(S \ F)) + Weight(Cargo(F))
          /\ Weight(Staying \cup Cargo(S \ F)) \in Nat /\ Weight(Cargo(F)) \in Nat
        BY <1>2, <1>7
    <2> HIDE DEF total
    <2> QED BY <1>5, <2>1, <2>2, StockAssumption
<1>9. ASSUME F # {}
      PROVE  \E last \in F : Weight(Staying \cup Held(all) \cup On(last)) > StockCapacity
    <2>1. PICK x \in F : m[F \ {x}] < need
        BY <1>6, <1>9
    <2>2. F \ {x} \in SUBSET S /\ S \ (F \ {x}) = (S \ F) \cup {x}
        BY <1>2
    <2>3. Cargo((S \ F) \cup {x}) = Cargo(S \ F) \cup On(x)
        BY DEF Cargo
    <2>4. Staying \cup Held(all) \cup On(x) = Staying \cup Cargo(S \ (F \ {x}))
        BY <1>3, <2>2, <2>3
    <2>5. Weight(Cargo(F \ {x})) < total - StockCapacity
        BY <1>4, <2>1, <2>2
    <2>6. Weight(Staying \cup Cargo(S \ (F \ {x}))) > StockCapacity
        <3>1. /\ total = Weight(Staying \cup Cargo(S \ (F \ {x}))) + Weight(Cargo(F \ {x}))
              /\ Weight(Staying \cup Cargo(S \ (F \ {x}))) \in Nat
              /\ Weight(Cargo(F \ {x})) \in Nat
            BY <1>7, <2>2
        <3> HIDE DEF total
        <3> QED BY <1>5, <2>5, <3>1, StockAssumption
    <2> QED BY <2>4, <2>6
<1>10. \A v \in F, w \in Hold(all) : ~MoreUrgent(w, v)
    BY <1>1, <1>2, <1>6 DEF Urgency
<1> QED BY <1>8, <1>9, <1>10 DEF F

\* Whatever the plan, sending for want of room makes room, sends no route that
\* could have stayed and keeps none that is more urgent than one it sends.
THEOREM OverflowAlwaysRelieved == Spec => []OverflowRelieved
<1>1. TypeOK => OverflowRelieved
    BY FlippingRelieves DEF OverflowRelieved
<1> QED BY TypeCorrect, <1>1, PTL
-----------------------------------------------------------------------------
(* The page and approving. *)

LEMMA CargoType ==
    ASSUME NEW A
    PROVE  Cargo(A) \in SUBSET Orders /\ Staying \cup Cargo(A) \in SUBSET Orders
BY DEF Cargo, On, Staying

\* The more routes the view lists, the more of the rest must go.
LEMMA ListingMoreSendsMore ==
    ASSUME TypeOK, NEW v \in Flipped(FALSE)
    PROVE  v \in Flipped(TRUE)
<1>1. v \in Waiting(FALSE) /\ StockCapacity > 0 /\ Remaining(FALSE, v) > StockCapacity
    BY DEF Flipped
<1>2. Waiting(FALSE) \subseteq Waiting(TRUE)
    BY DEF Waiting, Listed
<1> DEFINE A(all) == {w \in Waiting(all) : ~MoreUrgent(w, v)}
<1>3. \A all : Remaining(all, v) = Weight(Staying \cup Cargo(A(all)))
    BY DEF Remaining, Cargo
<1>4. Staying \cup Cargo(A(FALSE)) \in SUBSET (Staying \cup Cargo(A(TRUE)))
    BY <1>2 DEF Cargo
<1> HIDE DEF A
<1>5. /\ Remaining(FALSE, v) <= Remaining(TRUE, v)
      /\ Remaining(FALSE, v) \in Nat /\ Remaining(TRUE, v) \in Nat
    BY <1>3, <1>4, CargoType, WeightGrows, WeightType
<1>6. Remaining(TRUE, v) > StockCapacity
    <2> DEFINE r == Remaining(FALSE, v)
               s == Remaining(TRUE, v)
    <2>1. r > StockCapacity /\ r <= s /\ r \in Nat /\ s \in Nat
        BY <1>1, <1>5
    <2> HIDE DEF r, s
    <2>2. s > StockCapacity
        BY <2>1, StockAssumption
    <2> QED BY <2>2 DEF s
<1> QED BY <1>1, <1>2, <1>6 DEF Flipped

LEMMA ShownStep ==
    ASSUME TypeOK, ApprovePlan,
           NEW v \in Listed(FALSE) \ Hold(FALSE), route[v] = "proposed"
    PROVE  route'[v] = "approved"
<1>1. v \in Vehicles /\ v \in Listed(TRUE)
    BY DEF Listed
<1>2. v \notin Hold(TRUE)
    BY ListingMoreSendsMore DEF Hold, Waiting
<1> QED BY <1>1, <1>2 DEF ApprovePlan, Sent

\* What the page says will be sent is sent when the plan is approved, though
\* approving also counts the completed routes that the page hides.
THEOREM ShownIsAlwaysSent == Spec => ShownIsSent
<1>1. TypeOK /\ [Next]_vars =>
        [ApprovePlan =>
            \A v \in Listed(FALSE) \ Hold(FALSE) :
                route[v] = "proposed" => route'[v] = "approved"]_vars
    BY ShownStep
<1> QED BY TypeCorrect, <1>1, PTL DEF Spec, ShownIsSent

-----------------------------------------------------------------------------
(* The books. *)

\* Orders of a completed route are delivered, if they are not deleted.
CompletedDelivered ==
    \A o \in Routed : route[item[o].on] = "completed" => status[o] \in {"absent", "delivered"}

LEMMA NextCompletedDelivered ==
    TypeOK /\ CompletedDelivered /\ [Next]_vars => CompletedDelivered'
<1> SUFFICES ASSUME TypeOK, CompletedDelivered, [Next]_vars,
                    NEW o \in Routed', route'[item'[o].on] = "completed"
             PROVE  status'[o] \in {"absent", "delivered"}
    BY DEF CompletedDelivered
<1>1. item' = item /\ o \in Routed /\ o \in Orders /\ item[o].on \in Vehicles
    BY DEF Next, ApprovePlan, ApproveRoute, DepartRoute, CompleteRoute, SaveVehicle,
           DeleteOrder, NextDay, vars, Routed
<1>2. CASE route[item[o].on] = "completed"
    <2>1. status[o] \in {"absent", "delivered"}
        BY <1>1, <1>2 DEF CompletedDelivered
    <2> QED BY <1>1, <2>1 DEF Next, ApprovePlan, ApproveRoute, DepartRoute, CompleteRoute,
                SaveVehicle, DeleteOrder, NextDay, vars, SetStatus, InStatus, Living, TypeOK
<1>3. CASE route[item[o].on] # "completed"
    <2>1. PICK v \in Vehicles : CompleteRoute(v) /\ v = item[o].on
        BY <1>1, <1>3 DEF Next, ApprovePlan, ApproveRoute, DepartRoute, CompleteRoute,
              SaveVehicle, DeleteOrder, NextDay, vars, TypeOK
    <2> QED BY <1>1, <2>1 DEF CompleteRoute, SetStatus, On, Living
<1> QED BY <1>2, <1>3

\* The rows of the vehicles add up to what they carry together.
LEMMA CargoWeight ==
    ASSUME TypeOK, NEW A \in SUBSET Vehicles, NEW f, \A v \in A : f[v] = Weight(On(v))
    PROVE  SumFunctionOnSet(f, A) = Weight(Cargo(A))
<1> DEFINE Bad == {B \in SUBSET A : SumFunctionOnSet(f, B) # Weight(Cargo(B))}
<1> SUFFICES ASSUME Bad # {} PROVE FALSE
    OBVIOUS
<1>0. IsFiniteSet(A)
    <2>1. IsFiniteSet(Vehicles)
        BY FleetAssumption, FS_Interval DEF Vehicles
    <2> QED BY <2>1, FS_Subset
<1>1. Bad \in SUBSET SUBSET A
    OBVIOUS
<1>2. PICK B \in Bad : \A C \in Bad : C \subseteq B => C = B
    <2> HIDE DEF Bad
    <2> QED BY <1>0, <1>1, SmallestCounterexample
<1>3. B # {}
    <2>1. Cargo({}) = {}
        BY DEF Cargo
    <2>2. Weight({}) = 0 /\ SumFunctionOnSet(f, {}) = 0
        BY SumEmpty DEF Weight
    <2> QED BY <1>2, <2>1, <2>2
<1>4. PICK v \in B : TRUE
    BY <1>3
<1>5. SumFunctionOnSet(f, B \ {v}) = Weight(Cargo(B \ {v}))
    BY <1>2, <1>4
<1>6. SumFunctionOnSet(f, B) = f[v] + SumFunctionOnSet(f, B \ {v})
    <2>1. IsFiniteSet(B)
        BY <1>0, <1>2, FS_Subset
    <2>2. \A w \in B : f[w] \in Int
        <3>1. \A w \in A : On(w) \in SUBSET Orders
            BY DEF On
        <3>2. \A w \in A : Weight(On(w)) \in Nat
            BY <3>1, WeightType
        <3> QED BY <1>2, <3>2
    <2> QED BY <1>4, <2>1, <2>2, SumRemove
<1>7. Weight(Cargo(B)) = Weight(On(v)) + Weight(Cargo(B \ {v}))
    <2>1. Cargo(B) = On(v) \cup Cargo(B \ {v}) /\ On(v) \cap Cargo(B \ {v}) = {}
        BY <1>4 DEF Cargo, On
    <2>2. On(v) \in SUBSET Orders /\ Cargo(B \ {v}) \in SUBSET Orders
        BY DEF Cargo, On
    <2> QED BY <2>1, <2>2, WeightAddsUp
<1> QED BY <1>2, <1>4, <1>5, <1>6, <1>7

\* Each item is in one of three classes.
LEMMA Classes ==
    ASSUME TypeOK
    PROVE  /\ Routed \cup Staying \cup Attention = Orders
           /\ Routed \cap Staying = {} /\ (Routed \cup Staying) \cap Attention = {}
<1>1. \A v \in Vehicles : v # Unassigned /\ v # Unrouted
    BY FleetAssumption DEF Vehicles, Unassigned, Unrouted
<1>2. \A o \in Orders : item[o].on \in Vehicles \cup {Unassigned, Unrouted}
    BY ItemType DEF Item
<1>3. Unassigned # Unrouted
    BY DEF Unassigned, Unrouted
<1> QED BY <1>1, <1>2, <1>3 DEF Routed, Staying, Attention

LEMMA CountedOnce ==
    ASSUME IInv
    PROVE  /\ OrdersInPlanning = Cardinality(Orders)
           /\ Kpi.staying = Cardinality(WarehouseSheet)
           /\ Kpi.attention = Cardinality(AttentionSheet)
           /\ RoutedSheet \cup WarehouseSheet \cup AttentionSheet = Orders
           /\ Cardinality(RoutedSheet \ WarehouseSheet) = Kpi.riding
           /\ \A o \in RoutedSheet : o \in WarehouseSheet <=> RoutesSheet[item[o].on] = "hold"
<1> DEFINE R == Routed \ Held(TRUE)
           S == Staying \cup Held(TRUE)
<1>1. TypeOK
    BY DEF IInv
<1>2. Held(TRUE) \subseteq Routed
    BY DEF Held
<1>3. /\ R \cup S \cup Attention = Orders /\ R \cap S = {} /\ (R \cup S) \cap Attention = {}
      /\ Routed \ S = R
    BY <1>1, <1>2, Classes
<1>4. /\ Kpi.riding = Cardinality(R) /\ Kpi.staying = Cardinality(S)
      /\ Kpi.attention = Cardinality(Attention)
    BY DEF Kpi, Summary
<1>5. IsFiniteSet(R) /\ IsFiniteSet(S) /\ IsFiniteSet(Attention) /\ IsFiniteSet(R \cup S)
    BY <1>3, FiniteOrders
<1> HIDE DEF R, S
<1>6. Cardinality(R) + Cardinality(S) + Cardinality(Attention) = Cardinality(Orders)
    <2>1. Cardinality({}) = 0
        BY FS_EmptySet
    <2>2. /\ Cardinality(R) \in Nat /\ Cardinality(S) \in Nat /\ Cardinality(Attention) \in Nat
          /\ Cardinality(R \cup S) \in Nat
        BY <1>5, FS_CardinalityType
    <2>3. Cardinality(R \cup S) = Cardinality(R) + Cardinality(S) - Cardinality(R \cap S)
        BY <1>5, FS_Union
    <2>4. Cardinality((R \cup S) \cup Attention)
             = Cardinality(R \cup S) + Cardinality(Attention) - Cardinality((R \cup S) \cap Attention)
        BY <1>5, FS_Union
    <2>5. Cardinality(R \cap S) = 0 /\ Cardinality((R \cup S) \cap Attention) = 0
        BY <1>3, <2>1
    <2>6. Cardinality((R \cup S) \cup Attention) = Cardinality(Orders)
        BY <1>3
    <2> QED BY <2>2, <2>3, <2>4, <2>5, <2>6
<1>7. ASSUME NEW o \in Routed
      PROVE  o \in WarehouseSheet <=> RoutesSheet[item[o].on] = "hold"
    <2>1. item[o].on \in Listed(TRUE)
        BY DEF IInv, RoutedHasRoute, Listed, Routed
    <2>2. RoutesSheet[item[o].on] = "hold" <=> item[o].on \in Hold(TRUE)
        BY <2>1 DEF RoutesSheet
    <2>3. o \in WarehouseSheet <=> o \in Held(TRUE)
        BY <1>1, Classes DEF WarehouseSheet
    <2> QED BY <2>2, <2>3 DEF Held
<1> QED BY <1>3, <1>4, <1>6, <1>7 DEF OrdersInPlanning, WarehouseSheet, AttentionSheet,
                                      RoutedSheet, R, S

LEMMA WeighedOnce ==
    ASSUME IInv
    PROVE  SumFunction(FleetSheet) + Weight(Staying) + Weight(Attention) = Weight(Orders)
<1> DEFINE A == Listed(TRUE)
<1>1. TypeOK /\ A \in SUBSET Vehicles
    BY DEF IInv, Listed
<1>2. DOMAIN FleetSheet = A /\ \A v \in A : FleetSheet[v] = Weight(On(v))
    BY DEF FleetSheet, Utilization
<1>3. Cargo(A) = Routed
    BY DEF IInv, RoutedHasRoute, Cargo, Listed, Routed, On
<1>4. SumFunction(FleetSheet) = Weight(Routed)
    <2> HIDE DEF A
    <2>1. SumFunctionOnSet(FleetSheet, A) = Weight(Cargo(A))
        BY <1>1, <1>2, CargoWeight
    <2> QED BY <1>2, <1>3, <2>1 DEF SumFunction
<1>5. /\ Weight(Routed \cup Staying) = Weight(Routed) + Weight(Staying)
      /\ Weight((Routed \cup Staying) \cup Attention)
            = Weight(Routed \cup Staying) + Weight(Attention)
    <2>1. Routed \in SUBSET Orders /\ Staying \in SUBSET Orders /\ Attention \in SUBSET Orders
          /\ Routed \cup Staying \in SUBSET Orders
        BY DEF Routed, Staying, Attention
    <2> QED BY <1>1, <2>1, Classes, WeightAddsUp
<1>6. Weight(Orders) = Weight(Routed) + Weight(Staying) + Weight(Attention)
    BY <1>1, <1>5, Classes
<1> QED BY <1>4, <1>6

LEMMA ReportsAgree ==
    ASSUME IInv
    PROVE  /\ Waiting(TRUE) \subseteq ReportWarned
           /\ {o \in Orders \ Staying : status[o] # "absent" /\ item[o].located}
                 = Markers \cup (Routed \ MapWarned)
           /\ ReportWarned \cap Listed(FALSE) = {v \in Vehicles : "thin" \in MapAlerts(v)}
<1>1. ReportWarned = {v \in Listed(TRUE) : Thin(v)}
    BY DEF ReportWarned, Utilization, Thin
<1>2. Waiting(TRUE) \subseteq ReportWarned
    BY <1>1 DEF Waiting, Send
<1>3. {o \in Orders \ Staying : status[o] # "absent" /\ item[o].located}
         = Markers \cup (Routed \ MapWarned)
    <2>1. Routed \ MapWarned = {o \in Routed : status[o] # "absent" /\ item[o].located}
        BY DEF MapWarned, Drops, Routed, On, Living
    <2>2. Markers = {o \in Attention : status[o] # "absent" /\ item[o].located}
        BY DEF Markers, Attention, Living
    <2> QED BY <2>1, <2>2, Classes DEF IInv
<1>4. \A v \in Vehicles : "thin" \in MapAlerts(v) <=> v \in Listed(FALSE) /\ Thin(v)
    BY DEF MapAlerts
<1>5. Listed(FALSE) \subseteq Listed(TRUE) /\ Listed(FALSE) \subseteq Vehicles
    BY DEF Listed
<1> QED BY <1>1, <1>2, <1>3, <1>4, <1>5

LEMMA StockAgrees ==
    ASSUME IInv, CompletedDelivered
    PROVE  /\ \A o \in Living : status[o] # "delivered" =>
                 (o \in Stock) # (item[o].on \in InTransit)
           /\ Dashboard.open - Occupancy.orders =
                 Cardinality({o \in Living : item[o].on \in Dashboard.road
                                             /\ status[o] # "delivered"})
<1> DEFINE Open == {o \in Orders : status[o] \in {"new", "planned", "approved"}}
           Road == {o \in Living : item[o].on \in InTransit /\ status[o] # "delivered"}
<1>1. \A o \in Orders : status[o] \in {"absent", "new", "planned", "approved", "delivered"}
    BY DEF IInv, TypeOK
<1>2. InTransit = {v \in Vehicles : route[v] = "in_transit"}
    BY DEF InTransit, Listed
<1>3. Open = {o \in Living : status[o] # "delivered"}
    BY <1>1 DEF Living
<1>4. ASSUME NEW o \in Open
      PROVE  o \in Stock <=> item[o].on \notin InTransit
    <2>1. o \in Stock <=> ~\E v \in Vehicles : item[o].on = v /\ route[v] \in {"in_transit", "completed"}
        BY DEF Stock, On
    <2>2. item[o].on \in Vehicles => route[item[o].on] # "completed"
        BY DEF CompletedDelivered, Routed
    <2> QED BY <1>2, <2>1, <2>2
<1>5. Stock \in SUBSET Open
    BY DEF Stock
<1>6. Open \ Stock = Road
    BY <1>3, <1>4
<1>7. Cardinality(Open) - Cardinality(Stock) = Cardinality(Road)
    <2>1. IsFiniteSet(Open) /\ IsFiniteSet(Stock)
        BY <1>5, FiniteOrders
    <2>2. Open \cap Stock = Stock
        BY <1>5
    <2> HIDE DEF Open, Road
    <2>3. Cardinality(Open \ Stock) = Cardinality(Open) - Cardinality(Stock)
        BY <2>1, <2>2, FS_Difference
    <2> QED BY <1>6, <2>3
<1>8. /\ Dashboard.open = Cardinality(Open) /\ Dashboard.road = InTransit
      /\ Occupancy.orders = Cardinality(Stock)
    BY DEF Dashboard, Occupancy
<1>9. \A o \in Living : status[o] # "delivered" =>
         (o \in Stock) # (item[o].on \in InTransit)
    <2> SUFFICES ASSUME NEW o \in Open PROVE (o \in Stock) # (item[o].on \in InTransit)
        BY <1>3
    <2> QED BY <1>4
<1> QED BY <1>7, <1>8, <1>9

LEMMA RoomAgrees ==
    ASSUME TypeOK, Staying \cup Cargo(Waiting(FALSE)) \subseteq Stock, ~Occupancy.overflow
    PROVE  Flipped(FALSE) = {}
<1> SUFFICES ASSUME NEW v \in Flipped(FALSE) PROVE FALSE
    OBVIOUS
<1> DEFINE A == {w \in Waiting(FALSE) : ~MoreUrgent(w, v)}
<1>1. StockCapacity > 0 /\ Weight(Staying \cup Cargo(A)) > StockCapacity
    BY DEF Flipped, Remaining, Cargo
<1>2. ~(Weight(Stock) > StockCapacity)
    BY <1>1 DEF Occupancy
<1>3. Staying \cup Cargo(A) \in SUBSET Stock /\ Stock \in SUBSET Orders
    BY DEF Cargo, Stock
<1> HIDE DEF A
<1>4. /\ Weight(Staying \cup Cargo(A)) <= Weight(Stock)
      /\ Weight(Staying \cup Cargo(A)) \in Nat /\ Weight(Stock) \in Nat
    BY <1>3, WeightGrows, WeightType, CargoType
<1> QED BY <1>1, <1>2, <1>4, StockAssumption

LEMMA AlertsAgree ==
    ASSUME TypeOK, NEW v \in Vehicles, On(v) \cap Living \subseteq Stock, Occupancy.slack > 0
    PROVE  MapAlerts(v) \subseteq {"thin"}
<1> DEFINE all == {Slack(o) : o \in Stock}
<1>1. Soonest(Slacks(v)) \in Int /\ Soonest(Slacks(v)) > 0
    <2>1. CASE Slacks(v) = {}
        BY <2>1 DEF Soonest, NoSlack
    <2>2. CASE Slacks(v) # {}
        <3>1. Slacks(v) \in SUBSET all
            BY DEF Slacks
        <3>2. all \in SUBSET Int /\ IsFiniteSet(all)
            <4>1. Stock \in SUBSET Orders
                BY DEF Stock
            <4>2. \A o \in Orders : Slack(o) \in Int
                BY ItemType DEF Slack, Item, TypeOK
            <4>3. [o \in Stock |-> Slack(o)] \in Surjection(Stock, all)
                BY DEF Surjection
            <4> QED BY <4>1, <4>2, <4>3, FiniteOrders, FS_Surjection
        <3>3. Occupancy.slack = Min(all)
            BY <2>2, <3>1 DEF Occupancy, Soonest
        <3> HIDE DEF all
        <3>4. Min(Slacks(v)) \in Slacks(v)
            BY <2>2, SlacksType, MinIsLeast
        <3>5. Min(all) \in all /\ Min(all) <= Min(Slacks(v))
            BY <2>2, <3>1, <3>2, <3>4, MinIsLeast
        <3>6. Min(all) \in Int /\ Min(Slacks(v)) \in Int
            BY <3>1, <3>2, <3>4, <3>5
        <3> QED BY <2>2, <3>3, <3>5, <3>6 DEF Soonest
    <2> QED BY <2>1, <2>2
<1>2. ~(Soonest(Slacks(v)) < 0) /\ Soonest(Slacks(v)) # 0
    BY <1>1
<1> QED BY <1>2 DEF MapAlerts

\* Every report, board, map and sheet made from one plan agrees with the view,
\* whatever has happened to its routes, orders and vehicles since.
THEOREM BooksAlwaysAgree == Spec => []BooksAgree
<1>1. Init => CompletedDelivered
    BY DEF Init, CompletedDelivered, Routed, On
<1>2. Spec => []CompletedDelivered
    BY <1>1, NextCompletedDelivered, TypeCorrect, PTL DEF Spec
<1>3. IInv /\ CompletedDelivered => BooksAgree
    <2> SUFFICES ASSUME IInv, CompletedDelivered PROVE BooksAgree
        OBVIOUS
    <2>1. TypeOK
        BY DEF IInv
    <2>2. LET counted == Staying \cup UNION {On(v) : v \in Waiting(FALSE)}
          IN  counted \subseteq Stock /\ ~Occupancy.overflow => Flipped(FALSE) = {}
        BY <2>1, RoomAgrees DEF Cargo
    <2>3. \A v \in Vehicles : On(v) \cap Living \subseteq Stock /\ Occupancy.slack > 0
              => MapAlerts(v) \subseteq {"thin"}
        BY <2>1, AlertsAgree
    <2> QED BY <2>2, <2>3, CountedOnce, WeighedOnce, ReportsAgree, StockAgrees DEF BooksAgree
<1> QED BY InitIInv, NextIInv, <1>2, <1>3, PTL DEF Spec
=============================================================================
