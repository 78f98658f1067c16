----------------------------- MODULE Placement -----------------------------
(***************************************************************************)
(* What solving a plan promises, whatever the solvers are: it starts       *)
(* without an answer and then gives one, once.  An answer puts orders of   *)
(* the pool on vehicles, none beyond its capacity and none with more       *)
(* places to stop at than allowed, and every order it does not place is    *)
(* handed back: to the dispatcher, with a reason, or to the pool.          *)
(***************************************************************************)
EXTENDS Integers, FiniteSetsExt

CONSTANTS
    Orders, Vehicles,
    NoVehicle,           \* where an order rides that no vehicle takes
    Capacity,            \* of each vehicle
    Stops                \* at how many places a vehicle may stop

VARIABLES
    offered,    \* weight and place of the orders that may be placed
    carrier,    \* the answer: who carries an order; empty before there is one
    back        \* the answer: the orders handed back

WeightOn(c, v) ==
    SumFunctionOnSet([o \in DOMAIN offered |-> offered[o].weight], {o \in DOMAIN c : c[o] = v})
StopsOf(c, v) == {offered[o].place : o \in {p \in DOMAIN c : c[p] = v}}

IsAnswer(c, b) ==
    /\ c \in [DOMAIN offered -> Vehicles \cup {NoVehicle}]
    /\ b = {o \in DOMAIN c : c[o] = NoVehicle}
    /\ \A v \in Vehicles :
          /\ WeightOn(c, v) <= Capacity[v]
          /\ Cardinality(StopsOf(c, v)) <= Stops

Answered == DOMAIN carrier # {} \/ back # {}

Init == carrier = [o \in {} |-> NoVehicle] /\ back = {}

Answer ==
    /\ ~Answered
    /\ UNCHANGED offered
    /\ IsAnswer(carrier', back')

Spec == Init /\ [][Answer]_<<carrier, back>>
=============================================================================
