----------------------------- MODULE MCPlanning -----------------------------
(* Planning for TLC: vehicles and users are interchangeable. *)
EXTENDS Planning, TLC

Symmetry == Permutations(Vehicles) \cup Permutations(Users)

\* A day on which all orders have been imported and only generating and
\* dispatching go on: the orders, the fleet and the queue are left alone.
ImportedInit ==
    /\ status = [o \in Orders |-> "new"]
    /\ queue = [o \in Orders |-> "none"]
    /\ plan = [r \in Runs |-> "none"]
    /\ riding = [r \in Runs |-> {}]
    /\ left = [r \in Runs |-> {}]
    /\ route = [r \in Runs |-> NoRoutes]
    /\ active = Vehicles
    /\ busy = {}
    /\ job = [u \in Users |-> Idle]

DispatchSpec == ImportedInit /\ [][Generate \/ Dispatch]_vars
=============================================================================
