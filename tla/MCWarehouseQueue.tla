-------------------------- MODULE MCWarehouseQueue --------------------------
(* WarehouseQueue for TLC: orders and sessions are interchangeable.  The     *)
(* proposals to hold orders are looked at on the empty queue: the decision   *)
(* does not depend on it.                                                    *)
EXTENDS WarehouseQueue, Buffering, TLC

Symmetry == Permutations(Orders) \cup Permutations(Sessions)

MCInit == Init /\ proposal = NoProposal

MCNext ==
    \/ SerialNext /\ proposal = NoProposal /\ UNCHANGED proposal
    \/ Init /\ (Propose \/ Refresh) /\ UNCHANGED vars

MCSpec == MCInit /\ [][MCNext]_<<vars, proposal>>

MCStock == [pallets : 0..3, km : {0, 1, 4}, leave : 0..4]
MCDays == 0..3
MCTariffs == [cost_per_km : {1, 3}, storage : 0..3, ltl : {90, 100, 180},
              threshold : {0, 15, 50}, max_days : {-1, 0, 1, 3}]
=============================================================================
