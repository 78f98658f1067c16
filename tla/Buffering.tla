------------------------------ MODULE Buffering -----------------------------
(***************************************************************************)
(* Ship an order now as part of a load, or keep it in the warehouse for    *)
(* some days and send it with a full truck?  The comparison of costs the   *)
(* warehouse page proposes holding orders by.                              *)
(*                                                                         *)
(* Costs are integers: hundredths of the product of a rate in cents and a  *)
(* factor in percent, so that no comparison is rounded.  (The code rounds  *)
(* only what it displays.)                                                 *)
(***************************************************************************)
EXTENDS Integers, FiniteSetsExt

CONSTANTS
    Stock,  \* orders as stored: pallets (0: none given), distance and last day to leave
    Days,   \* planning days
    Tariffs \* cost_per_km, storage, ltl and threshold (both in percent), max_days

\* Storage is not paid for by the warehouse; nothing else is needed of a tariff.
ASSUME BufferingAssumption ==
    /\ Stock \subseteq [pallets : Nat, km : Nat, leave : Int] /\ Days \subseteq Int
    /\ Tariffs \subseteq [cost_per_km : Int, storage : Nat, ltl : Int, threshold : Int,
                          max_days : Int]

VARIABLE proposal   \* a row of the proposals grid, and what it was made from

Least(a, b) == IF a < b THEN a ELSE b
Most(a, b) == IF a > b THEN a ELSE b

\* Faulty variant: an order without a pallet count takes no room.
CandidateWithoutPallets(order, day) ==
    [pallets |-> order.pallets, km |-> order.km, slack |-> order.leave - day]

\* list_buffer_candidates: an order takes the room of one pallet at least.
Candidate(order, day) ==
    [pallets |-> Most(order.pallets, 1), km |-> order.km, slack |-> order.leave - day]

FtlRoundtrip(c, r) == 2 * c.km * r.cost_per_km
LtlNow(c, r) == FtlRoundtrip(c, r) * r.ltl
Storage(c, r, days) == c.pallets * days * r.storage
BufferCost(c, r, days) == 100 * (Storage(c, r, days) + FtlRoundtrip(c, r))

\* Faulty variant: saving anything is enough.
CostsLess(c, r, cost) == cost <= LtlNow(c, r)

\* Saves at least the threshold's share of what shipping now costs.
SavesEnough(c, r, cost) == 100 * cost <= LtlNow(c, r) * (100 - r.threshold)

\* Faulty variant: the slack is not looked at.
ByTariff(c, r) == Most(r.max_days, 0)

LastDay(c, r) == IF c.slack <= 0 THEN 0 ELSE Least(Most(r.max_days, 0), c.slack)

\* decide_one: the fewest days that save enough; if none do, the costs of the
\* longest stay are reported with the advice to ship now.
DecideOne(c, r) ==
    LET last == LastDay(c, r)
        worth == {d \in 1..last : SavesEnough(c, r, BufferCost(c, r, d))}
    IN  IF worth # {}
        THEN [action |-> "buffer", days |-> Min(worth),
              cost |-> BufferCost(c, r, Min(worth))]
        ELSE [action |-> "ship_now", days |-> 0,
              cost |-> IF last > 0 THEN BufferCost(c, r, last) ELSE LtlNow(c, r)]

\* compute_buffer_proposals, of one order.
NoProposal == [decision |-> "none"]
Proposed(order, day, r) ==
    [order |-> order, day |-> day, tariff |-> r, decision |-> DecideOne(Candidate(order, day), r)]

\* The page asks for proposals, and asks again.
Propose ==
    /\ proposal = NoProposal
    /\ \E order \in Stock, day \in Days, r \in Tariffs : proposal' = Proposed(order, day, r)

Refresh == proposal # NoProposal /\ proposal' = NoProposal

Proposals == proposal = NoProposal /\ [][Propose \/ Refresh]_proposal

-----------------------------------------------------------------------------
(* Properties. *)

\* No order is held beyond its last day to leave, for a saving below the
\* threshold, or for more than a day: since every further day only costs
\* more, the first decides, and an order is shipped although it could wait
\* only if that day, and the cost reported with the advice, save too little.
BufferDecisionSound ==
    proposal # NoProposal =>
        LET order == proposal.order  r == proposal.tariff  d == proposal.decision
            can == order.leave > proposal.day /\ r.max_days >= 1
            oneDay == 100 * (Most(order.pallets, 1) * r.storage + 2 * order.km * r.cost_per_km)
            now == 2 * order.km * r.cost_per_km * r.ltl
            pays == 100 * oneDay <= now * (100 - r.threshold)
        IN  /\ d.action = "buffer" <=> can /\ pays
            /\ d.action = "buffer" => d.days = 1 /\ d.cost = oneDay
            /\ d.action = "ship_now" /\ can => 100 * d.cost > now * (100 - r.threshold)
=============================================================================
