---------------------------- MODULE QueueOrder ----------------------------
(***************************************************************************)
(* What the warehouse queue promises the people who work with it: orders   *)
(* wait one behind the other, each at most once; new ones go last, moving  *)
(* one swaps it with its neighbour, and taking some out leaves the others  *)
(* in their order.                                                         *)
(***************************************************************************)
CONSTANT Orders

VARIABLES
    listed,   \* the queued orders
    ahead,    \* pairs of them: the first leaves before the second
    held      \* those on hold

Init == listed = {} /\ ahead = {} /\ held = {}

\* Each before or behind each other one.
IsLine(R, S) ==
    /\ R \subseteq S \X S
    /\ \A o, p \in S : (<<o, p>> \in R) # (<<p, o>> \in R \/ o = p)
    /\ \A o, p, q \in S : <<o, p>> \in R /\ <<p, q>> \in R => <<o, q>> \in R

\* New orders go last, all of them waiting or all of them on hold.
Join(added, hold) ==
    /\ listed' = listed \cup added
    /\ \E among \in SUBSET (added \X added) :
          /\ IsLine(among, added)
          /\ ahead' = ahead \cup (listed \X added) \cup among
    /\ held' = IF hold THEN held \cup added ELSE held

TakeOut(S) ==
    /\ listed' = listed \ S
    /\ ahead' = ahead \cap (listed' \X listed')
    /\ held' = held \ S

\* o leaves right before p.
Neighbours(o, p) ==
    <<o, p>> \in ahead /\ ~ \E q \in listed : <<o, q>> \in ahead /\ <<q, p>> \in ahead

Swap(o, p) ==
    /\ Neighbours(o, p)
    /\ ahead' = (ahead \ {<<o, p>>}) \cup {<<p, o>>}
    /\ UNCHANGED <<listed, held>>

SetHeld(o, hold) ==
    /\ held' = IF hold THEN held \cup {o} ELSE held \ {o}
    /\ UNCHANGED <<listed, ahead>>

Next ==
    \/ \E added \in SUBSET (Orders \ listed), hold \in BOOLEAN : Join(added, hold)
    \/ \E S \in SUBSET listed : TakeOut(S)
    \/ \E o, p \in listed : Swap(o, p)
    \/ \E o \in listed, hold \in BOOLEAN : SetHeld(o, hold)

Spec == Init /\ [][Next]_<<listed, ahead, held>>
=============================================================================
