--------------------------- MODULE MCSettingsPage ---------------------------
(* SettingsPage for TLC: a vehicle of each of two types and room for a third, *)
(* and two forms, one of which leaves the planning day empty.                 *)
(* The two tabs share no state, so each is explored by itself.                *)
EXTENDS SettingsPage

VARIABLE tab

MCSeed ==
    <<[type |-> 1, code |-> <<1, 1>>, active |-> TRUE, busy |-> FALSE],
      [type |-> 2, code |-> <<2, 1>>, active |-> TRUE, busy |-> FALSE]>>

MCInit == Init /\ tab \in {"fleet", "parameters"}

MCNext ==
    /\ UNCHANGED tab
    /\ \/ tab = "fleet" /\ FleetNext
       \/ tab = "parameters" /\ SettingsNext

MCSpec == MCInit /\ [][MCNext]_<<vars, tab>>

MCCodes == {<<1, 2>>}

MCEnv == [fill |-> 9, drops |-> 5, day |-> 0]
MCForms == {[fill |-> 8, drops |-> 4, day |-> 1], [fill |-> 7, drops |-> 5, day |-> 0]}
=============================================================================
