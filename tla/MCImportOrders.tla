--------------------------- MODULE MCImportOrders ---------------------------
(* ImportOrders for TLC: references 1, 2, 3 and shipment numbers 5, 6, 7;      *)
(* the dictionary has places 1 and 4; 2 is in the same city, 3 alone.         *)
EXTENDS ImportOrders

R(refs, ids, kgs, due, leave, place) ==
    [refs |-> refs, ids |-> ids, kgs |-> kgs, due |-> due, leave |-> leave,
     place |-> place, readable |-> TRUE]

Single == R(<<1>>, <<5>>, <<2, 3>>, 4, NoDate, 1)
Later == R(<<1>>, <<5, 6>>, <<4>>, NoDate, 3, 1)
Sooner == R(<<1>>, <<6>>, <<>>, 2, 2, 2)
Pair == R(<<1, 2>>, <<5>>, <<1, 2>>, 5, NoDate, 4)
PairAgain == R(<<1, 2>>, <<6, 7>>, <<3>>, 6, 1, 2)
Three == R(<<2, 1, 3>>, <<6, 7>>, <<1, 2>>, NoDate, NoDate, 3)
Bare == R(<<2>>, <<>>, <<1>>, 5, 5, 3)
Twice == R(<<3, 3>>, <<>>, <<1, 2>>, 4, NoDate, 1)
Bad == [R(<<1>>, <<7>>, <<1>>, 1, 1, 1) EXCEPT !.readable = FALSE]

MCFiles ==
    {<<>>, <<Single, Later, Sooner>>, <<Pair, Single, PairAgain>>, <<Three, Bad, Bare>>,
     <<Sooner, Bad, Twice>>}

MCCityOf == <<1, 1, 2, 1>>

MCEarlier ==
    {[code |-> <<1>>, place |-> 2, shipments |-> <<[number |-> <<5>>, kg |-> 1]>>,
      due |-> 3, leave |-> 1, status |-> "new", coords |-> NoPlace]}
=============================================================================
