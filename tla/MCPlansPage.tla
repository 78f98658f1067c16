---------------------------- MODULE MCPlansPage -----------------------------
(* PlansPage for TLC.  One tab is looked at at a time: what the others do to  *)
(* the storage and the database, OtherPage and OtherUser do as well.          *)
EXTENDS PlansPage

VARIABLE tab

MCInit == Init /\ tab \in Tabs

MCNext ==
    /\ UNCHANGED tab
    /\ \/ \E h \in Handlers : Continue(h) \/ Click(h, tab)
       \/ \E r \in Runs \cup {None} : OtherPage(r)
       \/ OtherUser

MCSpec == MCInit /\ [][MCNext]_<<vars, tab>>
=============================================================================
