---------------------------- MODULE ImportOrders ----------------------------
(***************************************************************************)
(* Importing the shipper's file into the orders table, beside the other    *)
(* users of that table: the orders page, which deletes what a tab shows,   *)
(* planning, which takes orders to their end, and the job that fills in    *)
(* coordinates.                                                            *)
(*                                                                         *)
(* An import reads which codes exist, then writes: its write lock starts   *)
(* with the first insert and lasts to the commit.  The dictionary of       *)
(* coordinates is filled when the program starts and stays as it is: the   *)
(* page that should edit it calls the service with arguments it does not   *)
(* take.                                                                   *)
(***************************************************************************)
EXTENDS OrderFile, FiniteSetsExt

CONSTANTS
    Importers,       \* tabs that import at the same time
    Tabs,            \* tabs that show the orders
    Files,           \* the files there are to import, sequences of rows
    Places,          \* numbers of places, in the order of the dictionary's seed
    CityOf,          \* the city of each place
    Dictionary,      \* the places with coordinates of their own
    Earlier,         \* orders that were in the database before
    Today,           \* effective_planning_date
    MaxOrder         \* bound: order ids are 1..MaxOrder

Orders == 1..MaxOrder
NoOrder == [status |-> "absent"]
NoPlace == 0

ASSUME PlacesAssumption ==
    Places \subseteq Nat \ {0} /\ Dictionary \subseteq Places /\ CityOf \in [Places -> Nat]
ASSUME DictionaryAssumption == IsFiniteSet(Dictionary)
ASSUME BoundAssumption == MaxOrder \in Nat /\ Today \in Int

\* A row of a file and a row of the table; a code is the sequence of its
\* references.
Codes == Seq(Nat)
SheetRow == [refs : Codes, ids : Seq(Nat), kgs : Seq(Nat), due : Int, leave : Int,
             place : Places, readable : BOOLEAN]
OrderRow == [code : Codes, place : Places, shipments : Seq(Shipment), due : Int, leave : Int,
             status : {"new", "delivered"}, coords : Dictionary \cup {NoPlace}]

\* The coordinates of an order are those of its place, or of one in its city
\* if the dictionary does not have its place.
NearestOrNone(order) ==
    \/ order.coords = NoPlace
    \/ order.coords = order.place
    \/ order.place \notin Dictionary /\ CityOf[order.coords] = CityOf[order.place]

\* Orders from before were given the coordinates of this dictionary, if any.
ASSUME FilesAssumption == Files \subseteq Seq(SheetRow)
ASSUME EarlierAssumption ==
    \A e \in Earlier : e \in OrderRow /\ e.shipments # <<>> /\ NearestOrNone(e)

VARIABLES
    orders,     \* orders: a row of the table for each id in use
    importer,   \* what an import that is under way has read
    outcome,    \* the last ImportOutcome of an importer
    shown       \* the delivery codes a tab shows, by order id

importVars == <<orders, importer, outcome, shown>>

NoImport == [busy |-> FALSE, file |-> <<>>, fresh |-> {}]
NoOutcome == [accepted |-> {}, skipped |-> {}, missing |-> {}, rejected |-> 0]

Stored == {o \in Orders : orders[o] # NoOrder}
StoredCodes == {orders[o].code : o \in Stored}

\* Faulty variant: delivered orders are not looked up.
ActiveCodes == {orders[o].code : o \in {o \in Stored : orders[o].status # "delivered"}}

\* existing_delivery_code_ids.
ExistingCodes == StoredCodes

\* find_by_city_country: the first entry of the dictionary in that city.
InCity(p) == {q \in Dictionary : CityOf[q] = CityOf[p]}

\* Faulty variant: the first entry of the city, whatever the place.
CoordsOfCity(p) == IF InCity(p) = {} THEN NoPlace ELSE Min(InCity(p))

\* _enrich_location: the place whose coordinates p is given.
CoordsOf(p) ==
    IF p \in Dictionary THEN p
    ELSE IF InCity(p) = {} THEN NoPlace ELSE Min(InCity(p))

ImportInit ==
    /\ orders \in {[o \in Orders |-> IF o = 1 THEN e ELSE NoOrder] : e \in Earlier \cup {NoOrder}}
    /\ importer = [i \in Importers |-> NoImport]
    /\ outcome = [i \in Importers |-> NoOutcome]
    /\ shown = [t \in Tabs |-> <<>>]

-----------------------------------------------------------------------------
(* import_path. *)

\* The file is read, a file that cannot be as one of no rows, and its codes
\* are looked up.
ReadFile(i, file) ==
    /\ importer[i] = NoImport
    /\ importer' = [importer EXCEPT ![i] =
                        [busy |-> TRUE, file |-> file, fresh |-> CodesOf(file) \ ExistingCodes]]
    /\ UNCHANGED <<orders, outcome, shown>>

\* add_many: ids follow the largest one in use.
LastId == Max(Stored \cup {0})

NewRow(order) ==
    [code |-> order.code, place |-> order.place, shipments |-> order.shipments, due |-> order.due,
     leave |-> order.leave, status |-> "new", coords |-> CoordsOf(order.place)]

\* The new orders are inserted, what the file does not list is reported, and
\* all of it is committed.
StoreOrders(i) ==
    LET file == importer[i].file
        fresh == InFileOrder(file, importer[i].fresh)
    IN  /\ importer[i] # NoImport
        /\ LastId + Len(fresh) <= MaxOrder
        /\ orders' = [o \in Orders |->
                         IF o - LastId \in DOMAIN fresh
                         THEN NewRow(OrderIn(file, fresh[o - LastId], Today))
                         ELSE orders[o]]
        /\ outcome' = [outcome EXCEPT ![i] =
               [accepted |-> importer[i].fresh,
                skipped |-> CodesOf(file) \ importer[i].fresh,
                missing |-> {o \in Stored : /\ orders[o].status # "delivered"
                                            /\ orders[o].code \notin CodesOf(file)},
                rejected |-> Rejected(file)]]
        /\ importer' = [importer EXCEPT ![i] = NoImport]
        /\ UNCHANGED shown

\* The database is locked for too long, or any other error: all is rolled back.
FailImport(i) ==
    /\ importer[i] # NoImport
    /\ importer' = [importer EXCEPT ![i] = NoImport]
    /\ UNCHANGED <<orders, outcome, shown>>

-----------------------------------------------------------------------------
(* The other users of the table. *)

\* refresh_grid of the orders page.
ShowOrders(t) ==
    /\ shown' = [shown EXCEPT ![t] = [o \in Stored |-> orders[o].code]]
    /\ UNCHANGED <<orders, importer, outcome>>

\* on_delete_selected: the ids of the selected rows.
DeleteSelected(t, S) ==
    /\ S # {} /\ S \subseteq DOMAIN shown[t]
    /\ orders' = [o \in Orders |-> IF o \in S THEN NoOrder ELSE orders[o]]
    /\ shown' = [shown EXCEPT ![t] = [o \in Stored \ S |-> orders[o].code]]
    /\ UNCHANGED <<importer, outcome>>

\* on_delete_all.
DeleteAll(t) ==
    /\ Stored # {}
    /\ orders' = [o \in Orders |-> NoOrder]
    /\ shown' = [shown EXCEPT ![t] = <<>>]
    /\ UNCHANGED <<importer, outcome>>

\* set_status_many: a route with the order is completed.
Deliver(o) ==
    /\ orders[o] # NoOrder
    /\ orders' = [orders EXCEPT ![o].status = "delivered"]
    /\ UNCHANGED <<importer, outcome, shown>>

\* What the job gives an order: what it has, or what the dictionary knows.
CoordsAfter(o) ==
    IF orders[o].coords # NoPlace THEN orders[o].coords ELSE CoordsOf(orders[o].place)

\* apply_coords_to_existing_orders.
ApplyCoords ==
    /\ orders' = [o \in Orders |-> IF o \in Stored THEN [orders[o] EXCEPT !.coords = CoordsAfter(o)]
                                                   ELSE NoOrder]
    /\ UNCHANGED <<importer, outcome, shown>>

ImportNext ==
    \/ \E i \in Importers : \/ \E file \in Files : ReadFile(i, file)
                            \/ StoreOrders(i)
                            \/ FailImport(i)
    \/ \E t \in Tabs : \/ ShowOrders(t)
                       \/ \E S \in SUBSET DOMAIN shown[t] : DeleteSelected(t, S)
                       \/ DeleteAll(t)
    \/ \E o \in Orders : Deliver(o)
    \/ ApplyCoords

ImportSpec == ImportInit /\ [][ImportNext]_importVars

-----------------------------------------------------------------------------
(* Properties. *)

\* The type invariant of the orders, of what imports have read and reported,
\* and of what tabs show.  An order has at least one shipment, and an import
\* stores codes of the file it has read.
ImportTypeOK ==
    /\ orders \in [Orders -> OrderRow \cup {NoOrder}]
    /\ \A o \in Stored : orders[o].shipments # <<>>
    /\ importer \in [Importers -> [busy : BOOLEAN, file : Seq(SheetRow), fresh : SUBSET Codes]]
    /\ \A i \in Importers : importer[i].fresh \subseteq CodesOf(importer[i].file)
    /\ outcome \in [Importers -> [accepted : SUBSET Codes, skipped : SUBSET Codes,
                                  missing : SUBSET Orders, rejected : Nat]]
    /\ DOMAIN shown = Tabs
    /\ \A t \in Tabs : DOMAIN shown[t] \subseteq Orders /\ shown[t] \in [DOMAIN shown[t] -> Codes]

\* An order is imported once, however often its file is imported, imports fail,
\* and orders are delivered or deleted in between: no two orders of a code.
OneOrderPerCode ==
    \A o, p \in Stored : orders[o].code = orders[p].code => o = p

\* What is stored of a code is what its rows say: every shipment number of a
\* row, once, with the weight of the first row that names it, and the earliest
\* of the dates the rows have or are given.  A row that names nothing twice gets
\* one shipment for each of several references.
NoneTwice(row) == IsInjective(row.refs) /\ IsInjective(row.ids)
Numbers(row) == {s.number : s \in ToSet(ShipmentsOf(row))}
ReadFrom(order, rows) ==
    /\ {s.number : s \in ToSet(order.shipments)} = UNION {Numbers(rows[k]) : k \in DOMAIN rows}
    /\ Cardinality({s.number : s \in ToSet(order.shipments)}) = Len(order.shipments)
    /\ \A k \in DOMAIN rows : NoneTwice(rows[k]) => Len(order.shipments) >= Len(rows[k].refs)
    /\ \A s \in ToSet(order.shipments), k \in DOMAIN rows :
          (s.number \in Numbers(rows[k]) /\ \A j \in 1..(k - 1) : s.number \notin Numbers(rows[j]))
              => s \in ToSet(ShipmentsOf(rows[k]))
    /\ \A k \in DOMAIN rows : /\ order.due <= OrderOf(rows[k], Today).due
                               /\ order.leave <= OrderOf(rows[k], Today).leave
    /\ \E k \in DOMAIN rows : order.due = OrderOf(rows[k], Today).due
    /\ \E k \in DOMAIN rows : order.leave = OrderOf(rows[k], Today).leave
FileKept ==
    [][\A i \in Importers : StoreOrders(i) =>
           \A o \in Orders : (orders[o] = NoOrder /\ orders'[o] # NoOrder) =>
               ReadFrom(orders'[o], RowsOf(importer[i].file, orders'[o].code))]_importVars

\* Coordinates are those of the place itself when the dictionary has it, and
\* else those of a place in its city; only orders from before may be without
\* coordinates that the dictionary has.
CoordsNearest ==
    \A o \in Stored :
        /\ NearestOrNone(orders[o])
        /\ orders[o].coords = NoPlace =>
               (InCity(orders[o].place) = {} \/ \E e \in Earlier : e.code = orders[o].code)
=============================================================================
