----------------------------- MODULE OrderFile -----------------------------
(***************************************************************************)
(* From the rows of the shipper's spreadsheet to orders: row_mapper.py     *)
(* turns a row into an order of one or several shipments, and              *)
(* excel_import.py merges the rows of one delivery code.                   *)
(*                                                                         *)
(* A cell that lists several numbers is the sequence of them, and the text *)
(* of a delivery code is that sequence too.  What makes a cell unreadable  *)
(* (no name, a weight or date that is none, a number below zero) is the    *)
(* field "readable".  Pickup and delivery are treated alike: one place     *)
(* stands for both.                                                        *)
(***************************************************************************)
EXTENDS Integers, SequencesExt

CONSTANTS
    DefaultDays,     \* default_delivery_days
    LeadDays         \* ship_lead_days

ASSUME DaysAssumption == DefaultDays \in Nat /\ LeadDays \in Nat

-----------------------------------------------------------------------------
(* One row. *)

\* An empty cell of a date, a shipment without a known weight.
NoDate == -1
NoWeight == -1
Shipment == [number : Seq(Nat), kg : Nat \cup {NoWeight}]

\* A row has a delivery code, and a shipment number unless it lists several
\* references.
Accepted(row) ==
    /\ row.readable
    /\ row.refs # <<>>
    /\ row.ids # <<>> \/ Len(row.refs) > 1

Lesser(a, b) == IF a <= b THEN a ELSE b

\* _pick_weight: its own weight, or the last one there is.
PickWeight(kgs, i) == IF kgs = <<>> THEN NoWeight ELSE kgs[Lesser(i, Len(kgs))]

TotalWeight(kgs) == IF kgs = <<>> THEN NoWeight ELSE SumFunction(kgs)

\* The number of the i-th of several references; <<n, i>> is the text "n-i".
Number(row, i) ==
    IF Len(row.ids) > 1 /\ i <= Len(row.ids) THEN <<row.ids[i]>>
    ELSE IF Len(row.ids) > 1 THEN <<row.ids[1], i>>
    ELSE <<row.refs[i]>>

\* _build_shipments.
ShipmentsOf(row) ==
    IF Len(row.refs) > 1 THEN
        [i \in 1..Len(row.refs) |-> [number |-> Number(row, i), kg |-> PickWeight(row.kgs, i)]]
    ELSE IF Len(row.ids) > 1 THEN
        [i \in 1..Len(row.ids) |-> [number |-> <<row.ids[i]>>, kg |-> PickWeight(row.kgs, i)]]
    ELSE <<[number |-> <<row.ids[1]>>, kg |-> TotalWeight(row.kgs)]>>

\* Order.create: the delivery date falls due after the default number of days,
\* the last legal departure lies the lead time before it, unless given.
OrderOf(row, today) ==
    LET due == IF row.due = NoDate THEN today + DefaultDays ELSE row.due
    IN  [code |-> row.refs, place |-> row.place, shipments |-> ShipmentsOf(row), due |-> due,
         leave |-> IF row.leave = NoDate THEN due - LeadDays ELSE row.leave]

-----------------------------------------------------------------------------
(* The whole file. *)

\* The elements of S one after the other, each behind those that come before it
\* by the pairs in before.
InOrder(S, before) ==
    [n \in 1..Cardinality(S) |->
        CHOOSE x \in S : Cardinality({y \in S : <<y, x>> \in before}) = n - 1]

\* Where the shipments of some lists are, list by list.
PlacesIn(lists) == UNION {{i} \X DOMAIN lists[i] : i \in DOMAIN lists}
At(lists, p) == lists[p[1]][p[2]]
ByList(P) == {pq \in P \X P : \/ pq[1][1] < pq[2][1]
                              \/ pq[1][1] = pq[2][1] /\ pq[1][2] < pq[2][2]}

\* Faulty variant: the shipments of the first row are taken as seen.
AllButFirst(lists) == FlattenSeq(Tail(lists))

\* Each shipment number once, where it comes first.
FirstOfNumber(lists) ==
    LET before == ByList(PlacesIn(lists))
        first == InOrder({p \in PlacesIn(lists) : \A q \in PlacesIn(lists) :
                             At(lists, q).number = At(lists, p).number => <<q, p>> \notin before},
                         before)
    IN  [k \in DOMAIN first |-> At(lists, first[k])]

\* Faulty variant: the dates of the first row are the order's.
DateOfFirst(parts, field) == parts[1][field]

EarliestOf(parts, field) == Min({parts[i][field] : i \in DOMAIN parts})

\* _merge_orders.
Merge(parts) ==
    [code |-> parts[1].code, place |-> parts[1].place,
     shipments |-> FirstOfNumber([i \in DOMAIN parts |-> parts[i].shipments]),
     due |-> EarliestOf(parts, "due"),
     leave |-> EarliestOf(parts, "leave")]

\* ExcelOrderSource.load: the rows that are accepted, by delivery code.
AcceptedRows(file) == {k \in DOMAIN file : Accepted(file[k])}
RowsWith(file, code) == {k \in AcceptedRows(file) : file[k].refs = code}
CodesOf(file) == {file[k].refs : k \in AcceptedRows(file)}

Ascending(S) == {p \in S \X S : p[1] < p[2]}

RowsOf(file, code) ==
    LET at == InOrder(RowsWith(file, code), Ascending(RowsWith(file, code)))
    IN  [n \in DOMAIN at |-> file[at[n]]]

\* The codes of a file in the order of their first rows.
InFileOrder(file, codes) ==
    InOrder(codes, {p \in codes \X codes : Min(RowsWith(file, p[1])) < Min(RowsWith(file, p[2]))})

OrderIn(file, code, today) ==
    LET rows == RowsOf(file, code)
    IN  Merge([i \in DOMAIN rows |-> OrderOf(rows[i], today)])

Rejected(file) == Cardinality(DOMAIN file \ AcceptedRows(file))
=============================================================================
