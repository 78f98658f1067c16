--------------------------- MODULE WarehouseQueue ---------------------------
(***************************************************************************)
(* The warehouse queue as rows of a table with a position each, and the    *)
(* handlers that read and write them from several browser sessions.        *)
(*                                                                         *)
(* A handler first reads, outside any transaction (the SQLite driver       *)
(* begins one at the first write), then writes and commits.  Its writes    *)
(* are one step, and so are its reads; other sessions may come between.    *)
(* Renumbering after a row is deleted happens among the writes and sees    *)
(* the table as it is.                                                     *)
(***************************************************************************)
EXTENDS Integers, FiniteSetsExt

CONSTANTS
    Orders,     \* order ids
    NoOrder,    \* the order of a row that does not exist
    Sessions,   \* browser sessions
    MaxRow,     \* bound: row ids are 1..MaxRow
    MaxPosition \* bound: no row is added behind this position

ASSUME NoOrderAssumption == NoOrder \notin Orders
ASSUME BoundsAssumption == MaxRow \in Nat /\ MaxPosition \in Nat

Ids == 1..MaxRow

VARIABLES
    stage,   \* of each order: "new", "planned" (or further), "gone" (no row)
    table,   \* warehouse_queue: order, position and status by row id
    task     \* what each session has read and is about to write

vars == <<stage, table, task>>

NoRow == [order |-> NoOrder, position |-> 0, held |-> FALSE]
Row == [order : Orders, position : Nat \ {0}, held : BOOLEAN]

Present(t) == {i \in Ids : t[i].order # NoOrder}
Queued(t) == {t[i].order : i \in Present(t)}
IdOf(t, o) == CHOOSE i \in Present(t) : t[i].order = o

\* Faulty variants: positions from 0; the number of rows, not the highest
\* position, decides where the next one goes.
PositionFromZero(t) == Max({t[i].position : i \in Present(t)} \cup {-1}) + 1
PositionByCount(t) == Cardinality(Present(t)) + 1

NextPosition(t) == Max({t[i].position : i \in Present(t)} \cup {0}) + 1

\* SQLite's row id is the highest in use plus one.
NextId(t) == Max(Present(t) \cup {0}) + 1

\* Bound: row ids and positions only go so far.
HasRoom(t) == NextId(t) <= MaxRow /\ NextPosition(t) <= MaxPosition

Idle == [op |-> "none"]

-----------------------------------------------------------------------------
(* Tables as the repository leaves them. *)

Inserted(t, o, p, hold) ==
    [t EXCEPT ![NextId(t)] = [order |-> o, position |-> p, held |-> hold]]

Deleted(t, gone) ==
    [i \in Ids |-> IF i \in gone THEN NoRow ELSE t[i]]

\* Faulty variant: rows keep their positions.
NotRepacked(t) == {t}

\* _repack_positions: 1, 2, 3... in the order of the positions so far.  Rows
\* with the same position come in whatever order the database returns them.
Repacked(t) ==
    LET rows == Present(t)
        ranks == {f \in [rows -> 1..Cardinality(rows)] :
                    \A i, j \in rows :
                        /\ i # j => f[i] # f[j]
                        /\ t[i].position < t[j].position => f[i] < f[j]}
    IN  {[i \in Ids |-> IF i \in rows THEN [t[i] EXCEPT !.position = f[i]] ELSE t[i]] :
            f \in ranks}

-----------------------------------------------------------------------------
(* Handlers, part one: what is read and checked. *)

Begin(s, read) ==
    /\ task[s] = Idle
    /\ task' = [task EXCEPT ![s] = read]
    /\ UNCHANGED <<stage, table>>

CanEnter(t, o) == stage[o] = "new" /\ o \notin Queued(t)

\* enqueue_order and enqueue_many, and with hold accept_buffer_proposals.
\* Those that cannot enter are skipped: first is the first that can.
ReadEnqueue(s, first, rest, hold) ==
    /\ CanEnter(table, first)
    /\ HasRoom(table)
    /\ Begin(s, [op |-> "enqueue", first |-> first, rest |-> rest, hold |-> hold,
                 position |-> NextPosition(table)])

ReadDequeue(s, o) ==
    /\ o \in Queued(table)
    /\ Begin(s, [op |-> "dequeue", id |-> IdOf(table, o)])

ReadHeld(s, o, hold) ==
    /\ o \in Queued(table)
    /\ Begin(s, [op |-> "hold", id |-> IdOf(table, o), hold |-> hold,
                 was |-> table[IdOf(table, o)].held])

\* Faulty variant: any row further down is taken for the neighbour.
FurtherDown(t, i, j) == t[i].position < t[j].position

\* j is the row after i when the queue is listed by position.
IsNeighbour(t, i, j) ==
    /\ i # j
    /\ t[i].position <= t[j].position
    /\ ~ \E k \in Present(t) \ {i, j} :
            t[i].position < t[k].position /\ t[k].position < t[j].position

\* Moving up and moving down are the same swap, asked for from either side.
ReadMove(s, i, j) ==
    /\ {i, j} \subseteq Present(table)
    /\ IsNeighbour(table, i, j)
    /\ Begin(s, [op |-> "move", id |-> i, with |-> j,
                 position |-> table[i].position, swapped |-> table[j].position])

-----------------------------------------------------------------------------
(* Handlers, part two: the transaction. *)

Commit(s, t) ==
    /\ table' = t
    /\ task' = [task EXCEPT ![s] = Idle]
    /\ UNCHANGED stage

\* The first row gets the position read before; the second one is checked
\* and numbered inside the transaction.  The order's status is not read again.
\* A unique order_id and the foreign key refuse what no longer fits.
WriteEnqueue(s) ==
    /\ task[s].op = "enqueue"
    /\ stage[task[s].first] # "gone"
    /\ task[s].first \notin Queued(table)
    /\ HasRoom(table)
    /\ LET t == Inserted(table, task[s].first, task[s].position, task[s].hold)
           second == {o \in task[s].rest : CanEnter(t, o) /\ HasRoom(t)}
       IN  Commit(s, IF second = {} THEN t
                     ELSE Inserted(t, CHOOSE o \in second : TRUE, NextPosition(t),
                                   task[s].hold))

\* A row that has gone meanwhile is deleted again without complaint.
WriteDequeue(s) ==
    /\ task[s].op = "dequeue"
    /\ \E t \in Repacked(Deleted(table, {task[s].id})) : Commit(s, t)

\* Only an attribute that differs from what was read is written.
WriteHeld(s) ==
    /\ task[s].op = "hold"
    /\ task[s].id \in Present(table)
    /\ Commit(s, IF task[s].hold = task[s].was THEN table
                 ELSE [table EXCEPT ![task[s].id].held = task[s].hold])

WriteMove(s) ==
    /\ task[s].op = "move"
    /\ {task[s].id, task[s].with} \subseteq Present(table)
    /\ Commit(s, IF task[s].position = task[s].swapped THEN table
                 ELSE [table EXCEPT ![task[s].id].position = task[s].swapped,
                                    ![task[s].with].position = task[s].position])

\* The transaction is rolled back: a row is missing, a constraint is violated,
\* the database is locked, the server stops.
Fail(s) ==
    /\ task[s] # Idle
    /\ task' = [task EXCEPT ![s] = Idle]
    /\ UNCHANGED <<stage, table>>

Write(s) == WriteEnqueue(s) \/ WriteDequeue(s) \/ WriteHeld(s) \/ WriteMove(s)

-----------------------------------------------------------------------------
(* What other components do to orders and queue rows, in one transaction. *)

RowsOf(S) == {i \in Present(table) : table[i].order \in S}

\* Generating plans new orders; unlocking and deleting plans releases them.
Replan(o) ==
    /\ stage[o] # "gone"
    /\ stage' = [stage EXCEPT ![o] = IF @ = "new" THEN "planned" ELSE "new"]
    /\ UNCHANGED <<table, task>>

\* Approving and completing routes takes their orders out of the queue;
\* completing does so whatever has become of the order's status.
Dispatched(S) ==
    /\ RowsOf(S) # {}
    /\ \A o \in S : stage[o] # "gone"
    /\ stage' = [o \in Orders |-> IF o \in S THEN "planned" ELSE stage[o]]
    /\ table' \in Repacked(Deleted(table, RowsOf(S)))
    /\ UNCHANGED task

ImportOrder(o) ==
    /\ stage[o] = "gone"
    /\ stage' = [stage EXCEPT ![o] = "new"]
    /\ UNCHANGED <<table, task>>

\* The foreign key's cascade deletes the rows; nothing renumbers the others.
DeleteOrders(S) ==
    /\ \E o \in S : stage[o] # "gone"
    /\ stage' = [o \in Orders |-> IF o \in S THEN "gone" ELSE stage[o]]
    /\ table' = Deleted(table, RowsOf(S))
    /\ UNCHANGED task

-----------------------------------------------------------------------------

Init ==
    /\ stage = [o \in Orders |-> "gone"]
    /\ table = [i \in Ids |-> NoRow]
    /\ task = [s \in Sessions |-> Idle]

Read(s) ==
    \/ \E o \in Orders : \E rest \in {{}} \cup {{p} : p \in Orders \ {o}}, hold \in BOOLEAN :
          ReadEnqueue(s, o, rest, hold)
    \/ \E o \in Orders : ReadDequeue(s, o) \/ \E hold \in BOOLEAN : ReadHeld(s, o, hold)
    \/ \E i, j \in Ids : ReadMove(s, i, j)

Others ==
    \/ \E o \in Orders : Replan(o) \/ ImportOrder(o)
    \/ \E S \in SUBSET Orders : Dispatched(S) \/ DeleteOrders(S)

Next == Others \/ \E s \in Sessions : Read(s) \/ Write(s) \/ Fail(s)

Spec == Init /\ [][Next]_vars

\* Calls that do not overlap: whoever has read writes before anyone else acts.
SerialNext ==
    \/ (\A s \in Sessions : task[s] = Idle) /\ (Others \/ \E s \in Sessions : Read(s))
    \/ \E s \in Sessions : Write(s) \/ Fail(s)

SerialSpec == Init /\ [][SerialNext]_vars
-----------------------------------------------------------------------------
(* Properties. *)

Task ==
    {Idle}
    \cup [op : {"enqueue"}, first : Orders, rest : SUBSET Orders, hold : BOOLEAN,
          position : Nat \ {0}]
    \cup [op : {"dequeue"}, id : Ids]
    \cup [op : {"hold"}, id : Ids, hold : BOOLEAN, was : BOOLEAN]
    \cup [op : {"move"}, id : Ids, with : Ids, position : Nat \ {0}, swapped : Nat \ {0}]

TypeOK ==
    /\ stage \in [Orders -> {"gone", "new", "planned"}]
    /\ table \in [Ids -> Row \cup {NoRow}]
    /\ task \in [Sessions -> Task]

\* No two rows share a position, so the queue has one order and a move can
\* change it.  Positions are handed out, swapped, renumbered and left with
\* gaps by different handlers, and the schema does not require this.
PositionsDistinct ==
    \A i, j \in Present(table) : table[i].position = table[j].position => i = j

\* Taking an order out by hand closes the gaps and separates equal positions,
\* whatever deleted orders or overlapping sessions have left behind.
DequeueRenumbers ==
    [][\A s \in Sessions : WriteDequeue(s) =>
        {table'[i].position : i \in Present(table')} = 1..Cardinality(Present(table'))]_vars

\* The table implements the line of QueueOrder, as long as calls do not overlap.
Ahead(t) ==
    {p \in Queued(t) \X Queued(t) :
        \E i, j \in Present(t) : p = <<t[i].order, t[j].order>> /\ t[i].position < t[j].position}

HeldOrders(t) == {t[i].order : i \in {i \in Present(t) : t[i].held}}

List == INSTANCE QueueOrder
            WITH listed <- Queued(table), ahead <- Ahead(table), held <- HeldOrders(table)
ImplementsList == List!Spec
=============================================================================
