------------------------ MODULE WarehouseQueueProofs ------------------------
(* What TLAPS proves of WarehouseQueue, for any number of orders, rows and   *)
(* sessions.                                                                 *)
EXTENDS WarehouseQueue, Buffering, FiniteSetTheorems, TLAPS

Table == [Ids -> Row \cup {NoRow}]

-----------------------------------------------------------------------------
(* Tables. *)

\* A finite set of numbers has a greatest element: among the sets of larger
\* elements there is a smallest one, and it is empty.
LEMMA MaxExists ==
    ASSUME NEW S \in SUBSET Int, IsFiniteSet(S), S # {}
    PROVE  Max(S) \in S /\ \A x \in S : x <= Max(S)
<1> DEFINE above(x) == {y \in S : x < y}
           uppers == {above(x) : x \in S}
<1>1. uppers \in SUBSET FiniteSubsetsOf(S) /\ uppers # {}
    <2>1. \A x \in S : above(x) \subseteq S
        OBVIOUS
    <2>2. \A x \in S : IsFiniteSet(above(x))
        <3> HIDE DEF above
        <3> QED BY <2>1, FS_Subset
    <2> HIDE DEF above
    <2> QED BY <2>1, <2>2 DEF FiniteSubsetsOf
<1>2. IsWellFoundedOn(StrictSubsetOrdering(S), FiniteSubsetsOf(S))
    BY FS_StrictSubsetOrderingWellFounded
<1>3. PICK U \in uppers : \A W \in uppers : <<W, U>> \notin StrictSubsetOrdering(S)
    <2> HIDE DEF uppers
    <2> QED BY <1>1, <1>2, WFMin
<1>4. PICK x \in S : U = above(x)
    BY <1>3
<1>5. \A y \in S : y <= x
    <2> SUFFICES ASSUME NEW y \in S, x < y PROVE FALSE
        OBVIOUS
    <2>1. above(y) \in uppers
        OBVIOUS
    <2>2. above(y) \subseteq above(x)
        <3> SUFFICES ASSUME NEW z \in S, y < z PROVE x < z
            OBVIOUS
        <3>1. x \in Int /\ y \in Int /\ z \in Int
            OBVIOUS
        <3> QED BY <3>1
    <2>3. y \in above(x) /\ y \notin above(y)
        OBVIOUS
    <2>4. <<above(y), above(x)>> \in StrictSubsetOrdering(S)
        <3>1. above(x) \in SUBSET S /\ above(y) \in SUBSET S
            OBVIOUS
        <3> HIDE DEF above
        <3> QED BY <2>2, <2>3, <3>1 DEF StrictSubsetOrdering
    <2> HIDE DEF above, uppers
    <2> QED BY <1>3, <1>4, <2>1, <2>4
<1>6. \A y \in S : x >= y
    BY <1>5
<1> QED BY <1>6 DEF Max

LEMMA PresentRows ==
    ASSUME NEW t \in Table
    PROVE  /\ Present(t) \in SUBSET Ids /\ IsFiniteSet(Present(t))
           /\ \A i \in Ids : t[i] \in Row <=> i \in Present(t)
           /\ \A i \in Ids \ Present(t) : t[i] = NoRow
<1>1. MaxRow \in Int
    BY BoundsAssumption
<1>2. IsFiniteSet(Ids)
    BY <1>1, FS_Interval DEF Ids
<1>3. Present(t) \in SUBSET Ids
    BY DEF Present
<1>4. \A i \in Ids : t[i] \in Row <=> i \in Present(t)
    BY NoOrderAssumption DEF Table, Row, NoRow, Present
<1> QED BY <1>2, <1>3, <1>4, FS_Subset DEF Table

\* The next position is behind all others.
LEMMA NextPositionIsLast ==
    ASSUME NEW t \in Table
    PROVE  /\ NextPosition(t) \in Nat \ {0}
           /\ \A i \in Present(t) : t[i].position < NextPosition(t)
<1> DEFINE S == {t[i].position : i \in Present(t)}
           f == [i \in Present(t) |-> t[i].position]
<1>1. S \in SUBSET Nat
    BY PresentRows DEF Row
<1>2. IsFiniteSet(S)
    <2>1. f \in Surjection(Present(t), S)
        BY DEF Surjection
    <2> QED BY <2>1, PresentRows, FS_Surjection
<1> HIDE DEF S
<1>3. IsFiniteSet(S \cup {0}) /\ S \cup {0} \in SUBSET Int
    BY <1>1, <1>2, FS_AddElement
<1> DEFINE m == Max(S \cup {0})
<1>4. m \in S \cup {0} /\ \A x \in S \cup {0} : x <= m
    <2> HIDE DEF m
    <2>1. S \cup {0} # {}
        OBVIOUS
    <2> QED BY <1>3, <2>1, MaxExists DEF m
<1>5. NextPosition(t) = m + 1
    BY DEF NextPosition, S
<1>6. \A i \in Present(t) : t[i].position \in S
    BY DEF S
<1> HIDE DEF m
<1>7. m \in Nat
    BY <1>1, <1>4
<1>8. ASSUME NEW i \in Present(t) PROVE t[i].position < NextPosition(t)
    <2> DEFINE p == t[i].position
    <2>1. p \in Nat /\ p <= m
        BY <1>1, <1>4, <1>6
    <2> HIDE DEF p
    <2>2. p < m + 1
        BY <1>7, <2>1
    <2> QED BY <1>5, <2>2 DEF p
<1> QED BY <1>5, <1>7, <1>8

\* The next row id is free.
LEMMA NextIdIsFree ==
    ASSUME NEW t \in Table
    PROVE  NextId(t) \in Nat \ {0} /\ NextId(t) \notin Present(t)
<1> DEFINE P == Present(t)
           m == Max(P \cup {0})
<1>1. P \in SUBSET Nat /\ IsFiniteSet(P)
    BY PresentRows, BoundsAssumption DEF Ids
<1>2. NextId(t) = m + 1
    BY DEF NextId
<1> HIDE DEF P, m
<1>3. IsFiniteSet(P \cup {0}) /\ P \cup {0} \in SUBSET Int /\ P \cup {0} # {}
    BY <1>1, FS_AddElement
<1>4. m \in P \cup {0} /\ \A x \in P \cup {0} : x <= m
    BY <1>3, MaxExists DEF m
<1> QED BY <1>1, <1>2, <1>4 DEF P

\* Where a row is added, and what stays.
LEMMA InsertedTable ==
    ASSUME NEW t \in Table, NEW o \in Orders, NEW p \in Nat \ {0}, NEW hold \in BOOLEAN,
           NextId(t) <= MaxRow
    PROVE  LET u == Inserted(t, o, p, hold) IN
           /\ u \in Table
           /\ Present(u) = Present(t) \cup {NextId(t)}
           /\ u[NextId(t)].position = p
           /\ \A i \in Present(t) : u[i] = t[i]
<1> DEFINE n == NextId(t)
           new == [order |-> o, position |-> p, held |-> hold]
           u == Inserted(t, o, p, hold)
<1>1. n \in Ids /\ n \notin Present(t)
    BY NextIdIsFree, BoundsAssumption DEF Ids
<1>2. new \in Row /\ new.order # NoOrder /\ new.position = p
    BY NoOrderAssumption DEF Row
<1> HIDE DEF n, new
<1>3. u = [t EXCEPT ![n] = new]
    BY DEF Inserted, n, new
<1>4. u \in Table /\ u[n] = new /\ \A i \in Ids \ {n} : u[i] = t[i]
    BY <1>1, <1>2, <1>3 DEF Table
<1> HIDE DEF u
<1>5. Present(u) = Present(t) \cup {n}
    BY <1>1, <1>2, <1>4 DEF Present
<1>6. \A i \in Present(t) : u[i] = t[i]
    BY <1>1, <1>4 DEF Present
<1>7. u[n].position = p
    BY <1>2, <1>4
<1> QED BY <1>4, <1>5, <1>6, <1>7 DEF n, u

LEMMA DeletedTable ==
    ASSUME NEW t \in Table, NEW gone
    PROVE  LET u == Deleted(t, gone) IN
           /\ u \in Table
           /\ Present(u) = Present(t) \ gone
           /\ \A i \in Present(u) : u[i] = t[i]
BY DEF Table, Deleted, Present, NoRow

\* Renumbering keeps the rows and gives them the positions 1, 2, 3...
LEMMA RepackedTable ==
    ASSUME NEW t \in Table, NEW u \in Repacked(t)
    PROVE  /\ u \in Table
           /\ Present(u) = Present(t)
           /\ \A i, j \in Present(u) : u[i].position = u[j].position => i = j
           /\ {u[i].position : i \in Present(u)} = 1..Cardinality(Present(u))
<1> DEFINE rows == Present(t)
           N == Cardinality(rows)
<1>1. IsFiniteSet(rows) /\ rows \in SUBSET Ids /\ N \in Nat
    BY PresentRows, FS_CardinalityType
<1>2. PICK f \in [rows -> 1..N] :
        /\ \A i, j \in rows : i # j => f[i] # f[j]
        /\ u = [i \in Ids |-> IF i \in rows THEN [t[i] EXCEPT !.position = f[i]] ELSE t[i]]
    BY DEF Repacked
<1>3. \A i \in rows : t[i] \in Row
    BY PresentRows
<1> HIDE DEF N
<1>4. \A i \in rows : u[i] \in Row /\ u[i].order = t[i].order /\ u[i].position = f[i]
    <2> TAKE i \in rows
    <2>1. u[i] = [t[i] EXCEPT !.position = f[i]]
        BY <1>1, <1>2
    <2>2. f[i] \in Nat \ {0}
        BY <1>1, <1>2
    <2> QED BY <1>3, <2>1, <2>2 DEF Row
<1>5. \A i \in Ids \ rows : u[i] = NoRow
    BY <1>2, PresentRows
<1>6. u \in Table
    BY <1>1, <1>2, <1>4, <1>5 DEF Table
<1>7. Present(u) = rows
    <2>1. \A i \in rows : i \in Ids /\ u[i].order # NoOrder
        BY <1>1, <1>4 DEF Present
    <2>2. \A i \in Ids \ rows : u[i].order = NoOrder
        BY <1>5 DEF NoRow
    <2> HIDE DEF rows
    <2> QED BY <2>1, <2>2 DEF Present
<1>8. \A i, j \in Present(u) : u[i].position = u[j].position => i = j
    <2>1. \A i, j \in rows : i # j => f[i] # f[j]
        BY <1>2
    <2>2. \A i \in rows : u[i].position = f[i]
        BY <1>4
    <2> HIDE DEF rows
    <2> QED BY <1>7, <2>1, <2>2
<1>9. f \in Surjection(rows, 1..N)
    <2>1. f \in Injection(rows, 1..N)
        BY <1>2 DEF Injection, IsInjective
    <2>2. IsFiniteSet(1..N) /\ Cardinality(1..N) = N
        BY <1>1, FS_Interval
    <2> QED BY <2>1, <2>2, FS_Injection DEF N
<1>10. {u[i].position : i \in rows} = 1..N
    <2>1. \A n \in 1..N : \E i \in rows : f[i] = n
        BY <1>9 DEF Surjection
    <2>2. \A i \in rows : f[i] \in 1..N /\ u[i].position = f[i]
        BY <1>4, <1>2
    <2> HIDE DEF rows
    <2> QED BY <2>1, <2>2
<1> QED BY <1>6, <1>7, <1>8, <1>10 DEF N

LEMMA IdOfIsPresent ==
    ASSUME NEW t, NEW o \in Queued(t)
    PROVE  IdOf(t, o) \in Present(t)
BY DEF Queued, IdOf

-----------------------------------------------------------------------------
(* The type invariant. *)

\* What a pending handler holds, by its operation.
LEMMA TaskFields ==
    ASSUME NEW k \in Task
    PROVE  /\ k.op = "enqueue" => /\ k.first \in Orders /\ k.rest \in SUBSET Orders
                                  /\ k.hold \in BOOLEAN /\ k.position \in Nat \ {0}
           /\ k.op = "dequeue" => k.id \in Ids
           /\ k.op = "hold" => k.id \in Ids /\ k.hold \in BOOLEAN
           /\ k.op = "move" => /\ k.id \in Ids /\ k.with \in Ids
                               /\ k.position \in Nat \ {0} /\ k.swapped \in Nat \ {0}
BY DEF Task, Idle

LEMMA BeginType ==
    ASSUME TypeOK, NEW s \in Sessions, NEW k \in Task, Begin(s, k)
    PROVE  TypeOK'
BY DEF TypeOK, Begin

LEMMA CommitType ==
    ASSUME TypeOK, NEW s \in Sessions, NEW t \in Table, Commit(s, t)
    PROVE  TypeOK'
<1>1. Idle \in Task
    BY DEF Task
<1>2. table' \in Table
    BY DEF Commit
<1>3. task' \in [Sessions -> Task]
    BY <1>1 DEF TypeOK, Commit
<1> QED BY <1>2, <1>3 DEF TypeOK, Commit, Table

LEMMA ReadType ==
    ASSUME TypeOK, NEW s \in Sessions, Read(s)
    PROVE  TypeOK'
<1>1. table \in Table
    BY DEF TypeOK, Table
<1>2. \A i \in Present(table) : i \in Ids /\ table[i] \in Row
    BY <1>1, PresentRows
<1>3. ASSUME NEW o \in Orders, NEW rest \in SUBSET Orders, NEW hold \in BOOLEAN,
             ReadEnqueue(s, o, rest, hold)
      PROVE  TypeOK'
    <2> DEFINE k == [op |-> "enqueue", first |-> o, rest |-> rest, hold |-> hold,
                     position |-> NextPosition(table)]
    <2>1. k \in Task
        BY <1>1, NextPositionIsLast DEF Task
    <2>2. Begin(s, k)
        BY <1>3 DEF ReadEnqueue
    <2> QED BY <2>1, <2>2, BeginType
<1>4. ASSUME NEW o \in Orders, ReadDequeue(s, o)
      PROVE  TypeOK'
    <2>1. IdOf(table, o) \in Ids
        BY <1>2, <1>4, IdOfIsPresent DEF ReadDequeue
    <2>2. [op |-> "dequeue", id |-> IdOf(table, o)] \in Task
        BY <2>1 DEF Task
    <2> QED BY <1>4, <2>2, BeginType DEF ReadDequeue
<1>5. ASSUME NEW o \in Orders, NEW hold \in BOOLEAN, ReadHeld(s, o, hold)
      PROVE  TypeOK'
    <2>1. IdOf(table, o) \in Ids /\ table[IdOf(table, o)].held \in BOOLEAN
        BY <1>2, <1>5, IdOfIsPresent DEF ReadHeld, Row
    <2> DEFINE k == [op |-> "hold", id |-> IdOf(table, o), hold |-> hold,
                     was |-> table[IdOf(table, o)].held]
    <2>2. k \in Task
        BY <2>1 DEF Task
    <2>3. Begin(s, k)
        BY <1>5 DEF ReadHeld
    <2> QED BY <2>2, <2>3, BeginType
<1>6. ASSUME NEW i \in Ids, NEW j \in Ids, ReadMove(s, i, j)
      PROVE  TypeOK'
    <2> DEFINE k == [op |-> "move", id |-> i, with |-> j,
                     position |-> table[i].position, swapped |-> table[j].position]
    <2>1. table[i].position \in Nat \ {0} /\ table[j].position \in Nat \ {0}
        BY <1>2, <1>6 DEF ReadMove, Row
    <2>2. k \in Task
        BY <2>1 DEF Task
    <2>3. Begin(s, k)
        BY <1>6 DEF ReadMove
    <2> QED BY <2>2, <2>3, BeginType
<1>7. \A o \in Orders : \A rest \in {{}} \cup {{p} : p \in Orders \ {o}} :
            rest \in SUBSET Orders
    OBVIOUS
<1> QED BY <1>3, <1>4, <1>5, <1>6, <1>7 DEF Read

-----------------------------------------------------------------------------
(* What each transaction leaves: a table, and distinct positions if what     *)
(* was read still holds.                                                     *)

Distinct(t) == \A i, j \in Present(t) : t[i].position = t[j].position => i = j

\* The position a handler will insert at is behind all rows.
Behind(t, p) == \A i \in Present(t) : t[i].position < p

\* The positions a handler will swap are those of the two rows.
Places(t, k) ==
    /\ k.id # k.with
    /\ t[k.id].position = k.position
    /\ t[k.with].position = k.swapped

LEMMA InsertedDistinct ==
    ASSUME NEW t \in Table, NEW o \in Orders, NEW p \in Nat \ {0}, NEW hold \in BOOLEAN,
           NextId(t) <= MaxRow, Distinct(t), Behind(t, p)
    PROVE  Distinct(Inserted(t, o, p, hold))
<1> DEFINE u == Inserted(t, o, p, hold)
           n == NextId(t)
<1>1. /\ Present(u) = Present(t) \cup {n}
      /\ u[n].position = p
      /\ \A i \in Present(t) : u[i] = t[i]
    BY InsertedTable
<1>2. \A i \in Present(t) : t[i].position \in Nat
    BY PresentRows DEF Row
<1> HIDE DEF u, n
<1>3. \A i \in Present(t) : u[i].position # p
    BY <1>1, <1>2 DEF Behind
<1>4. \A i, j \in Present(t) : u[i].position = u[j].position => i = j
    BY <1>1 DEF Distinct
<1>5. \A i, j \in Present(u) : u[i].position = u[j].position => i = j
    BY <1>1, <1>3, <1>4
<1> QED BY <1>5 DEF Distinct, u

LEMMA EnqueueLeaves ==
    ASSUME TypeOK, NEW s \in Sessions, WriteEnqueue(s)
    PROVE  \E u \in Table :
              /\ Commit(s, u)
              /\ Distinct(table) /\ Behind(table, task[s].position) => Distinct(u)
<1> DEFINE k == task[s]
           t == Inserted(table, k.first, k.position, k.hold)
           second == {o \in k.rest : CanEnter(t, o) /\ HasRoom(t)}
           o2 == CHOOSE o \in second : TRUE
           v == Inserted(t, o2, NextPosition(t), k.hold)
<1>1. /\ k.first \in Orders /\ k.rest \in SUBSET Orders
      /\ k.hold \in BOOLEAN /\ k.position \in Nat \ {0}
    <2>1. k \in Task /\ k.op = "enqueue"
        BY DEF TypeOK, WriteEnqueue
    <2> HIDE DEF k
    <2> QED BY <2>1, TaskFields
<1>2. table \in Table /\ NextId(table) <= MaxRow
    BY DEF TypeOK, Table, WriteEnqueue, HasRoom
<1>3. Commit(s, IF second = {} THEN t ELSE v)
    BY DEF WriteEnqueue
<1> HIDE DEF k
<1>4. t \in Table
    BY <1>1, <1>2, InsertedTable
<1>5. Distinct(table) /\ Behind(table, k.position) => Distinct(t)
    BY <1>1, <1>2, InsertedDistinct
<1> HIDE DEF t
<1>6. CASE second = {}
    BY <1>3, <1>4, <1>5, <1>6 DEF k
<1>7. CASE second # {}
    <2>1. o2 \in Orders /\ NextId(t) <= MaxRow
        <3>1. o2 \in second
            BY <1>7
        <3> HIDE DEF o2
        <3> QED BY <1>1, <3>1 DEF HasRoom
    <2> HIDE DEF o2, second
    <2>2. NextPosition(t) \in Nat \ {0} /\ Behind(t, NextPosition(t))
        BY <1>4, NextPositionIsLast DEF Behind
    <2>3. v \in Table
        BY <1>1, <1>4, <2>1, <2>2, InsertedTable
    <2>4. Distinct(t) => Distinct(v)
        BY <1>1, <1>4, <2>1, <2>2, InsertedDistinct
    <2> HIDE DEF v
    <2> QED BY <1>3, <1>5, <1>7, <2>3, <2>4 DEF k
<1> QED BY <1>6, <1>7

LEMMA RepackLeaves ==
    ASSUME table \in Table, NEW S
    PROVE  \A u \in Repacked(Deleted(table, S)) : u \in Table /\ Distinct(u)
<1>1. Deleted(table, S) \in Table
    BY DeletedTable
<1> QED BY <1>1, RepackedTable DEF Distinct

LEMMA DequeueLeaves ==
    ASSUME TypeOK, NEW s \in Sessions, WriteDequeue(s)
    PROVE  \E u \in Table : Commit(s, u) /\ Distinct(u)
<1>1. table \in Table
    BY DEF TypeOK, Table
<1> QED BY <1>1, RepackLeaves DEF WriteDequeue

LEMMA HeldLeaves ==
    ASSUME TypeOK, NEW s \in Sessions, WriteHeld(s)
    PROVE  \E u \in Table : Commit(s, u) /\ (Distinct(table) => Distinct(u))
<1> DEFINE k == task[s]
           r == [table[k.id] EXCEPT !.held = k.hold]
           v == [table EXCEPT ![k.id] = r]
<1>1. k.id \in Ids /\ k.hold \in BOOLEAN
    <2>1. k \in Task /\ k.op = "hold"
        BY DEF TypeOK, WriteHeld
    <2> HIDE DEF k
    <2> QED BY <2>1, TaskFields
<1>2. table \in Table /\ k.id \in Present(table)
    BY DEF TypeOK, Table, WriteHeld
<1>3. Commit(s, IF k.hold = k.was THEN table ELSE v)
    BY <1>1, <1>2 DEF WriteHeld, Table
<1> HIDE DEF k
<1>4. r \in Row /\ r.position = table[k.id].position /\ r.order = table[k.id].order
    <2>1. table[k.id] \in Row
        BY <1>1, <1>2, PresentRows
    <2> QED BY <1>1, <2>1 DEF Row
<1> HIDE DEF r
<1>5. v \in Table
    BY <1>1, <1>2, <1>4 DEF Table
<1>6. \A i \in Ids : v[i].position = table[i].position /\ v[i].order = table[i].order
    BY <1>1, <1>2, <1>4 DEF Table
<1> HIDE DEF v
<1>7. Distinct(table) => Distinct(v)
    BY <1>6 DEF Distinct, Present
<1> QED BY <1>2, <1>3, <1>5, <1>7

LEMMA MoveLeaves ==
    ASSUME TypeOK, NEW s \in Sessions, WriteMove(s)
    PROVE  \E u \in Table :
              /\ Commit(s, u)
              /\ Distinct(table) /\ Places(table, task[s]) => Distinct(u)
<1> DEFINE k == task[s]
           a == [table[k.id] EXCEPT !.position = k.swapped]
           b == [table[k.with] EXCEPT !.position = k.position]
           c == [table EXCEPT ![k.id].position = k.swapped,
                              ![k.with].position = k.position]
<1>1. /\ k.id \in Ids /\ k.with \in Ids
      /\ k.position \in Nat \ {0} /\ k.swapped \in Nat \ {0}
    <2>1. k \in Task /\ k.op = "move"
        BY DEF TypeOK, WriteMove
    <2> HIDE DEF k
    <2> QED BY <2>1, TaskFields
<1>2. table \in Table /\ {k.id, k.with} \subseteq Present(table)
    BY DEF TypeOK, Table, WriteMove
<1>3. Commit(s, IF k.position = k.swapped THEN table ELSE c)
    BY DEF WriteMove
<1> HIDE DEF k
<1>4. table[k.id] \in Row /\ table[k.with] \in Row
    BY <1>1, <1>2, PresentRows
<1>5. /\ a \in Row /\ a.position = k.swapped /\ a.order = table[k.id].order
      /\ b \in Row /\ b.position = k.position /\ b.order = table[k.with].order
    BY <1>1, <1>4 DEF Row
<1>6. CASE k.id = k.with
    <2>1. c = [table EXCEPT ![k.id] = b]
        BY <1>1, <1>2, <1>4, <1>6 DEF Table, Row
    <2> HIDE DEF b, c
    <2>2. c \in Table
        BY <1>1, <1>2, <1>5, <2>1 DEF Table
    <2> QED BY <1>2, <1>3, <1>6, <2>2 DEF Places, k
<1>7. CASE k.id # k.with
    <2>1. c = [i \in Ids |-> IF i = k.id THEN a ELSE IF i = k.with THEN b ELSE table[i]]
        BY <1>1, <1>2, <1>4, <1>7 DEF Table, Row
    <2> HIDE DEF a, b, c
    <2>2. c \in Table
        BY <1>1, <1>2, <1>5, <2>1 DEF Table
    <2>3. \A i \in Ids : c[i].order = table[i].order
        BY <1>1, <1>5, <2>1
    <2>4. Present(c) = Present(table)
        BY <2>3 DEF Present
    <2>5. Distinct(table) /\ Places(table, k) => Distinct(c)
        BY <1>1, <1>2, <1>5, <1>7, <2>1, <2>4 DEF Distinct, Places, Present
    <2> QED BY <1>2, <1>3, <2>2, <2>5 DEF k
<1> QED BY <1>6, <1>7

LEMMA WriteType ==
    ASSUME TypeOK, NEW s \in Sessions, Write(s)
    PROVE  TypeOK'
<1>1. PICK u \in Table : Commit(s, u)
    BY EnqueueLeaves, DequeueLeaves, HeldLeaves, MoveLeaves DEF Write
<1> QED BY <1>1, CommitType

\* Other components leave a table, with distinct positions if it had them.
LEMMA OthersLeave ==
    ASSUME TypeOK, Others
    PROVE  TypeOK' /\ UNCHANGED task /\ (Distinct(table) => Distinct(table'))
<1>1. table \in Table
    BY DEF TypeOK, Table
<1>2. ASSUME NEW o \in Orders, Replan(o) \/ ImportOrder(o)
      PROVE  TypeOK' /\ UNCHANGED <<table, task>>
    BY <1>2 DEF TypeOK, Replan, ImportOrder
<1>3. ASSUME NEW S \in SUBSET Orders, Dispatched(S)
      PROVE  TypeOK' /\ UNCHANGED task /\ Distinct(table')
    <2>1. table' \in Table /\ Distinct(table')
        BY <1>1, <1>3, RepackLeaves DEF Dispatched
    <2>2. stage' \in [Orders -> {"gone", "new", "planned"}]
        BY <1>3 DEF TypeOK, Dispatched
    <2> QED BY <1>3, <2>1, <2>2 DEF TypeOK, Dispatched, Table
<1>4. ASSUME NEW S \in SUBSET Orders, DeleteOrders(S)
      PROVE  TypeOK' /\ UNCHANGED task /\ (Distinct(table) => Distinct(table'))
    <2>1. table' = Deleted(table, RowsOf(S))
        BY <1>4 DEF DeleteOrders
    <2>2. /\ table' \in Table
          /\ Present(table') \subseteq Present(table)
          /\ \A i \in Present(table') : table'[i] = table[i]
        BY <1>1, <2>1, DeletedTable
    <2>3. stage' \in [Orders -> {"gone", "new", "planned"}]
        BY <1>4 DEF TypeOK, DeleteOrders
    <2>4. TypeOK' /\ UNCHANGED task
        BY <1>4, <2>2, <2>3 DEF TypeOK, DeleteOrders, Table
    <2>5. Distinct(table) => Distinct(table')
        BY <2>2 DEF Distinct
    <2> QED BY <2>4, <2>5
<1>5. CASE \E o \in Orders : Replan(o) \/ ImportOrder(o)
    BY <1>2, <1>5
<1>6. CASE \E S \in SUBSET Orders : Dispatched(S) \/ DeleteOrders(S)
    BY <1>3, <1>4, <1>6
<1> QED BY <1>5, <1>6 DEF Others

LEMMA InitType == Init => TypeOK
BY DEF Init, TypeOK, Task

LEMMA NextType == TypeOK /\ [Next]_vars => TypeOK'
<1> SUFFICES ASSUME TypeOK, [Next]_vars PROVE TypeOK'
    OBVIOUS
<1>1. CASE Others
    BY <1>1, OthersLeave
<1>2. ASSUME NEW s \in Sessions, Read(s) PROVE TypeOK'
    BY <1>2, ReadType
<1>3. ASSUME NEW s \in Sessions, Write(s) PROVE TypeOK'
    BY <1>3, WriteType
<1>4. ASSUME NEW s \in Sessions, Fail(s) PROVE TypeOK'
    <2>1. Idle \in Task
        BY DEF Task
    <2> QED BY <1>4, <2>1 DEF TypeOK, Fail
<1>5. CASE UNCHANGED vars
    BY <1>5 DEF TypeOK, vars
<1> QED BY <1>1, <1>2, <1>3, <1>4, <1>5 DEF Next

\* Every handler leaves orders, rows and pending handlers well formed: rows
\* have a free id and a position from 1 on, in all interleavings.
THEOREM TypeCorrect == Spec => []TypeOK
BY InitType, NextType, PTL DEF Spec

-----------------------------------------------------------------------------
(* Renumbering. *)

\* Taking an order out by hand renumbers the others 1, 2, 3..., whatever
\* positions deleted orders and overlapping sessions have left.
THEOREM DequeueAlwaysRenumbers == Spec => DequeueRenumbers
<1> DEFINE Numbered == \A s \in Sessions : WriteDequeue(s) =>
              {table'[i].position : i \in Present(table')} = 1..Cardinality(Present(table'))
<1>1. TypeOK /\ [Next]_vars => [Numbered]_vars
    <2> SUFFICES ASSUME TypeOK, NEW s \in Sessions, WriteDequeue(s)
                 PROVE  {table'[i].position : i \in Present(table')}
                            = 1..Cardinality(Present(table'))
        OBVIOUS
    <2>1. Deleted(table, {task[s].id}) \in Table
        BY DeletedTable DEF TypeOK, Table
    <2>2. PICK u \in Repacked(Deleted(table, {task[s].id})) : table' = u
        BY DEF WriteDequeue, Commit
    <2> QED BY <2>1, <2>2, RepackedTable
<1> HIDE DEF Numbered
<1>2. TypeOK /\ [Next]_vars => TypeOK'
    BY NextType
<1>3. Init => TypeOK
    BY InitType
<1>4. Spec => [][Numbered]_vars
    BY <1>1, <1>2, <1>3, PTL DEF Spec
<1> QED BY <1>4 DEF DequeueRenumbers, Numbered

-----------------------------------------------------------------------------
(* Calls that do not overlap. *)

\* One handler at a time has read and not yet written.
OneAtATime == \A r, s \in Sessions : task[r] # Idle /\ task[s] # Idle => r = s

\* What it has read still holds.
Fresh ==
    \A s \in Sessions :
        /\ task[s].op = "enqueue" => Behind(table, task[s].position)
        /\ task[s].op = "move" => Places(table, task[s])

SerialInv == TypeOK /\ PositionsDistinct /\ OneAtATime /\ Fresh

LEMMA SerialRead ==
    ASSUME SerialInv, \A r \in Sessions : task[r] = Idle, NEW s \in Sessions, Read(s)
    PROVE  SerialInv'
<1>1. TypeOK'
    BY ReadType DEF SerialInv
<1>2. PICK k : /\ Begin(s, k)
               /\ k.op = "enqueue" => Behind(table, k.position)
               /\ k.op = "move" => Places(table, k)
    <2>1. table \in Table
        BY DEF SerialInv, TypeOK, Table
    <2>2. Behind(table, NextPosition(table))
        BY <2>1, NextPositionIsLast DEF Behind
    <2>3. ASSUME NEW o, NEW rest, NEW hold, ReadEnqueue(s, o, rest, hold)
          PROVE  \E k : /\ Begin(s, k)
                        /\ k.op = "enqueue" => Behind(table, k.position)
                        /\ k.op = "move" => Places(table, k)
        BY <2>2, <2>3 DEF ReadEnqueue
    <2>4. ASSUME NEW o, ReadDequeue(s, o)
          PROVE  \E k : /\ Begin(s, k)
                        /\ k.op = "enqueue" => Behind(table, k.position)
                        /\ k.op = "move" => Places(table, k)
        BY <2>4 DEF ReadDequeue
    <2>5. ASSUME NEW o, NEW hold, ReadHeld(s, o, hold)
          PROVE  \E k : /\ Begin(s, k)
                        /\ k.op = "enqueue" => Behind(table, k.position)
                        /\ k.op = "move" => Places(table, k)
        BY <2>5 DEF ReadHeld
    <2>6. ASSUME NEW i, NEW j, ReadMove(s, i, j)
          PROVE  \E k : /\ Begin(s, k)
                        /\ k.op = "enqueue" => Behind(table, k.position)
                        /\ k.op = "move" => Places(table, k)
        BY <2>6 DEF ReadMove, IsNeighbour, Places
    <2> QED BY <2>3, <2>4, <2>5, <2>6 DEF Read
<1>3. table' = table /\ task' = [task EXCEPT ![s] = k]
    BY <1>2 DEF Begin
<1>4. \A r \in Sessions : task'[r] = IF r = s THEN k ELSE Idle
    BY <1>3 DEF SerialInv, TypeOK
<1>5. OneAtATime'
    BY <1>4 DEF OneAtATime
<1>6. Fresh'
    BY <1>2, <1>3, <1>4 DEF Fresh, Behind, Places, Present, Idle
<1>7. PositionsDistinct'
    BY <1>3 DEF SerialInv, PositionsDistinct, Present
<1> QED BY <1>1, <1>5, <1>6, <1>7 DEF SerialInv

\* After the one handler's transaction, or its failure, none is pending.
LEMMA SerialRest ==
    ASSUME SerialInv, NEW s \in Sessions, task[s] # Idle, TypeOK',
           task' = [task EXCEPT ![s] = Idle], Distinct(table')
    PROVE  SerialInv'
<1>1. \A r \in Sessions : task'[r] = Idle
    BY DEF SerialInv, OneAtATime, TypeOK
<1>2. OneAtATime' /\ Fresh'
    BY <1>1 DEF OneAtATime, Fresh, Idle
<1> QED BY <1>2 DEF SerialInv, PositionsDistinct, Distinct

LEMMA SerialWrite ==
    ASSUME SerialInv, NEW s \in Sessions, Write(s)
    PROVE  SerialInv'
<1>1. TypeOK /\ Distinct(table)
    BY DEF SerialInv, PositionsDistinct, Distinct
<1>2. /\ task[s].op = "enqueue" => Behind(table, task[s].position)
      /\ task[s].op = "move" => Places(table, task[s])
    BY DEF SerialInv, Fresh
<1>3. PICK u \in Table : Commit(s, u) /\ Distinct(u)
    <2>1. CASE WriteEnqueue(s)
        <3>1. task[s].op = "enqueue"
            BY <2>1 DEF WriteEnqueue
        <3> QED BY <1>1, <1>2, <2>1, <3>1, EnqueueLeaves
    <2>2. CASE WriteDequeue(s)
        BY <1>1, <2>2, DequeueLeaves
    <2>3. CASE WriteHeld(s)
        BY <1>1, <2>3, HeldLeaves
    <2>4. CASE WriteMove(s)
        <3>1. task[s].op = "move"
            BY <2>4 DEF WriteMove
        <3> QED BY <1>1, <1>2, <2>4, <3>1, MoveLeaves
    <2> QED BY <2>1, <2>2, <2>3, <2>4 DEF Write
<1>4. task[s] # Idle
    BY DEF Write, WriteEnqueue, WriteDequeue, WriteHeld, WriteMove, Idle
<1>5. TypeOK'
    BY <1>1, WriteType
<1> QED BY <1>3, <1>4, <1>5, SerialRest DEF Commit

LEMMA SerialStep == SerialInv /\ [SerialNext]_vars => SerialInv'
<1> SUFFICES ASSUME SerialInv, [SerialNext]_vars PROVE SerialInv'
    OBVIOUS
<1>1. CASE (\A s \in Sessions : task[s] = Idle) /\ Others
    <2>1. TypeOK' /\ task' = task /\ (Distinct(table) => Distinct(table'))
        BY <1>1, OthersLeave DEF SerialInv
    <2>2. PositionsDistinct'
        BY <2>1 DEF SerialInv, PositionsDistinct, Distinct
    <2>3. OneAtATime' /\ Fresh'
        BY <1>1, <2>1 DEF OneAtATime, Fresh, Idle
    <2> QED BY <2>1, <2>2, <2>3 DEF SerialInv
<1>2. ASSUME NEW s \in Sessions, \A r \in Sessions : task[r] = Idle, Read(s)
      PROVE  SerialInv'
    BY <1>2, SerialRead
<1>3. ASSUME NEW s \in Sessions, Write(s) PROVE SerialInv'
    BY <1>3, SerialWrite
<1>4. ASSUME NEW s \in Sessions, Fail(s) PROVE SerialInv'
    <2>1. TypeOK'
        BY <1>4, NextType DEF SerialInv, Next
    <2>2. Distinct(table')
        BY <1>4 DEF Fail, SerialInv, PositionsDistinct, Distinct
    <2> QED BY <1>4, <2>1, <2>2, SerialRest DEF Fail
<1>5. CASE UNCHANGED vars
    BY <1>5 DEF vars, SerialInv, TypeOK, PositionsDistinct, OneAtATime, Fresh,
                Behind, Places, Present
<1> QED BY <1>1, <1>2, <1>3, <1>4, <1>5 DEF SerialNext

\* As long as calls do not overlap no two rows ever share a position, though
\* four handlers hand out, swap, renumber and leave gaps in them and nothing
\* in the schema forbids it.
THEOREM PositionsStayDistinct == SerialSpec => []PositionsDistinct
<1>1. Init => SerialInv
    <2> SUFFICES ASSUME Init PROVE SerialInv
        OBVIOUS
    <2>1. Present(table) = {}
        BY DEF Init, Present, NoRow
    <2>2. TypeOK
        BY InitType
    <2> QED BY <2>1, <2>2 DEF Init, SerialInv, PositionsDistinct, OneAtATime, Fresh, Idle
<1>2. SerialInv => PositionsDistinct
    BY DEF SerialInv
<1> QED BY <1>1, <1>2, SerialStep, PTL DEF SerialSpec

-----------------------------------------------------------------------------
(* The line: the table implements QueueOrder, as long as calls do not overlap. *)

\* No order has two rows.
Unique(t) == \A i, j \in Present(t) : t[i].order = t[j].order => i = j

LEMMA AheadIsByPosition ==
    ASSUME NEW t \in Table, Unique(t), NEW i \in Present(t), NEW j \in Present(t)
    PROVE  <<t[i].order, t[j].order>> \in Ahead(t) <=> t[i].position < t[j].position
<1> DEFINE pair == <<t[i].order, t[j].order>>
<1>1. pair \in Queued(t) \X Queued(t)
    BY DEF Queued
<1>2. ASSUME NEW k \in Present(t), NEW l \in Present(t), pair = <<t[k].order, t[l].order>>
      PROVE  k = i /\ l = j
    <2>1. t[i].order = t[k].order /\ t[j].order = t[l].order
        BY <1>2
    <2> QED BY <2>1 DEF Unique
<1>3. pair \in Ahead(t) <=> \E k, l \in Present(t) :
            pair = <<t[k].order, t[l].order>> /\ t[k].position < t[l].position
    BY <1>1 DEF Ahead
<1>4. pair = <<t[i].order, t[j].order>>
    OBVIOUS
<1> HIDE DEF pair
<1> QED BY <1>2, <1>3, <1>4

LEMMA AheadOfQueued ==
    ASSUME NEW t
    PROVE  Ahead(t) \in SUBSET (Queued(t) \X Queued(t))
BY DEF Ahead

\* Two orderings of a table's orders agree if they agree row by row.
LEMMA SameByRows ==
    ASSUME NEW t, NEW A \in SUBSET (Queued(t) \X Queued(t)),
           NEW B \in SUBSET (Queued(t) \X Queued(t)),
           \A i, j \in Present(t) :
               <<t[i].order, t[j].order>> \in A <=> <<t[i].order, t[j].order>> \in B
    PROVE  A = B
<1>1. \A o, p \in Queued(t) : <<o, p>> \in A <=> <<o, p>> \in B
    BY DEF Queued
<1> QED BY <1>1

\* A new row in a free place behind all others: its order joins the line last.
LEMMA InsertedJoins ==
    ASSUME NEW t \in Table, Unique(t), NEW o \in Orders, o \notin Queued(t),
           NEW p \in Nat \ {0}, Behind(t, p), NEW hold \in BOOLEAN, NextId(t) <= MaxRow
    PROVE  LET u == Inserted(t, o, p, hold) IN
           /\ u \in Table /\ Unique(u)
           /\ Queued(u) = Queued(t) \cup {o}
           /\ Ahead(u) = Ahead(t) \cup (Queued(t) \X {o})
           /\ hold => HeldOrders(u) = HeldOrders(t) \cup {o}
           /\ ~ hold => HeldOrders(u) = HeldOrders(t)
<1> DEFINE u == Inserted(t, o, p, hold)
           n == NextId(t)
           P == Present(t)
           Q == Queued(t)
<1>1. /\ u \in Table /\ Present(u) = P \cup {n} /\ n \notin P
      /\ \A i \in P : u[i] = t[i]
    BY InsertedTable, NextIdIsFree
<1>2. u[n] = [order |-> o, position |-> p, held |-> hold]
    BY NextIdIsFree, BoundsAssumption DEF Inserted, Table, Ids
<1>3. u[n].order = o /\ u[n].position = p /\ u[n].held = hold
    BY <1>2
<1>4. \A i \in P : t[i].position \in Nat /\ t[i].order \in Q /\ t[i].order # o
    BY PresentRows DEF Row, Queued
<1> HIDE DEF u, n
<1>5. Unique(u)
    BY <1>1, <1>3, <1>4 DEF Unique
<1>6. Queued(u) = Q \cup {o}
    <2>1. Queued(u) = {u[i].order : i \in P} \cup {u[n].order}
        BY <1>1 DEF Queued
    <2>2. {u[i].order : i \in P} = Q
        BY <1>1 DEF Queued
    <2> QED BY <1>3, <2>1, <2>2
<1>7. /\ hold => HeldOrders(u) = HeldOrders(t) \cup {o}
      /\ ~ hold => HeldOrders(u) = HeldOrders(t)
    <2>1. {i \in Present(u) : u[i].held} = {i \in P : t[i].held} \cup (IF hold THEN {n} ELSE {})
        BY <1>1, <1>3
    <2>2. \A i \in {i \in P : t[i].held} : u[i].order = t[i].order
        BY <1>1
    <2> QED BY <1>3, <2>1, <2>2 DEF HeldOrders
<1>8. Ahead(u) = Ahead(t) \cup (Q \X {o})
    <2> DEFINE A == Ahead(u)
               B == Ahead(t) \cup (Q \X {o})
    <2>1. A \in SUBSET (Queued(u) \X Queued(u))
        BY AheadOfQueued
    <2>2. B \in SUBSET (Queued(u) \X Queued(u))
        BY <1>6, AheadOfQueued
    <2>3. ASSUME NEW i \in Present(u), NEW j \in Present(u)
          PROVE  <<u[i].order, u[j].order>> \in A <=> <<u[i].order, u[j].order>> \in B
        <3>1. <<u[i].order, u[j].order>> \in A <=> u[i].position < u[j].position
            BY <1>1, <1>5, AheadIsByPosition
        <3>2. CASE i \in P /\ j \in P
            <4>1. <<t[i].order, t[j].order>> \in Ahead(t) <=> t[i].position < t[j].position
                BY <3>2, AheadIsByPosition
            <4>2. t[j].order # o
                BY <1>4, <3>2
            <4> QED BY <1>1, <3>1, <3>2, <4>1, <4>2
        <3>3. CASE i \in P /\ j = n
            <4>1. t[i].position < p /\ t[i].order \in Q
                BY <1>4, <3>3 DEF Behind
            <4> QED BY <1>1, <1>3, <3>1, <3>3, <4>1
        <3>4. CASE i = n
            <4>1. ~ (u[i].position < u[j].position)
                BY <1>1, <1>3, <1>4, <3>4 DEF Behind
            <4>2. <<u[i].order, u[j].order>> \notin B
                BY <1>3, <3>4, AheadOfQueued
            <4> QED BY <3>1, <4>1, <4>2
        <3> QED BY <1>1, <3>2, <3>3, <3>4
    <2> HIDE DEF A, B
    <2>4. A = B
        BY <2>1, <2>2, <2>3, SameByRows
    <2> QED BY <2>4 DEF A, B
<1> QED BY <1>1, <1>5, <1>6, <1>7, <1>8 DEF u

\* Rows that stay keep their order, their hold and their places in the line;
\* the orders of the others leave it.
LEMMA KeptTakesOut ==
    ASSUME NEW t \in Table, NEW u \in Table, Unique(t), Present(u) \subseteq Present(t),
           \A i \in Present(u) : u[i].order = t[i].order /\ u[i].held = t[i].held,
           \A i, j \in Present(u) :
               u[i].position < u[j].position <=> t[i].position < t[j].position
    PROVE  /\ Unique(u)
           /\ \E S \in SUBSET Queued(t) :
                 /\ Queued(u) = Queued(t) \ S
                 /\ Ahead(u) = Ahead(t) \cap (Queued(u) \X Queued(u))
                 /\ HeldOrders(u) = HeldOrders(t) \ S
<1> DEFINE gone == Present(t) \ Present(u)
           S == {t[i].order : i \in gone}
<1>1. Unique(u)
    BY DEF Unique
<1>2. S \in SUBSET Queued(t)
    BY DEF Queued
<1>3. \A i \in Present(t) : t[i].order \in S <=> i \notin Present(u)
    BY DEF Unique
<1> HIDE DEF S
<1>4. Queued(u) = Queued(t) \ S
    BY <1>3 DEF Queued
<1>5. HeldOrders(u) = HeldOrders(t) \ S
    <2>1. ASSUME NEW o \in HeldOrders(u) PROVE o \in HeldOrders(t) \ S
        <3>1. PICK i \in Present(u) : u[i].held /\ o = u[i].order
            BY DEF HeldOrders
        <3>2. t[i].held /\ o = t[i].order /\ i \in Present(t)
            BY <3>1
        <3> QED BY <1>3, <3>1, <3>2 DEF HeldOrders
    <2>2. ASSUME NEW o \in HeldOrders(t) \ S PROVE o \in HeldOrders(u)
        <3>1. PICK i \in Present(t) : t[i].held /\ o = t[i].order
            BY DEF HeldOrders
        <3>2. i \in Present(u)
            BY <1>3, <3>1
        <3>3. u[i].held /\ o = u[i].order
            BY <3>1, <3>2
        <3> QED BY <3>2, <3>3 DEF HeldOrders
    <2> QED BY <2>1, <2>2
<1>6. Ahead(u) = Ahead(t) \cap (Queued(u) \X Queued(u))
    <2> DEFINE A == Ahead(u)
               B == Ahead(t) \cap (Queued(u) \X Queued(u))
    <2>1. A \in SUBSET (Queued(u) \X Queued(u))
        BY AheadOfQueued
    <2>2. ASSUME NEW i \in Present(u), NEW j \in Present(u)
          PROVE  <<u[i].order, u[j].order>> \in A <=> <<u[i].order, u[j].order>> \in B
        <3>1. <<u[i].order, u[j].order>> \in A <=> u[i].position < u[j].position
            BY <1>1, AheadIsByPosition
        <3>2. <<t[i].order, t[j].order>> \in Ahead(t) <=> t[i].position < t[j].position
            BY AheadIsByPosition
        <3>3. u[i].order \in Queued(u) /\ u[j].order \in Queued(u)
            BY DEF Queued
        <3>4. u[i].order = t[i].order /\ u[j].order = t[j].order
            OBVIOUS
        <3>5. u[i].position < u[j].position <=> t[i].position < t[j].position
            OBVIOUS
        <3> HIDE DEF A
        <3> QED BY <3>1, <3>2, <3>3, <3>4, <3>5
    <2>3. B \in SUBSET (Queued(u) \X Queued(u))
        OBVIOUS
    <2> HIDE DEF A, B
    <2>4. A = B
        BY <2>1, <2>2, <2>3, SameByRows
    <2> QED BY <2>4 DEF A, B
<1> QED BY <1>1, <1>2, <1>4, <1>5, <1>6

\* Renumbering keeps the line.
LEMMA RepackedKeepsLine ==
    ASSUME NEW t \in Table, Distinct(t), NEW u \in Repacked(t)
    PROVE  /\ u \in Table /\ Present(u) = Present(t)
           /\ \A i \in Present(u) : u[i].order = t[i].order /\ u[i].held = t[i].held
           /\ \A i, j \in Present(u) :
                 u[i].position < u[j].position <=> t[i].position < t[j].position
<1> DEFINE rows == Present(t)
           N == Cardinality(rows)
<1>1. IsFiniteSet(rows) /\ rows \in SUBSET Ids /\ N \in Nat
    BY PresentRows, FS_CardinalityType
<1>2. PICK f \in [rows -> 1..N] :
        /\ \A i, j \in rows : i # j => f[i] # f[j]
        /\ \A i, j \in rows : t[i].position < t[j].position => f[i] < f[j]
        /\ u = [i \in Ids |-> IF i \in rows THEN [t[i] EXCEPT !.position = f[i]] ELSE t[i]]
    BY DEF Repacked
<1>3. u \in Table /\ Present(u) = rows
    BY RepackedTable
<1>4. \A i \in rows : t[i] \in Row
    BY PresentRows
<1> HIDE DEF N
<1>5. \A i \in rows : /\ u[i].order = t[i].order /\ u[i].held = t[i].held
                      /\ u[i].position = f[i] /\ f[i] \in Int /\ t[i].position \in Int
    <2> TAKE i \in rows
    <2>1. u[i] = [t[i] EXCEPT !.position = f[i]]
        BY <1>1, <1>2
    <2>2. f[i] \in Int
        BY <1>1, <1>2
    <2> QED BY <1>4, <2>1, <2>2 DEF Row
<1>6. ASSUME NEW i \in rows, NEW j \in rows
      PROVE  u[i].position < u[j].position <=> t[i].position < t[j].position
    <2>1. t[i].position = t[j].position => i = j
        BY DEF Distinct
    <2>2. /\ t[i].position < t[j].position => f[i] < f[j]
          /\ t[j].position < t[i].position => f[j] < f[i]
        BY <1>2
    <2>3. /\ f[i] \in Int /\ f[j] \in Int /\ t[i].position \in Int /\ t[j].position \in Int
          /\ u[i].position = f[i] /\ u[j].position = f[j]
        BY <1>5
    <2> QED BY <2>1, <2>2, <2>3
<1> HIDE DEF rows
<1> QED BY <1>3, <1>5, <1>6 DEF rows

\* u is the table t with the positions of two rows exchanged.
Swapped(t, u, a, b) ==
    /\ Present(u) = Present(t)
    /\ \A i \in Present(t) : u[i].order = t[i].order /\ u[i].held = t[i].held
    /\ u[a].position = t[b].position /\ u[b].position = t[a].position
    /\ \A i \in Present(t) \ {a, b} : u[i].position = t[i].position

\* Two neighbours swap their places.
LEMMA SwappedLine ==
    ASSUME NEW t \in Table, Unique(t), Distinct(t), NEW a \in Present(t), NEW b \in Present(t),
           IsNeighbour(t, a, b), NEW u \in Table, Swapped(t, u, a, b)
    PROVE  LET o == t[a].order
               p == t[b].order
           IN  /\ Unique(u) /\ Queued(u) = Queued(t) /\ HeldOrders(u) = HeldOrders(t)
               /\ o \in Queued(t) /\ p \in Queued(t)
               /\ <<o, p>> \in Ahead(t)
               /\ ~ \E q \in Queued(t) : <<o, q>> \in Ahead(t) /\ <<q, p>> \in Ahead(t)
               /\ Ahead(u) = (Ahead(t) \ {<<o, p>>}) \cup {<<p, o>>}
<1> DEFINE P == Present(t)
           o == t[a].order
           p == t[b].order
<1> /\ Present(u) = P
    /\ \A i \in P : u[i].order = t[i].order /\ u[i].held = t[i].held
    /\ u[a].position = t[b].position /\ u[b].position = t[a].position
    /\ \A i \in P \ {a, b} : u[i].position = t[i].position
    BY DEF Swapped
<1>1. Unique(u)
    BY DEF Unique
<1>2. Queued(u) = Queued(t)
    <2> HIDE DEF Queued
    <2>1. \A x : x \in Queued(u) <=> \E i \in P : x = t[i].order
        BY DEF Queued
    <2>2. \A x : x \in Queued(t) <=> \E i \in P : x = t[i].order
        BY DEF Queued
    <2> QED BY <2>1, <2>2
<1>3. HeldOrders(u) = HeldOrders(t)
    <2>1. {i \in Present(u) : u[i].held} = {i \in P : t[i].held}
        OBVIOUS
    <2>2. \A i \in {i \in P : t[i].held} : u[i].order = t[i].order
        OBVIOUS
    <2> QED BY <2>1, <2>2 DEF HeldOrders
<1>4. \A i \in P : t[i].position \in Int
    BY PresentRows DEF Row
<1>5. a # b /\ t[a].position < t[b].position
    <2>1. a # b /\ t[a].position <= t[b].position /\ t[a].position # t[b].position
        BY DEF IsNeighbour, Distinct
    <2> QED BY <1>4, <2>1
<1>6. \A k \in P \ {a, b} : t[k].position < t[a].position \/ t[b].position < t[k].position
    <2> TAKE k \in P \ {a, b}
    <2>1. ~ (t[a].position < t[k].position /\ t[k].position < t[b].position)
        BY DEF IsNeighbour
    <2>2. t[k].position # t[a].position /\ t[k].position # t[b].position
        BY DEF Distinct
    <2> QED BY <1>4, <2>1, <2>2
<1>7. o \in Queued(t) /\ p \in Queued(t) /\ o # p
    BY <1>5 DEF Queued, Unique
<1>8. <<o, p>> \in Ahead(t)
    BY <1>5, AheadIsByPosition
<1>9. ~ \E q \in Queued(t) : <<o, q>> \in Ahead(t) /\ <<q, p>> \in Ahead(t)
    <2> SUFFICES ASSUME NEW k \in P, <<o, t[k].order>> \in Ahead(t), <<t[k].order, p>> \in Ahead(t)
                 PROVE  FALSE
        BY DEF Queued
    <2>1. t[a].position < t[k].position /\ t[k].position < t[b].position
        BY AheadIsByPosition
    <2>2. k # a /\ k # b
        BY <1>4, <2>1
    <2> QED BY <1>4, <1>6, <2>1, <2>2
<1>10. Ahead(u) = (Ahead(t) \ {<<o, p>>}) \cup {<<p, o>>}
    <2> DEFINE A == Ahead(u)
               B == (Ahead(t) \ {<<o, p>>}) \cup {<<p, o>>}
    <2>1. A \in SUBSET (Queued(u) \X Queued(u))
        BY AheadOfQueued
    <2>2. B \in SUBSET (Queued(u) \X Queued(u))
        BY <1>2, <1>7, AheadOfQueued
    <2>3. ASSUME NEW i \in P, NEW j \in P
          PROVE  <<u[i].order, u[j].order>> \in A <=> <<u[i].order, u[j].order>> \in B
        <3>1. <<t[i].order, t[j].order>> \in A <=> u[i].position < u[j].position
            BY <1>1, AheadIsByPosition
        <3>2. <<t[i].order, t[j].order>> \in Ahead(t) <=> t[i].position < t[j].position
            BY AheadIsByPosition
        <3>3. /\ t[i].order = o <=> i = a
              /\ t[i].order = p <=> i = b
              /\ t[j].order = o <=> j = a
              /\ t[j].order = p <=> j = b
            BY DEF Unique
        <3>4. <<t[i].order, t[j].order>> \in B <=>
                \/ t[i].position < t[j].position /\ ~ (i = a /\ j = b)
                \/ i = b /\ j = a
            <4> HIDE DEF o, p
            <4> QED BY <3>2, <3>3
        <3>5. u[i].position < u[j].position <=>
                \/ t[i].position < t[j].position /\ ~ (i = a /\ j = b)
                \/ i = b /\ j = a
            <4>1. /\ u[i].position = IF i = a THEN t[b].position
                                     ELSE IF i = b THEN t[a].position ELSE t[i].position
                  /\ u[j].position = IF j = a THEN t[b].position
                                     ELSE IF j = b THEN t[a].position ELSE t[j].position
                OBVIOUS
            <4>2. /\ i \notin {a, b} => t[i].position < t[a].position \/ t[b].position < t[i].position
                  /\ j \notin {a, b} => t[j].position < t[a].position \/ t[b].position < t[j].position
                BY <1>6
            <4>3. /\ t[i].position \in Int /\ t[j].position \in Int
                  /\ t[a].position \in Int /\ t[b].position \in Int
                BY <1>4
            <4>4. t[a].position < t[b].position /\ a # b
                BY <1>5
            <4> QED BY <4>1, <4>2, <4>3, <4>4
        <3> HIDE DEF A, B
        <3> QED BY <3>1, <3>4, <3>5
    <2> HIDE DEF A, B
    <2>4. A = B
        BY <2>1, <2>2, <2>3, SameByRows
    <2> QED BY <2>4 DEF A, B
<1> QED BY <1>1, <1>2, <1>3, <1>7, <1>8, <1>9, <1>10

LEMMA ListAfterwards ==
    /\ Queued(table)' = Queued(table')
    /\ Ahead(table)' = Ahead(table')
    /\ HeldOrders(table)' = HeldOrders(table')
BY DEF Queued, Ahead, HeldOrders, Present

LEMMA ListUnchanged ==
    ASSUME UNCHANGED table
    PROVE  UNCHANGED <<Queued(table), Ahead(table), HeldOrders(table)>>
BY DEF Queued, Ahead, HeldOrders, Present

LEMMA TakeOutStep ==
    ASSUME table \in Table, table' \in Table, Unique(table),
           Present(table') \subseteq Present(table),
           \A i \in Present(table') :
               table'[i].order = table[i].order /\ table'[i].held = table[i].held,
           \A i, j \in Present(table') :
               table'[i].position < table'[j].position <=> table[i].position < table[j].position
    PROVE  Unique(table') /\ List!Next
<1>1. /\ Unique(table')
      /\ \E S \in SUBSET Queued(table) :
            /\ Queued(table') = Queued(table) \ S
            /\ Ahead(table') = Ahead(table) \cap (Queued(table') \X Queued(table'))
            /\ HeldOrders(table') = HeldOrders(table) \ S
    BY KeptTakesOut
<1>2. \E S \in SUBSET Queued(table) : List!TakeOut(S)
    BY <1>1, ListAfterwards DEF List!TakeOut
<1> QED BY <1>1, <1>2 DEF List!Next

\* Deleting rows, with and without renumbering the others.
LEMMA DeletedStep ==
    ASSUME table \in Table, Unique(table), NEW gone, table' = Deleted(table, gone)
    PROVE  Unique(table') /\ List!Next
<1>1. /\ table' \in Table /\ Present(table') \subseteq Present(table)
      /\ \A i \in Present(table') : table'[i] = table[i]
    BY DeletedTable
<1> QED BY <1>1, TakeOutStep

LEMMA RepackedStep ==
    ASSUME table \in Table, Unique(table), Distinct(table), NEW gone,
           NEW u \in Repacked(Deleted(table, gone)), table' = u
    PROVE  Unique(table') /\ List!Next
<1> DEFINE t == Deleted(table, gone)
<1>1. /\ t \in Table /\ Present(t) \subseteq Present(table)
      /\ \A i \in Present(t) : t[i] = table[i]
    BY DeletedTable
<1> HIDE DEF t
<1>2. Distinct(t)
    BY <1>1 DEF Distinct
<1>3. /\ u \in Table /\ Present(u) = Present(t)
      /\ \A i \in Present(u) : u[i].order = t[i].order /\ u[i].held = t[i].held
      /\ \A i, j \in Present(u) : u[i].position < u[j].position <=> t[i].position < t[j].position
    BY <1>1, <1>2, RepackedKeepsLine DEF t
<1>4. /\ table' \in Table /\ Present(table') \subseteq Present(table)
      /\ \A i \in Present(table') :
            table'[i].order = table[i].order /\ table'[i].held = table[i].held
      /\ \A i, j \in Present(table') :
            table'[i].position < table'[j].position <=> table[i].position < table[j].position
    BY <1>1, <1>3
<1> QED BY <1>4, TakeOutStep

\* One order or two enter, behind the others and in this order.
LEMMA EnqueueStep ==
    ASSUME TypeOK, Unique(table), NEW s \in Sessions, WriteEnqueue(s),
           Behind(table, task[s].position)
    PROVE  Unique(table') /\ List!Next
<1> DEFINE k == task[s]
           t == Inserted(table, k.first, k.position, k.hold)
           second == {o \in k.rest : CanEnter(t, o) /\ HasRoom(t)}
           o2 == CHOOSE o \in second : TRUE
           v == Inserted(t, o2, NextPosition(t), k.hold)
           Q == Queued(table)
           held == HeldOrders(table)
<1>1. /\ k.first \in Orders /\ k.rest \in SUBSET Orders
      /\ k.hold \in BOOLEAN /\ k.position \in Nat \ {0}
    <2>1. k \in Task /\ k.op = "enqueue"
        BY DEF TypeOK, WriteEnqueue
    <2> HIDE DEF k
    <2> QED BY <2>1, TaskFields
<1>2. /\ table \in Table /\ NextId(table) <= MaxRow
      /\ k.first \notin Q /\ Behind(table, k.position)
    BY DEF TypeOK, Table, WriteEnqueue, HasRoom
<1>3. table' = IF second = {} THEN t ELSE v
    BY DEF WriteEnqueue, Commit
<1> HIDE DEF k
<1>4. /\ t \in Table /\ Unique(t)
      /\ Queued(t) = Q \cup {k.first}
      /\ Ahead(t) = Ahead(table) \cup (Q \X {k.first})
      /\ k.hold => HeldOrders(t) = held \cup {k.first}
      /\ ~ k.hold => HeldOrders(t) = held
    BY <1>1, <1>2, InsertedJoins
<1> HIDE DEF t
<1>5. CASE second = {}
    <2>1. table' = t
        BY <1>3, <1>5
    <2>2. List!IsLine({}, {k.first})
        BY DEF List!IsLine
    <2>3. Ahead(table') = Ahead(table) \cup (Q \X {k.first}) \cup {}
        BY <1>4, <2>1
    <2>4. List!Join({k.first}, k.hold)
        BY <1>4, <2>1, <2>2, <2>3, ListAfterwards DEF List!Join
    <2>5. {k.first} \in SUBSET (Orders \ Q)
        BY <1>1, <1>2
    <2>6. List!Next
        BY <1>1, <2>4, <2>5 DEF List!Next
    <2> QED BY <1>4, <2>1, <2>6
<1>6. CASE second # {}
    <2>1. o2 \in second
        BY <1>6
    <2> HIDE DEF o2
    <2>2. o2 \in Orders /\ o2 \notin Queued(t) /\ NextId(t) <= MaxRow
        BY <1>1, <2>1 DEF CanEnter, HasRoom
    <2>3. NextPosition(t) \in Nat \ {0} /\ Behind(t, NextPosition(t))
        BY <1>4, NextPositionIsLast DEF Behind
    <2>4. /\ v \in Table /\ Unique(v)
          /\ Queued(v) = Queued(t) \cup {o2}
          /\ Ahead(v) = Ahead(t) \cup (Queued(t) \X {o2})
          /\ k.hold => HeldOrders(v) = HeldOrders(t) \cup {o2}
          /\ ~ k.hold => HeldOrders(v) = HeldOrders(t)
        BY <1>1, <1>4, <2>2, <2>3, InsertedJoins
    <2>5. table' = v
        BY <1>3, <1>6
    <2> HIDE DEF v, second
    <2> DEFINE added == {k.first, o2}
               among == {<<k.first, o2>>}
    <2>6. k.first # o2
        BY <1>4, <2>2
    <2>7. List!IsLine(among, added) /\ among \in SUBSET (added \X added)
        BY <2>6 DEF List!IsLine
    <2>8. Ahead(table') = Ahead(table) \cup (Q \X added) \cup among
        <3>1. Ahead(table') = (Ahead(table) \cup (Q \X {k.first})) \cup ((Q \cup {k.first}) \X {o2})
            BY <1>4, <2>4, <2>5
        <3>2. (Q \X {k.first}) \cup ((Q \cup {k.first}) \X {o2}) = (Q \X added) \cup among
            OBVIOUS
        <3> HIDE DEF added, among
        <3> QED BY <3>1, <3>2
    <2>9. /\ Queued(table') = Q \cup added
          /\ HeldOrders(table') = IF k.hold THEN held \cup added ELSE held
        BY <1>4, <2>4, <2>5
    <2>10. added \in SUBSET (Orders \ Q)
        BY <1>1, <1>2, <1>4, <2>2
    <2> HIDE DEF added, among
    <2>11. List!Join(added, k.hold)
        BY <2>7, <2>8, <2>9, ListAfterwards DEF List!Join
    <2>12. List!Next
        BY <1>1, <2>10, <2>11 DEF List!Next
    <2> QED BY <2>4, <2>5, <2>12
<1> QED BY <1>5, <1>6

LEMMA HeldStep ==
    ASSUME TypeOK, Unique(table), NEW s \in Sessions, WriteHeld(s)
    PROVE  Unique(table') /\ (List!Next \/ UNCHANGED table)
<1> DEFINE k == task[s]
           r == [table[k.id] EXCEPT !.held = k.hold]
           u == [table EXCEPT ![k.id] = r]
           o == table[k.id].order
<1>1. k.id \in Ids /\ k.hold \in BOOLEAN
    <2>1. k \in Task /\ k.op = "hold"
        BY DEF TypeOK, WriteHeld
    <2> HIDE DEF k
    <2> QED BY <2>1, TaskFields
<1>2. table \in Table /\ k.id \in Present(table)
    BY DEF TypeOK, Table, WriteHeld
<1>3. table' = IF k.hold = k.was THEN table ELSE u
    BY <1>1, <1>2 DEF WriteHeld, Table, Commit
<1> HIDE DEF k
<1>4. r.position = table[k.id].position /\ r.order = o /\ r.held = k.hold
    <2>1. table[k.id] \in Row
        BY <1>1, <1>2, PresentRows
    <2> QED BY <1>1, <2>1 DEF Row
<1> HIDE DEF r
<1>5. /\ \A i \in Ids : u[i].position = table[i].position /\ u[i].order = table[i].order
      /\ u[k.id].held = k.hold
      /\ \A i \in Ids \ {k.id} : u[i].held = table[i].held
    BY <1>1, <1>2, <1>4 DEF Table
<1> HIDE DEF u
<1>6. Present(u) = Present(table)
    BY <1>5 DEF Present
<1>7. Unique(u)
    BY <1>5, <1>6 DEF Unique, Present
<1>8. Queued(u) = Queued(table)
    BY <1>5, <1>6 DEF Queued, Present
<1>9. Ahead(u) = Ahead(table)
    <2>1. \A i, j \in Present(table) :
            /\ u[i].order = table[i].order /\ u[j].order = table[j].order
            /\ u[i].position = table[i].position /\ u[j].position = table[j].position
        BY <1>5 DEF Present
    <2>2. ASSUME NEW p
          PROVE  (\E i, j \in Present(table) :
                    p = <<u[i].order, u[j].order>> /\ u[i].position < u[j].position)
                 <=> \E i, j \in Present(table) :
                    p = <<table[i].order, table[j].order>> /\ table[i].position < table[j].position
        BY <2>1
    <2> QED BY <1>6, <1>8, <2>2 DEF Ahead
<1>10. HeldOrders(u) = IF k.hold THEN HeldOrders(table) \cup {o} ELSE HeldOrders(table) \ {o}
    <2>1. \A x : x \in HeldOrders(u) <=> \E i \in Present(table) : u[i].held /\ x = table[i].order
        BY <1>5, <1>6 DEF HeldOrders, Present
    <2>2. \A x : x \in HeldOrders(table) <=>
                    \E i \in Present(table) : table[i].held /\ x = table[i].order
        BY DEF HeldOrders
    <2>3. \A i \in Present(table) : i # k.id => u[i].held = table[i].held /\ table[i].order # o
        BY <1>2, <1>5 DEF Unique, Present
    <2>4. ASSUME NEW x PROVE x \in HeldOrders(u) <=>
                (x = o /\ k.hold) \/ (x # o /\ x \in HeldOrders(table))
        <3>1. CASE x = o
            <4>1. \A i \in Present(table) : x = table[i].order <=> i = k.id
                BY <1>2, <2>3, <3>1
            <4>2. x \in HeldOrders(u) <=> u[k.id].held
                BY <1>2, <2>1, <4>1
            <4> QED BY <1>1, <1>5, <3>1, <4>2
        <3>2. CASE x # o
            <4>1. \A i \in Present(table) : x = table[i].order => u[i].held = table[i].held
                BY <2>3, <3>2
            <4> QED BY <2>1, <2>2, <3>2, <4>1
        <3> QED BY <3>1, <3>2
    <2> HIDE DEF o
    <2> QED BY <1>1, <2>4
<1>11. CASE k.hold = k.was
    BY <1>3, <1>11
<1>12. CASE k.hold # k.was
    <2>1. table' = u
        BY <1>3, <1>12
    <2>2. o \in Queued(table)
        BY <1>2 DEF Queued
    <2>3. List!SetHeld(o, k.hold)
        BY <1>8, <1>9, <1>10, <2>1, ListAfterwards DEF List!SetHeld
    <2> HIDE DEF o
    <2>4. List!Next
        BY <1>1, <2>2, <2>3 DEF List!Next
    <2> QED BY <1>7, <2>1, <2>4
<1> QED BY <1>11, <1>12

LEMMA MoveStep ==
    ASSUME TypeOK, Unique(table), Distinct(table), NEW s \in Sessions, WriteMove(s),
           Places(table, task[s]), IsNeighbour(table, task[s].id, task[s].with)
    PROVE  Unique(table') /\ List!Next
<1> DEFINE k == task[s]
           a == [table[k.id] EXCEPT !.position = k.swapped]
           b == [table[k.with] EXCEPT !.position = k.position]
           u == [table EXCEPT ![k.id].position = k.swapped, ![k.with].position = k.position]
           o == table[k.id].order
           p == table[k.with].order
<1>1. /\ k.id \in Ids /\ k.with \in Ids
      /\ k.position \in Nat \ {0} /\ k.swapped \in Nat \ {0}
    <2>1. k \in Task /\ k.op = "move"
        BY DEF TypeOK, WriteMove
    <2> HIDE DEF k
    <2> QED BY <2>1, TaskFields
<1>2. table \in Table /\ k.id \in Present(table) /\ k.with \in Present(table)
    BY DEF TypeOK, Table, WriteMove
<1>3. table' = IF k.position = k.swapped THEN table ELSE u
    BY DEF WriteMove, Commit
<1>4. Places(table, k) /\ IsNeighbour(table, k.id, k.with)
    OBVIOUS
<1> HIDE DEF k
<1>5. /\ k.id # k.with /\ k.position # k.swapped
      /\ table[k.id].position = k.position /\ table[k.with].position = k.swapped
    BY <1>2, <1>4 DEF Places, Distinct
<1>6. table[k.id] \in Row /\ table[k.with] \in Row
    BY <1>1, <1>2, PresentRows
<1>7. /\ a \in Row /\ a.position = k.swapped /\ a.order = o /\ a.held = table[k.id].held
      /\ b \in Row /\ b.position = k.position /\ b.order = p /\ b.held = table[k.with].held
    BY <1>1, <1>6 DEF Row
<1>8. u = [i \in Ids |-> IF i = k.id THEN a ELSE IF i = k.with THEN b ELSE table[i]]
    BY <1>1, <1>2, <1>5, <1>6 DEF Table, Row
<1>9. table' = u
    BY <1>3, <1>5
<1> HIDE DEF a, b, u
<1>10. u \in Table
    BY <1>2, <1>7, <1>8 DEF Table
<1>11. /\ \A i \in Ids : u[i].order = table[i].order /\ u[i].held = table[i].held
       /\ u[k.id].position = table[k.with].position /\ u[k.with].position = table[k.id].position
       /\ \A i \in Ids \ {k.id, k.with} : u[i].position = table[i].position
    BY <1>1, <1>5, <1>7, <1>8
<1>12. Present(u) = Present(table)
    BY <1>11 DEF Present
<1>13. Swapped(table, u, k.id, k.with)
    BY <1>11, <1>12 DEF Present, Swapped
<1>14. /\ Unique(u) /\ Queued(u) = Queued(table) /\ HeldOrders(u) = HeldOrders(table)
       /\ o \in Queued(table) /\ p \in Queued(table)
       /\ <<o, p>> \in Ahead(table)
       /\ ~ \E q \in Queued(table) : <<o, q>> \in Ahead(table) /\ <<q, p>> \in Ahead(table)
       /\ Ahead(u) = (Ahead(table) \ {<<o, p>>}) \cup {<<p, o>>}
    BY <1>2, <1>4, <1>10, <1>13, SwappedLine
<1> HIDE DEF o, p
<1>15. List!Swap(o, p)
    BY <1>9, <1>14, ListAfterwards DEF List!Swap, List!Neighbours
<1>16. List!Next
    BY <1>14, <1>15 DEF List!Next
<1> QED BY <1>9, <1>14, <1>16

\* The row to swap with is still the neighbour.
StillNeighbours ==
    \A s \in Sessions : task[s].op = "move" => IsNeighbour(table, task[s].id, task[s].with)

LineInv == SerialInv /\ Unique(table) /\ StillNeighbours

LEMMA LineAfterRead ==
    ASSUME LineInv, \A r \in Sessions : task[r] = Idle, NEW s \in Sessions, Read(s)
    PROVE  UNCHANGED table /\ StillNeighbours'
<1>1. PICK k : Begin(s, k) /\ (k.op = "move" => IsNeighbour(table, k.id, k.with))
    <2>1. ASSUME NEW o, NEW rest, NEW hold, ReadEnqueue(s, o, rest, hold)
          PROVE  \E k : Begin(s, k) /\ (k.op = "move" => IsNeighbour(table, k.id, k.with))
        BY <2>1 DEF ReadEnqueue
    <2>2. ASSUME NEW o, ReadDequeue(s, o)
          PROVE  \E k : Begin(s, k) /\ (k.op = "move" => IsNeighbour(table, k.id, k.with))
        BY <2>2 DEF ReadDequeue
    <2>3. ASSUME NEW o, NEW hold, ReadHeld(s, o, hold)
          PROVE  \E k : Begin(s, k) /\ (k.op = "move" => IsNeighbour(table, k.id, k.with))
        BY <2>3 DEF ReadHeld
    <2>4. ASSUME NEW i, NEW j, ReadMove(s, i, j)
          PROVE  \E k : Begin(s, k) /\ (k.op = "move" => IsNeighbour(table, k.id, k.with))
        BY <2>4 DEF ReadMove
    <2> QED BY <2>1, <2>2, <2>3, <2>4 DEF Read
<1>2. table' = table /\ task' = [task EXCEPT ![s] = k]
    BY <1>1 DEF Begin
<1>3. \A r \in Sessions : task'[r] = IF r = s THEN k ELSE Idle
    BY <1>2 DEF LineInv, SerialInv, TypeOK
<1>4. \A r \in Sessions : task'[r].op = "move" => IsNeighbour(table, task'[r].id, task'[r].with)
    BY <1>1, <1>3 DEF Idle
<1>5. \A r \in Sessions : task'[r].op = "move" => IsNeighbour(table', task'[r].id, task'[r].with)
    BY <1>2, <1>4
<1>6. StillNeighbours'
    BY <1>2, <1>5 DEF StillNeighbours, IsNeighbour, Present
<1> QED BY <1>2, <1>6

LEMMA LineAfterWrite ==
    ASSUME LineInv, NEW s \in Sessions, Write(s)
    PROVE  Unique(table') /\ (List!Next \/ UNCHANGED table)
<1>1. /\ TypeOK /\ Distinct(table) /\ Unique(table) /\ table \in Table
      /\ task[s].op = "enqueue" => Behind(table, task[s].position)
      /\ task[s].op = "move" =>
            Places(table, task[s]) /\ IsNeighbour(table, task[s].id, task[s].with)
    BY DEF LineInv, SerialInv, PositionsDistinct, Distinct, Fresh, StillNeighbours, TypeOK, Table
<1>2. CASE WriteEnqueue(s)
    <2>1. task[s].op = "enqueue"
        BY <1>2 DEF WriteEnqueue
    <2> QED BY <1>1, <1>2, <2>1, EnqueueStep
<1>3. CASE WriteDequeue(s)
    <2>1. PICK u \in Repacked(Deleted(table, {task[s].id})) : table' = u
        BY <1>3 DEF WriteDequeue, Commit
    <2> QED BY <1>1, <2>1, RepackedStep
<1>4. CASE WriteHeld(s)
    BY <1>1, <1>4, HeldStep
<1>5. CASE WriteMove(s)
    <2>1. task[s].op = "move"
        BY <1>5 DEF WriteMove
    <2> QED BY <1>1, <1>5, <2>1, MoveStep
<1> QED BY <1>2, <1>3, <1>4, <1>5 DEF Write

LEMMA LineAfterOthers ==
    ASSUME LineInv, Others
    PROVE  Unique(table') /\ (List!Next \/ UNCHANGED table)
<1>1. /\ TypeOK /\ Distinct(table) /\ Unique(table) /\ table \in Table
    BY DEF LineInv, SerialInv, PositionsDistinct, Distinct, TypeOK, Table
<1>2. ASSUME NEW o \in Orders, Replan(o) \/ ImportOrder(o)
      PROVE  UNCHANGED table
    BY <1>2 DEF Replan, ImportOrder
<1>3. ASSUME NEW S \in SUBSET Orders, Dispatched(S)
      PROVE  Unique(table') /\ List!Next
    <2>1. PICK u \in Repacked(Deleted(table, RowsOf(S))) : table' = u
        BY <1>3 DEF Dispatched
    <2> QED BY <1>1, <2>1, RepackedStep
<1>4. ASSUME NEW S \in SUBSET Orders, DeleteOrders(S)
      PROVE  Unique(table') /\ List!Next
    <2>1. table' = Deleted(table, RowsOf(S))
        BY <1>4 DEF DeleteOrders
    <2> QED BY <1>1, <2>1, DeletedStep
<1> QED BY <1>1, <1>2, <1>3, <1>4 DEF Others

LEMMA LineStep ==
    LineInv /\ [SerialNext]_vars =>
        LineInv' /\ [List!Next]_<<Queued(table), Ahead(table), HeldOrders(table)>>
<1> SUFFICES ASSUME LineInv, [SerialNext]_vars
             PROVE  LineInv' /\ (List!Next \/ UNCHANGED table)
    BY ListUnchanged
<1>1. SerialInv'
    BY SerialStep DEF LineInv
<1>2. ASSUME UNCHANGED table PROVE Unique(table')
    BY <1>2 DEF LineInv
<1>3. ASSUME \A s \in Sessions : task'[s] = Idle PROVE StillNeighbours'
    BY <1>3 DEF StillNeighbours, Idle
<1>4. ASSUME NEW s \in Sessions, task[s] # Idle, task' = [task EXCEPT ![s] = Idle]
      PROVE  StillNeighbours'
    <2>1. \A r \in Sessions : task'[r] = Idle
        BY <1>4 DEF LineInv, SerialInv, OneAtATime, TypeOK
    <2> QED BY <1>3, <2>1
<1>5. CASE (\A s \in Sessions : task[s] = Idle) /\ Others
    <2>1. task' = task
        BY <1>5, OthersLeave DEF LineInv, SerialInv
    <2> QED BY <1>1, <1>3, <1>5, <2>1, LineAfterOthers DEF LineInv
<1>6. ASSUME NEW s \in Sessions, \A r \in Sessions : task[r] = Idle, Read(s)
      PROVE  LineInv' /\ UNCHANGED table
    BY <1>1, <1>2, <1>6, LineAfterRead DEF LineInv
<1>7. ASSUME NEW s \in Sessions, Write(s)
      PROVE  LineInv' /\ (List!Next \/ UNCHANGED table)
    <2>1. task[s] # Idle /\ task' = [task EXCEPT ![s] = Idle]
        BY <1>7 DEF Write, WriteEnqueue, WriteDequeue, WriteHeld, WriteMove, Commit, Idle
    <2> QED BY <1>1, <1>4, <1>7, <2>1, LineAfterWrite DEF LineInv
<1>8. ASSUME NEW s \in Sessions, Fail(s)
      PROVE  LineInv' /\ UNCHANGED table
    <2>1. task[s] # Idle /\ task' = [task EXCEPT ![s] = Idle] /\ UNCHANGED table
        BY <1>8 DEF Fail
    <2> QED BY <1>1, <1>2, <1>4, <2>1 DEF LineInv
<1>9. CASE UNCHANGED vars
    <2>1. UNCHANGED <<table, task>>
        BY <1>9 DEF vars
    <2>2. StillNeighbours'
        BY <2>1 DEF LineInv, StillNeighbours, IsNeighbour, Present
    <2> QED BY <1>1, <1>2, <2>1, <2>2 DEF LineInv
<1> QED BY <1>5, <1>6, <1>7, <1>8, <1>9 DEF SerialNext

\* As long as calls do not overlap, whatever the handlers do to positions, to a
\* swap of two of them or to a gap, people see one line: new orders come last,
\* one or two at a time, moving swaps neighbours, and those that leave do not
\* disturb the order of the others.
THEOREM TableIsALine == SerialSpec => ImplementsList
<1>1. Init => LineInv /\ List!Init
    <2> SUFFICES ASSUME Init PROVE LineInv /\ List!Init
        OBVIOUS
    <2>1. Present(table) = {}
        BY DEF Init, Present, NoRow
    <2>2. TypeOK
        BY InitType
    <2>3. SerialInv /\ StillNeighbours
        BY <2>1, <2>2 DEF Init, SerialInv, PositionsDistinct, OneAtATime, Fresh, Idle,
                          StillNeighbours
    <2>4. Queued(table) = {} /\ Ahead(table) = {} /\ HeldOrders(table) = {}
        BY <2>1 DEF Queued, Ahead, HeldOrders
    <2> QED BY <2>1, <2>3, <2>4 DEF LineInv, Unique, List!Init
<1> QED BY <1>1, LineStep, PTL DEF SerialSpec, ImplementsList, List!Spec

-----------------------------------------------------------------------------
(* Buffering. *)

\* Storage for more days costs more.
LEMMA StorageGrows ==
    ASSUME NEW p \in Nat, NEW s \in Nat, NEW d \in Nat, d >= 1
    PROVE  p * d * s \in Nat /\ p * 1 * s \in Nat /\ p * 1 * s <= p * d * s
<1>1. PICK e \in Nat : d = 1 + e
    <2>1. d - 1 \in Nat /\ d = 1 + (d - 1)
        OBVIOUS
    <2> QED BY <2>1
<1>2. p * e \in Nat /\ (p * e) * s \in Nat /\ p * s \in Nat
    OBVIOUS
<1>3. p * d = p + p * e
    BY <1>1
<1>4. p * d * s = p * s + (p * e) * s
    BY <1>2, <1>3
<1>5. p * 1 * s = p * s
    OBVIOUS
<1> QED BY <1>2, <1>4, <1>5

LEMMA CostGrows ==
    ASSUME NEW c \in [pallets : Nat, km : Nat, slack : Int],
           NEW r \in [cost_per_km : Int, storage : Nat, ltl : Int, threshold : Int, max_days : Int],
           NEW d \in Nat, d >= 1
    PROVE  /\ BufferCost(c, r, d) \in Int /\ BufferCost(c, r, 1) \in Int
           /\ BufferCost(c, r, 1) <= BufferCost(c, r, d)
<1>1. c.pallets \in Nat /\ r.storage \in Nat /\ c.km \in Int /\ r.cost_per_km \in Int
    OBVIOUS
<1>2. Storage(c, r, d) \in Int /\ Storage(c, r, 1) \in Int /\ Storage(c, r, 1) <= Storage(c, r, d)
    BY <1>1, StorageGrows DEF Storage
<1>3. FtlRoundtrip(c, r) \in Int
    BY <1>1 DEF FtlRoundtrip
<1> QED BY <1>2, <1>3 DEF BufferCost

\* If any day saves enough, the first does.
LEMMA FirstDayDecides ==
    ASSUME NEW c \in [pallets : Nat, km : Nat, slack : Int],
           NEW r \in [cost_per_km : Int, storage : Nat, ltl : Int, threshold : Int, max_days : Int]
    PROVE  LET d == DecideOne(c, r)
               can == c.slack >= 1 /\ r.max_days >= 1
               pays == SavesEnough(c, r, BufferCost(c, r, 1))
           IN  /\ d.action = "buffer" <=> can /\ pays
               /\ d.action = "buffer" => d.days = 1 /\ d.cost = BufferCost(c, r, 1)
               /\ d.action = "ship_now" /\ can => d.cost \in Int /\ ~ SavesEnough(c, r, d.cost)
<1> DEFINE last == LastDay(c, r)
           cost(e) == BufferCost(c, r, e)
           worth == {e \in 1..last : SavesEnough(c, r, cost(e))}
           d == DecideOne(c, r)
           now == LtlNow(c, r) * (100 - r.threshold)
<1>1. last \in Nat /\ (last >= 1 <=> c.slack >= 1 /\ r.max_days >= 1)
    BY DEF LastDay, Least, Most
<1>2. now \in Int
    <2>1. c.km \in Int /\ r.cost_per_km \in Int /\ r.ltl \in Int /\ r.threshold \in Int
        OBVIOUS
    <2>2. FtlRoundtrip(c, r) \in Int
        BY <2>1 DEF FtlRoundtrip
    <2>3. LtlNow(c, r) \in Int
        BY <2>1, <2>2 DEF LtlNow
    <2> QED BY <2>1, <2>3
<1>3. \A e \in 1..last : cost(e) \in Int /\ cost(1) \in Int /\ cost(1) <= cost(e)
    BY <1>1, CostGrows
<1>4. \A x : SavesEnough(c, r, x) <=> 100 * x <= now
    BY DEF SavesEnough
<1>5. d = IF worth # {}
          THEN [action |-> "buffer", days |-> Min(worth), cost |-> cost(Min(worth))]
          ELSE [action |-> "ship_now", days |-> 0,
                cost |-> IF last > 0 THEN cost(last) ELSE LtlNow(c, r)]
    BY DEF DecideOne
<1> HIDE DEF last, cost, now, d
<1>6. worth # {} <=> last >= 1 /\ SavesEnough(c, r, cost(1))
    <2>1. ASSUME NEW e \in worth PROVE last >= 1 /\ SavesEnough(c, r, cost(1))
        <3>1. e \in 1..last /\ 100 * cost(e) <= now
            BY <1>4
        <3>2. cost(e) \in Int /\ cost(1) \in Int /\ cost(1) <= cost(e)
            BY <1>3, <3>1
        <3>3. 100 * cost(1) <= now
            BY <1>2, <3>1, <3>2
        <3> QED BY <1>1, <1>4, <3>1, <3>3
    <2>2. ASSUME last >= 1, SavesEnough(c, r, cost(1)) PROVE 1 \in worth
        BY <1>1, <2>2
    <2> QED BY <2>1, <2>2
<1>7. CASE worth # {}
    <2>1. 1 \in worth /\ \A e \in worth : 1 <= e
        BY <1>1, <1>6, <1>7
    <2>2. \A x \in worth : (\A y \in worth : x <= y) => x = 1
        <3>1. \A x \in worth : x \in Int
            BY <1>1
        <3> QED BY <2>1, <3>1
    <2> HIDE DEF worth
    <2>3. Min(worth) = 1
        BY <2>1, <2>2 DEF Min
    <2>4. d.action = "buffer" /\ d.days = 1 /\ d.cost = cost(1)
        BY <1>5, <1>7, <2>3
    <2> QED BY <1>1, <1>6, <1>7, <2>4 DEF d, cost
<1>8. CASE worth = {}
    <2>1. d.action = "ship_now" /\ (last >= 1 => d.cost = cost(last))
        BY <1>1, <1>5, <1>8
    <2>2. last >= 1 => last \in 1..last /\ last \notin worth
        BY <1>1, <1>8
    <2>3. last >= 1 => cost(last) \in Int /\ ~ SavesEnough(c, r, cost(last))
        BY <1>3, <2>2
    <2> QED BY <1>1, <1>6, <1>8, <2>1, <2>3 DEF d, cost
<1> QED BY <1>7, <1>8

LEMMA ProposedSound ==
    ASSUME NEW order \in Stock, NEW day \in Days, NEW r \in Tariffs,
           NEW p, p = Proposed(order, day, r)
    PROVE  LET d == p.decision
               can == order.leave > day /\ r.max_days >= 1
               oneDay == 100 * (Most(order.pallets, 1) * r.storage + 2 * order.km * r.cost_per_km)
               now == 2 * order.km * r.cost_per_km * r.ltl
               pays == 100 * oneDay <= now * (100 - r.threshold)
           IN  /\ p.order = order /\ p.day = day /\ p.tariff = r /\ p # NoProposal
               /\ d.action = "buffer" <=> can /\ pays
               /\ d.action = "buffer" => d.days = 1 /\ d.cost = oneDay
               /\ d.action = "ship_now" /\ can => 100 * d.cost > now * (100 - r.threshold)
<1> DEFINE c == Candidate(order, day)
           oneDay == 100 * (Most(order.pallets, 1) * r.storage + 2 * order.km * r.cost_per_km)
           now == 2 * order.km * r.cost_per_km * r.ltl
           d == DecideOne(c, r)
<1>1. /\ order \in [pallets : Nat, km : Nat, leave : Int] /\ day \in Int
      /\ r \in [cost_per_km : Int, storage : Nat, ltl : Int, threshold : Int, max_days : Int]
    BY BufferingAssumption
<1>2. /\ c \in [pallets : Nat, km : Nat, slack : Int]
      /\ c.pallets = Most(order.pallets, 1) /\ c.km = order.km /\ c.slack = order.leave - day
    BY <1>1 DEF Candidate, Most
<1>3. p.order = order /\ p.day = day /\ p.tariff = r /\ p.decision = d
    BY DEF Proposed
<1>4. p # NoProposal
    BY DEF Proposed, NoProposal
<1>5. c.slack >= 1 <=> order.leave > day
    BY <1>1, <1>2
<1> HIDE DEF c
<1>6. BufferCost(c, r, 1) = oneDay
    <2>1. c.pallets \in Int /\ r.storage \in Int /\ c.pallets * 1 * r.storage = c.pallets * r.storage
        BY <1>1, <1>2
    <2> QED BY <1>2, <2>1 DEF BufferCost, Storage, FtlRoundtrip
<1>7. LtlNow(c, r) = now
    BY <1>2 DEF LtlNow, FtlRoundtrip
<1>8. \A x : SavesEnough(c, r, x) <=> 100 * x <= now * (100 - r.threshold)
    BY <1>7 DEF SavesEnough
<1> HIDE DEF oneDay, d
<1>9. /\ d.action = "buffer" <=> (order.leave > day /\ r.max_days >= 1)
                                  /\ 100 * oneDay <= now * (100 - r.threshold)
      /\ d.action = "buffer" => d.days = 1 /\ d.cost = oneDay
      /\ d.action = "ship_now" /\ order.leave > day /\ r.max_days >= 1 =>
            d.cost \in Int /\ ~ (100 * d.cost <= now * (100 - r.threshold))
    BY <1>1, <1>2, <1>5, <1>6, <1>8, FirstDayDecides DEF d
<1>10. now * (100 - r.threshold) \in Int
    <2>1. order.km \in Int /\ r.cost_per_km \in Int /\ r.ltl \in Int /\ r.threshold \in Int
        BY <1>1
    <2>2. 2 * order.km * r.cost_per_km \in Int
        BY <2>1
    <2>3. now \in Int
        BY <2>1, <2>2
    <2> HIDE DEF now
    <2> QED BY <2>1, <2>3
<1> DEFINE x == now * (100 - r.threshold)
<1>11. /\ d.action = "buffer" <=> (order.leave > day /\ r.max_days >= 1) /\ 100 * oneDay <= x
       /\ d.action = "buffer" => d.days = 1 /\ d.cost = oneDay
       /\ d.action = "ship_now" /\ (order.leave > day /\ r.max_days >= 1) => 100 * d.cost > x
    <2> HIDE DEF now
    <2>1. x \in Int
        BY <1>10
    <2> HIDE DEF x
    <2>2. d.cost \in Int => (100 * d.cost > x <=> ~ (100 * d.cost <= x))
        BY <2>1
    <2> QED BY <1>9, <2>2 DEF x
<1> QED BY <1>3, <1>4, <1>11 DEF oneDay

\* Whatever the order, the day and the tariff, the proposal is to hold the order
\* exactly when it may wait and the first day saves enough, for one day; if it is
\* to be shipped although it may wait, the cost that is shown saves too little.
THEOREM BufferDecisionAlwaysSound == Proposals => []BufferDecisionSound
<1> DEFINE Inv == proposal = NoProposal
                  \/ \E order \in Stock, day \in Days, r \in Tariffs : proposal = Proposed(order, day, r)
<1>1. proposal = NoProposal => Inv
    OBVIOUS
<1>2. Inv /\ [Propose \/ Refresh]_proposal => Inv'
    BY DEF Propose, Refresh
<1>3. Inv => BufferDecisionSound
    <2> SUFFICES ASSUME NEW order \in Stock, NEW day \in Days, NEW r \in Tariffs,
                        proposal = Proposed(order, day, r)
                 PROVE  BufferDecisionSound
        BY DEF BufferDecisionSound
    <2> QED BY ProposedSound DEF BufferDecisionSound
<1> HIDE DEF Inv
<1> QED BY <1>1, <1>2, <1>3, PTL DEF Proposals
=============================================================================
