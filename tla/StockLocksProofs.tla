-------------------------- MODULE StockLocksProofs --------------------------
(***************************************************************************)
(* What the row locks achieve, for any number of tables, seats and         *)
(* transactions: a seat is taken from nobody, a table held whole is whole, *)
(* the calls that lock tables first never wait in a circle, and what runs  *)
(* statement by statement implements SeatPromise, but where a map save     *)
(* deletes a booked seat.                                                  *)
(***************************************************************************)
EXTENDS StockTickets, FiniteSetTheorems, WellFoundedInduction, TLAPS

-----------------------------------------------------------------------------
(* The inductive invariant *)

SeatStates == {"absent", "available", "held", "sold"}
Counts == {"available", "partial", "sold"}
Labels == {"idle", "tables", "lockSeats", "read", "write", "count", "table", "commit", "done"}
After == {"count", "table", "commit"}
Takers == {"holdSeats", "holdTable", "sellSeats", "sellTable"}
Givers == {"giveBack", "fulfil"}
Ops == [kind : AllKinds \cup {"none"}, seats : SUBSET Seats, tables : SUBSET Tables,
        holds : SUBSET Txns]

Under(x) == pc[x] \notin {"idle", "done"}

Shapes ==
    /\ seat \in [Seats -> SeatStates]
    /\ holder \in [Seats -> Txns \cup {Nobody}]
    /\ table \in [Tables -> Counts \cup {"absent", "held"}]
    /\ active \subseteq Txns
    /\ seatLock \in [Seats -> Txns \cup {Nobody}]
    /\ tableLock \in [Tables -> Txns \cup {Nobody}]
    /\ pc \in [Txns -> Labels]
    /\ op \in [Txns -> Ops]
    /\ wanted \in [Txns -> SUBSET Tables]
    /\ todo \in [Txns -> SUBSET Seats]
    /\ counted \in [Txns -> [table : Tables \cup {0}, status : Counts \cup {"none"}]]
    /\ newTable \in [Txns -> [Tables -> Counts \cup {"same"}]]

\* Each label belongs to some kinds, only givers have holds, and who has not begun
\* has no lock.
KindOK(x) ==
    /\ pc[x] = "idle" => \A t \in Tables : tableLock[t] # x
    /\ pc[x] = "tables" => op[x].kind \in TablesFirst \cup {"fulfil"} /\ wanted[x] # {}
    /\ pc[x] = "lockSeats" => op[x].kind \in Takers \ {"holdTable"}
    /\ pc[x] = "read" => op[x].kind = "holdTable"
    /\ op[x].kind \notin Givers => op[x].holds = {}

\* Who has a seat's lock writes that seat.
SeatLocksOK ==
    \A s \in Seats : seatLock[s] # Nobody =>
        /\ s \in op[seatLock[s]].seats
        /\ pc[seatLock[s]] \in After \cup {"write"}
        /\ seat[s] # "absent"

\* What is written is locked and exists.
WriterOK(x) ==
    pc[x] \in After => \A s \in op[x].seats : seatLock[s] = x /\ seat[s] # "absent"

\* What is taken stays free until it is written: by its own lock, or by the
\* table's that hold_table has.
TakerOK(x) ==
    op[x].kind \in Takers /\ pc[x] \in After \cup {"write"} =>
        \A s \in op[x].seats :
            seat[s] = "available" /\ (op[x].kind # "holdTable" => seatLock[s] = x)

HoldersOK == \A s \in Seats : seat[s] = "held" <=> holder[s] # Nobody

\* A giver has all the seats of its holds, and its holds are its own.
GiverOK(x) ==
    op[x].kind \in Givers /\ Under(x) =>
        /\ op[x].holds \subseteq active
        /\ \A s \in op[x].seats : seat[s] = "absent" \/ holder[s] \in op[x].holds
        /\ \A s \in Seats : holder[s] \in op[x].holds => s \in op[x].seats

GiversApart == \A x, y \in Txns : Under(x) /\ Under(y) /\ x # y => op[x].holds \cap op[y].holds = {}

ActiveOK == \A x \in active : pc[x] = "done"

\* The calls that lock tables first have the tables of their seats, and lock them
\* in order.
TablesOK(x) ==
    op[x].kind \in TablesFirst /\ Under(x) =>
        /\ \A s \in op[x].seats : TableOf[s] \in op[x].tables
        /\ pc[x] # "tables" => \A t \in op[x].tables : tableLock[t] = x
        /\ pc[x] = "tables" =>
              /\ \A t \in op[x].tables : tableLock[t] = x \/ t \in wanted[x]
              /\ \A t \in Tables, u \in wanted[x] : tableLock[t] = x => t < u

\* hold_table and save_venue_map have all the seats of their table.
AllSeatsOK(x) ==
    op[x].kind \in {"holdTable", "dropTable"} /\ Under(x) =>
        \A s \in Seats : TableOf[s] \in op[x].tables /\ seat[s] # "absent" => s \in op[x].seats

HoldTableOK(x) ==
    op[x].kind = "holdTable" =>
        /\ pc[x] \in After \cup {"write"} => op[x].seats # {}
        /\ \E t \in Tables : op[x].tables = {t}

NewTablesOK == \A x \in Txns, t \in Tables : newTable[x][t] # "same" => tableLock[t] = x

DroppedOK == \A s \in Seats : table[TableOf[s]] = "absent" => seat[s] = "absent"

\* Every written seat has its trigger ahead, running or done.
FiredOK(x) ==
    /\ pc[x] \in After => \A s \in op[x].seats :
          \/ s \in todo[x]
          \/ pc[x] = "table" /\ counted[x].table = TableOf[s]
          \/ newTable[x][TableOf[s]] # "same"
    /\ pc[x] = "commit" => todo[x] = {}
    /\ pc[x] = "count" => todo[x] # {}
    /\ pc[x] \in After => todo[x] \subseteq op[x].seats
    /\ pc[x] = "table" => \E s \in op[x].seats :
                              counted[x].table = TableOf[s] /\ counted[x].status # "none"

\* A table held whole has a seat, and one hold has all of them.
WholeOK ==
    \A t \in Tables : table[t] = "held" =>
        \E x \in active :
            /\ \E s \in Seats : TableOf[s] = t /\ seat[s] # "absent"
            /\ \A s \in Seats : TableOf[s] = t /\ seat[s] # "absent"
                                    => seat[s] = "held" /\ holder[s] = x

CallOK(x) ==
    /\ KindOK(x) /\ WriterOK(x) /\ TakerOK(x) /\ GiverOK(x) /\ TablesOK(x)
    /\ AllSeatsOK(x) /\ HoldTableOK(x) /\ FiredOK(x)

RowsOK ==
    /\ SeatLocksOK /\ HoldersOK /\ GiversApart /\ ActiveOK /\ NewTablesOK /\ DroppedOK /\ WholeOK

LocksInv == Shapes /\ RowsOK /\ \A x \in Txns : CallOK(x)

LEMMA InitLocks == Init => LocksInv
<1> SUFFICES ASSUME Init PROVE LocksInv
  OBVIOUS
<1> USE LocksAssumption DEF Init
<1>1. Shapes
  BY DEF Shapes, SeatStates, Counts, Labels, Ops, NoOp, NoCount
<1>2. RowsOK
  BY DEF RowsOK, SeatLocksOK, HoldersOK, GiversApart, ActiveOK, NewTablesOK, DroppedOK, WholeOK, Under
<1>3. ASSUME NEW x \in Txns PROVE CallOK(x)
  <2>1. pc[x] = "idle" /\ op[x] = NoOp
    OBVIOUS
  <2> QED BY <2>1 DEF CallOK, KindOK, WriterOK, TakerOK, GiverOK, TablesOK, AllSeatsOK,
                      HoldTableOK, FiredOK, After, Under, NoOp
<1> QED BY <1>1, <1>2, <1>3 DEF LocksInv

-----------------------------------------------------------------------------
(* Steps that commit nothing *)

\* x runs a statement: the rows stay, and of the others neither the state nor a
\* lock changes.
Quiet(x) ==
    /\ UNCHANGED rows
    /\ \A y \in Txns \ {x} :
          /\ pc'[y] = pc[y] /\ op'[y] = op[y] /\ wanted'[y] = wanted[y] /\ todo'[y] = todo[y]
          /\ counted'[y] = counted[y] /\ newTable'[y] = newTable[y]
          /\ \A s \in Seats : seatLock'[s] = y <=> seatLock[s] = y
          /\ \A t \in Tables : tableLock'[t] = y <=> tableLock[t] = y

LEMMA OthersKeep ==
    ASSUME LocksInv, NEW x \in Txns, Quiet(x), NEW y \in Txns \ {x}
    PROVE  CallOK(y)'
<1>0. CallOK(y) /\ pc'[y] = pc[y] /\ op'[y] = op[y]
  BY DEF LocksInv, Quiet
<1>1. UNCHANGED <<seat, holder, table, active>>
  BY DEF Quiet, rows
<1>2. /\ wanted'[y] = wanted[y] /\ todo'[y] = todo[y]
      /\ counted'[y] = counted[y] /\ newTable'[y] = newTable[y]
      /\ \A s \in Seats : seatLock'[s] = y <=> seatLock[s] = y
      /\ \A t \in Tables : tableLock'[t] = y <=> tableLock[t] = y
  BY DEF Quiet
<1>s. op[y].seats \subseteq Seats /\ op[y].tables \subseteq Tables
  BY DEF LocksInv, Shapes, Ops
<1>3. KindOK(y)' /\ WriterOK(y)' /\ TakerOK(y)' /\ GiverOK(y)'
  BY <1>0, <1>1, <1>2, <1>s DEF CallOK, KindOK, WriterOK, TakerOK, GiverOK, Under
<1>4. TablesOK(y)' /\ AllSeatsOK(y)' /\ HoldTableOK(y)' /\ FiredOK(y)'
  BY <1>0, <1>1, <1>2, <1>s DEF CallOK, TablesOK, AllSeatsOK, HoldTableOK, FiredOK, Under
<1> QED BY <1>3, <1>4 DEF CallOK

\* What remains to be shown of such a step.
LEMMA QuietStep ==
    ASSUME LocksInv, NEW x \in Txns, Quiet(x), Shapes', CallOK(x)',
           \A s \in Seats : seatLock'[s] = x => /\ s \in op'[x].seats /\ seat[s] # "absent"
                                               /\ pc'[x] \in After \cup {"write"},
           \A t \in Tables : newTable'[x][t] # "same" => tableLock'[t] = x,
           x \in active => pc'[x] = "done",
           Under(x)' => \A y \in Txns \ {x} : Under(y) => op'[x].holds \cap op[y].holds = {}
    PROVE  LocksInv'
<1> USE LocksAssumption
<1>0. Shapes /\ RowsOK
  BY DEF LocksInv
<1>1. UNCHANGED <<seat, holder, table, active>>
  BY DEF Quiet, rows
<1>2. SeatLocksOK'
  <2> SUFFICES ASSUME NEW s \in Seats, seatLock'[s] # Nobody
               PROVE  /\ s \in op'[seatLock'[s]].seats /\ seat'[s] # "absent"
                      /\ pc'[seatLock'[s]] \in After \cup {"write"}
    BY DEF SeatLocksOK
  <2>1. seatLock'[s] \in Txns
    BY DEF Shapes
  <2>2. CASE seatLock'[s] # x
    <3>1. seatLock[s] = seatLock'[s]
      BY <2>1, <2>2 DEF Quiet
    <3> QED BY <1>0, <1>1, <2>1, <2>2, <3>1 DEF RowsOK, SeatLocksOK, Quiet
  <2> QED BY <1>1, <2>2
<1>3. HoldersOK' /\ DroppedOK' /\ WholeOK'
  BY <1>0, <1>1 DEF RowsOK, HoldersOK, DroppedOK, WholeOK
<1>4. GiversApart'
  BY <1>0 DEF RowsOK, GiversApart, Under, Quiet
<1>5. ActiveOK'
  BY <1>0, <1>1 DEF RowsOK, ActiveOK, Quiet, Shapes
<1>6. NewTablesOK'
  BY <1>0 DEF RowsOK, NewTablesOK, Quiet
<1>7. \A y \in Txns : CallOK(y)'
  BY OthersKeep
<1> QED BY <1>2, <1>3, <1>4, <1>5, <1>6, <1>7 DEF LocksInv, RowsOK

\* A call is refused, or its transaction aborted.
LEMMA EndStep ==
    ASSUME LocksInv, NEW x \in Txns, End(x), UNCHANGED rows
    PROVE  LocksInv'
<1> USE LocksAssumption
<1>0. Shapes
  BY DEF LocksInv
<1>1. /\ pc' = [pc EXCEPT ![x] = "done"] /\ UNCHANGED <<op, counted>>
      /\ seatLock' = [s \in Seats |-> IF seatLock[s] = x THEN Nobody ELSE seatLock[s]]
      /\ tableLock' = [t \in Tables |-> IF tableLock[t] = x THEN Nobody ELSE tableLock[t]]
      /\ wanted' = [wanted EXCEPT ![x] = {}] /\ todo' = [todo EXCEPT ![x] = {}]
      /\ newTable' = [newTable EXCEPT ![x] = [t \in Tables |-> "same"]]
  BY DEF End
<1>2. Shapes'
  BY <1>0, <1>1 DEF Shapes, rows, Labels, Counts
<1>3. Quiet(x)
  BY <1>0, <1>1 DEF Quiet, Shapes
<1>4. pc'[x] = "done" /\ op'[x] = op[x]
  BY <1>0, <1>1 DEF Shapes
<1>5. CallOK(x)'
  <2>1. op[x].kind \notin Givers => op[x].holds = {}
    BY DEF LocksInv, CallOK, KindOK
  <2>2. HoldTableOK(x)'
    BY <1>4 DEF LocksInv, CallOK, HoldTableOK, After
  <2> QED BY <1>4, <2>1, <2>2
    DEF CallOK, KindOK, WriterOK, TakerOK, GiverOK, TablesOK, AllSeatsOK, FiredOK, After, Under
<1>6. /\ \A s \in Seats : seatLock'[s] # x
      /\ \A t \in Tables : newTable'[x][t] = "same"
  BY <1>0, <1>1 DEF Shapes
<1>7. ~ Under(x)'
  BY <1>4 DEF Under
<1> QED BY <1>2, <1>3, <1>4, <1>5, <1>6, <1>7, QuietStep

-----------------------------------------------------------------------------
(* The statements *)

LEMMA BeginStep ==
    ASSUME LocksInv, NEW x \in Txns, NEW kind \in AllKinds, NEW S \in SUBSET Seats,
           NEW T \in SUBSET Tables, NEW H \in SUBSET Txns, Begin(x, kind, S, T, H),
           kind \in TablesFirst => /\ T # {} /\ \A s \in S : TableOf[s] \in T
                                   /\ \A t \in T : table[t] # "absent",
           kind \in {"holdTable", "dropTable"} =>
              \A s \in Seats : TableOf[s] \in T /\ seat[s] # "absent" => s \in S,
           kind = "holdTable" => \E t \in Tables : T = {t},
           kind \notin Givers => H = {},
           kind \in Givers => H \subseteq active \ Busy /\ S = {s \in Seats : holder[s] \in H}
    PROVE  LocksInv'
<1> USE LocksAssumption
<1>0. Shapes /\ RowsOK /\ KindOK(x) /\ pc[x] = "idle"
  BY DEF LocksInv, CallOK, Begin
<1>1. /\ op' = [op EXCEPT ![x] = [kind |-> kind, seats |-> S, tables |-> T, holds |-> H]]
      /\ wanted' = [wanted EXCEPT ![x] = IF kind = "dropTable"
                                         THEN {t \in Tables : table[t] # "absent"} ELSE T]
      /\ pc' = [pc EXCEPT ![x] = IF kind = "fulfil" /\ T # {} THEN "tables" ELSE FirstStatement(kind)]
      /\ UNCHANGED <<rows, seatLock, tableLock, todo, counted, newTable>>
  BY DEF Begin
<1>2. Shapes'
  <2>1. FirstStatement(kind) \in Labels
    BY DEF FirstStatement, Labels
  <2> QED BY <1>0, <1>1, <2>1 DEF Shapes, rows, Labels, Ops
<1>3. Quiet(x)
  BY <1>0, <1>1 DEF Quiet, Shapes
<1>4. /\ op'[x].kind = kind /\ op'[x].seats = S /\ op'[x].tables = T /\ op'[x].holds = H
      /\ pc'[x] \in {"tables", "lockSeats", "write"}
      /\ pc'[x] = "tables" => kind \in TablesFirst \cup {"fulfil"}
      /\ kind \in TablesFirst => pc'[x] = "tables"
      /\ pc'[x] = "lockSeats" <=> kind = "sellSeats"
      /\ T \subseteq wanted'[x] \/ kind \notin TablesFirst
      /\ pc'[x] = "tables" => wanted'[x] # {}
  BY <1>0, <1>1 DEF Shapes, FirstStatement, TablesFirst, AllKinds
<1>5. UNCHANGED <<seat, holder, table, active, seatLock, tableLock>>
  BY <1>1 DEF rows
<1>6. CallOK(x)'
  <2>1. KindOK(x)' /\ WriterOK(x)' /\ FiredOK(x)' /\ HoldTableOK(x)' /\ TakerOK(x)'
    BY <1>4 DEF KindOK, WriterOK, FiredOK, HoldTableOK, TakerOK, After, Takers, Givers, TablesFirst
  <2>2. GiverOK(x)' /\ AllSeatsOK(x)'
    BY <1>4, <1>5 DEF GiverOK, AllSeatsOK, Givers
  <2>3. TablesOK(x)'
    BY <1>0, <1>4, <1>5 DEF TablesOK, KindOK
  <2> QED BY <2>1, <2>2, <2>3 DEF CallOK
<1>7. \A s \in Seats : seatLock'[s] # x
  BY <1>0, <1>5 DEF RowsOK, SeatLocksOK, After
<1>8. \A t \in Tables : newTable'[x][t] # "same" => tableLock'[t] = x
  BY <1>0, <1>1 DEF RowsOK, NewTablesOK
<1>9. x \notin active
  BY <1>0 DEF RowsOK, ActiveOK
<1>10. ASSUME NEW y \in Txns \ {x}, Under(y) PROVE H \cap op[y].holds = {}
  <2>1. op[y].holds \subseteq Busy
    BY <1>10 DEF Busy, Under
  <2> QED BY <2>1
<1> QED BY <1>2, <1>3, <1>4, <1>6, <1>7, <1>8, <1>9, <1>10, QuietStep

LEMMA Beginnings ==
    ASSUME LocksInv, NEW x \in Txns, BeginSeats(x) \/ BeginTable(x) \/ BeginHolds(x)
    PROVE  LocksInv'
<1> USE LocksAssumption DEF TablesFirst, Givers, AllKinds
<1>0. Shapes /\ RowsOK
  BY DEF LocksInv
<1>1. CASE BeginSeats(x)
  <2>1. PICK kind \in {"holdSeats", "sellSeats"}, S \in (SUBSET Seats) \ {{}} :
            /\ \A s \in S : seat[s] # "absent"
            /\ Begin(x, kind, S, IF kind = "holdSeats" THEN {TableOf[s] : s \in S} ELSE {}, {})
    BY <1>1 DEF BeginSeats
  <2> DEFINE T == IF kind = "holdSeats" THEN {TableOf[s] : s \in S} ELSE {}
  <2>2. T \in SUBSET Tables /\ (kind = "holdSeats" => T # {} /\ \A s \in S : TableOf[s] \in T)
    <3>1. T \in SUBSET Tables
      OBVIOUS
    <3>2. PICK s \in S : TRUE
      OBVIOUS
    <3>3. kind = "holdSeats" => \A u \in S : TableOf[u] \in T
      OBVIOUS
    <3> QED BY <3>1, <3>2, <3>3
  <2>3. \A t \in T : table[t] # "absent"
    BY <1>0, <2>1 DEF RowsOK, DroppedOK
  <2> HIDE DEF T
  <2>4. Begin(x, kind, S, T, {})
    BY <2>1 DEF T
  <2>5. kind \notin {"holdTable", "dropTable", "giveBack", "fulfil"} /\ {} \in SUBSET Txns
    OBVIOUS
  <2>6. kind \in AllKinds /\ S \in SUBSET Seats
    OBVIOUS
  <2> HIDE DEF TablesFirst, AllKinds
  <2>7. kind \in TablesFirst => kind = "holdSeats"
    BY DEF TablesFirst
  <2> QED BY <2>2, <2>3, <2>4, <2>5, <2>6, <2>7, BeginStep
<1>2. CASE BeginTable(x)
  <2>1. PICK kind \in {"holdTable", "sellTable", "dropTable"}, t \in Tables :
            table[t] # "absent" /\ Begin(x, kind, SeatsAt({t}), {t}, {})
    BY <1>2 DEF BeginTable
  <2>2. /\ SeatsAt({t}) \in SUBSET Seats
        /\ \A s \in Seats : s \in SeatsAt({t}) <=> TableOf[s] \in {t} /\ seat[s] # "absent"
    BY DEF SeatsAt
  <2> DEFINE S == SeatsAt({t})
             T == {t}
  <2>3. /\ Begin(x, kind, S, T, {}) /\ S \in SUBSET Seats /\ T \in SUBSET Tables /\ T # {}
        /\ \A s \in S : TableOf[s] \in T
        /\ \A s \in Seats : TableOf[s] \in T /\ seat[s] # "absent" => s \in S
        /\ \A u \in T : table[u] # "absent"
        /\ \E u \in Tables : T = {u}
    BY <2>1, <2>2
  <2> HIDE DEF S, T
  <2> QED BY <2>3, BeginStep
<1>3. CASE BeginHolds(x)
  <2>1. PICK kind \in {"giveBack", "fulfil"}, H \in (SUBSET (active \ Busy)) \ {{}},
             T \in SUBSET Tables : Begin(x, kind, {s \in Seats : holder[s] \in H}, T, H)
    BY <1>3 DEF BeginHolds
  <2>2. H \in SUBSET Txns
    BY <1>0 DEF Shapes
  <2> QED BY <2>1, <2>2, BeginStep
<1> QED BY <1>1, <1>2, <1>3

\* A set of tables has a first one.
LEMMA FirstTable ==
    ASSUME NEW W \in SUBSET Nat, W # {}
    PROVE  \E t \in W : \A u \in W : t <= u
<1>1. IsWellFoundedOn(OpToRel(<, Nat), Nat)
  BY NatLessThanWellFounded
<1>2. PICK t \in W : \A u \in W : ~ (<<u, t>> \in OpToRel(<, Nat))
  BY <1>1, WFMin
<1>3. \A u \in W : ~ (u < t)
  BY <1>2 DEF OpToRel
<1> QED BY <1>3

LEMMA NextIsFirst ==
    ASSUME LocksInv, NEW x \in Txns, wanted[x] # {}
    PROVE  NextTable(x) \in wanted[x] /\ \A u \in wanted[x] : NextTable(x) <= u
<1>1. wanted[x] \in SUBSET Nat
  BY LocksAssumption DEF LocksInv, Shapes
<1>2. \E t \in wanted[x] : \A u \in wanted[x] : t <= u
  BY <1>1, FirstTable
<1> QED BY <1>2 DEF NextTable

\* A statement that is not refused: its transaction goes on.
LEMMA Statement ==
    ASSUME LocksInv, NEW x \in Txns, Quiet(x), Under(x), Under(x)', Shapes', CallOK(x)',
           op'[x].holds = op[x].holds,
           \A s \in Seats : seatLock'[s] = x => /\ s \in op'[x].seats /\ seat[s] # "absent"
                                               /\ pc'[x] \in After \cup {"write"},
           \A t \in Tables : newTable'[x][t] # "same" => tableLock'[t] = x
    PROVE  LocksInv'
<1>1. x \notin active
  BY DEF LocksInv, RowsOK, ActiveOK, Under
<1>2. \A y \in Txns \ {x} : Under(y) => op'[x].holds \cap op[y].holds = {}
  BY DEF LocksInv, RowsOK, GiversApart
<1> QED BY <1>1, <1>2, QuietStep

LEMMA LockTableStep ==
    ASSUME LocksInv, NEW x \in Txns, LockTable(x)
    PROVE  LocksInv'
<1> USE LocksAssumption
<1> DEFINE t == NextTable(x)
<1>0. Shapes /\ RowsOK /\ CallOK(x) /\ pc[x] = "tables"
  BY DEF LocksInv, LockTable
<1>1. CASE ~ TableFits(x, t)
  BY <1>1, EndStep DEF LockTable
<1>2. CASE TableFits(x, t)
  <2>1. /\ tableLock' = [tableLock EXCEPT ![t] = x]
        /\ wanted' = [wanted EXCEPT ![x] = @ \ {t}]
        /\ pc' = [pc EXCEPT ![x] = IF wanted[x] # {t} THEN "tables"
                    ELSE IF op[x].kind \in {"holdSeats", "sellTable"} THEN "lockSeats"
                    ELSE IF op[x].kind = "holdTable" THEN "read" ELSE "write"]
        /\ newTable' = [newTable EXCEPT ![x][t] = IF op[x].kind = "fulfil" THEN "sold" ELSE @]
        /\ UNCHANGED <<rows, seatLock, op, todo, counted>>
        /\ tableLock[t] \in {Nobody, x}
    BY <1>0, <1>2 DEF LockTable, WaitsOn
  <2>2. t \in wanted[x] /\ (\A u \in wanted[x] : t <= u) /\ t \in Tables /\ wanted[x] \subseteq Tables
    BY <1>0, NextIsFirst DEF CallOK, KindOK, Shapes
  <2> HIDE DEF t
  <2>3. Shapes'
    BY <1>0, <2>1, <2>2 DEF Shapes, rows, Labels, Counts
  <2>4. Quiet(x)
    <3> SUFFICES ASSUME NEW y \in Txns \ {x}
                 PROVE  /\ pc'[y] = pc[y] /\ op'[y] = op[y] /\ wanted'[y] = wanted[y]
                        /\ todo'[y] = todo[y] /\ counted'[y] = counted[y]
                        /\ newTable'[y] = newTable[y]
                        /\ \A s \in Seats : seatLock'[s] = y <=> seatLock[s] = y
                        /\ \A u \in Tables : tableLock'[u] = y <=> tableLock[u] = y
      BY <2>1 DEF Quiet
    <3> QED BY <1>0, <2>1, <2>2 DEF Shapes
  <2>5. /\ wanted'[x] = wanted[x] \ {t} /\ op' = op
        /\ pc'[x] \in {"tables", "lockSeats", "read", "write"}
        /\ pc'[x] = "tables" <=> wanted[x] # {t}
        /\ pc'[x] = "lockSeats" => op[x].kind \in {"holdSeats", "sellTable"}
        /\ pc'[x] = "read" => op[x].kind = "holdTable"
        /\ pc'[x] = "write" => op[x].kind \notin {"holdSeats", "sellTable", "holdTable"}
        /\ \A u \in Tables : tableLock'[u] = IF u = t THEN x ELSE tableLock[u]
    BY <1>0, <2>1, <2>2 DEF Shapes
  <2>6. op[x].kind \in TablesFirst \cup {"fulfil"} /\ wanted[x] # {}
    BY <1>0 DEF CallOK, KindOK
  <2>7. UNCHANGED <<seat, holder, table, active, seatLock>>
    BY <2>1 DEF rows
  <2>8. KindOK(x)' /\ WriterOK(x)' /\ TakerOK(x)' /\ HoldTableOK(x)' /\ FiredOK(x)'
    BY <1>0, <2>2, <2>5, <2>6
    DEF CallOK, KindOK, WriterOK, TakerOK, HoldTableOK, FiredOK, After, Takers, Givers, TablesFirst
  <2>9. GiverOK(x)' /\ AllSeatsOK(x)'
    BY <1>0, <2>5, <2>7 DEF CallOK, GiverOK, AllSeatsOK, Under
  <2>10. TablesOK(x)'
    <3> SUFFICES ASSUME op[x].kind \in TablesFirst PROVE TablesOK(x)'
      BY <2>5 DEF TablesOK
    <3>1. /\ \A s \in op[x].seats : TableOf[s] \in op[x].tables
          /\ \A u \in op[x].tables : tableLock[u] = x \/ u \in wanted[x]
          /\ \A u \in Tables, v \in wanted[x] : tableLock[u] = x => u < v
      BY <1>0 DEF CallOK, TablesOK, Under
    <3>2. op[x].tables \subseteq Tables /\ Tables \subseteq Nat
      BY <1>0 DEF Shapes, Ops
    <3>3. \A u \in op[x].tables : tableLock'[u] = x \/ u \in wanted'[x]
      BY <2>5, <3>1, <3>2
    <3>4. ASSUME NEW u \in Tables, NEW v \in wanted'[x], tableLock'[u] = x PROVE u < v
      <4>1. v \in wanted[x] /\ v # t /\ t <= v
        BY <2>2, <2>5
      <4>2. u \in Nat /\ v \in Nat /\ t \in Nat
        BY <2>2, <3>2, <4>1
      <4>3. CASE u = t
        BY <4>1, <4>2, <4>3
      <4>4. CASE u # t
        BY <2>5, <3>1, <3>4, <4>1, <4>4
      <4> QED BY <4>3, <4>4
    <3>5. pc'[x] # "tables" => wanted'[x] = {}
      BY <2>5
    <3> QED BY <2>5, <3>1, <3>3, <3>4, <3>5 DEF TablesOK
  <2>11. \A s \in Seats : seatLock'[s] # x
    BY <1>0, <2>7 DEF RowsOK, SeatLocksOK, After, Shapes
  <2>12. \A u \in Tables : newTable'[x][u] # "same" => tableLock'[u] = x
    BY <1>0, <2>1, <2>5 DEF RowsOK, NewTablesOK, Shapes
  <2> QED BY <1>0, <2>3, <2>4, <2>5, <2>8, <2>9, <2>10, <2>11, <2>12, Statement DEF CallOK, Under
<1> QED BY <1>1, <1>2

LEMMA LockSeatsStep ==
    ASSUME LocksInv, NEW x \in Txns, LockSeats(x)
    PROVE  LocksInv'
<1> USE LocksAssumption
<1>0. Shapes /\ RowsOK /\ CallOK(x) /\ pc[x] = "lockSeats"
  BY DEF LocksInv, LockSeats
<1>1. CASE ~ Free(op[x].seats)
  BY <1>1, EndStep DEF LockSeats
<1>2. CASE Free(op[x].seats)
  <2>1. /\ seatLock' = [s \in Seats |-> IF s \in op[x].seats THEN x ELSE seatLock[s]]
        /\ pc' = [pc EXCEPT ![x] = "write"]
        /\ UNCHANGED <<rows, tableLock, op, wanted, todo, counted, newTable>>
        /\ \A s \in op[x].seats : seat[s] = "available" /\ seatLock[s] = Nobody
    BY <1>0, <1>2 DEF LockSeats, Free
  <2>2. UNCHANGED <<seat, holder, table, active, tableLock, op>>
    BY <2>1 DEF rows
  <2>3. Shapes'
    BY <1>0, <2>1 DEF Shapes, rows, Labels
  <2>4. Quiet(x)
    BY <1>0, <2>1 DEF Quiet, Shapes
  <2>5. pc'[x] = "write" /\ \A s \in op[x].seats : s \in Seats /\ seatLock'[s] = x
    BY <1>0, <2>1 DEF Shapes, Ops
  <2>6. op[x].kind \in Takers \ {"holdTable"}
    BY <1>0 DEF CallOK, KindOK
  <2>7. KindOK(x)' /\ WriterOK(x)' /\ TakerOK(x)' /\ HoldTableOK(x)' /\ FiredOK(x)'
    BY <1>0, <2>1, <2>2, <2>5, <2>6
    DEF CallOK, KindOK, WriterOK, TakerOK, HoldTableOK, FiredOK, After, Takers, Givers
  <2>8. GiverOK(x)' /\ AllSeatsOK(x)' /\ TablesOK(x)'
    BY <1>0, <2>2, <2>5, <2>6 DEF CallOK, GiverOK, AllSeatsOK, TablesOK, Under, Takers, Givers
  <2>9. \A s \in Seats : seatLock'[s] = x => s \in op[x].seats /\ seat[s] # "absent"
    BY <1>0, <2>1 DEF RowsOK, SeatLocksOK, Shapes
  <2> QED BY <1>0, <2>1, <2>2, <2>3, <2>4, <2>5, <2>7, <2>8, <2>9, Statement
          DEF CallOK, Under, RowsOK, NewTablesOK
<1> QED BY <1>1, <1>2

LEMMA ReadSeatsStep ==
    ASSUME LocksInv, NEW x \in Txns, ReadSeats(x)
    PROVE  LocksInv'
<1> USE LocksAssumption
<1>0. Shapes /\ RowsOK /\ CallOK(x) /\ pc[x] = "read"
  BY DEF LocksInv, ReadSeats
<1> DEFINE Refused == op[x].seats = {} \/ \E s \in op[x].seats : seat[s] # "available"
<1>1. CASE Refused
  BY <1>1, EndStep DEF ReadSeats
<1>2. CASE ~ Refused
  <2>1. /\ pc' = [pc EXCEPT ![x] = "write"]
        /\ UNCHANGED <<rows, seatLock, tableLock, op, wanted, todo, counted, newTable>>
    BY <1>0, <1>2 DEF ReadSeats
  <2>2. UNCHANGED <<seat, holder, table, active, seatLock, tableLock, op, newTable>> /\ pc'[x] = "write"
    BY <1>0, <2>1 DEF rows, Shapes
  <2>3. Shapes' /\ Quiet(x)
    BY <1>0, <2>1 DEF Shapes, rows, Labels, Quiet
  <2>4. op[x].kind = "holdTable"
    BY <1>0 DEF CallOK, KindOK
  <2>5. \E t \in Tables : op[x].tables = {t}
    BY <1>0, <2>4 DEF CallOK, HoldTableOK, After
  <2>6. KindOK(x)' /\ WriterOK(x)' /\ TakerOK(x)' /\ HoldTableOK(x)' /\ FiredOK(x)'
    BY <1>0, <1>2, <2>2, <2>4, <2>5
    DEF CallOK, KindOK, WriterOK, TakerOK, HoldTableOK, FiredOK, After, Takers, Givers
  <2>7. GiverOK(x)' /\ AllSeatsOK(x)' /\ TablesOK(x)'
    BY <1>0, <2>2, <2>4 DEF CallOK, GiverOK, AllSeatsOK, TablesOK, Under, Givers
  <2> QED BY <1>0, <2>2, <2>3, <2>6, <2>7, Statement
          DEF CallOK, Under, RowsOK, NewTablesOK, SeatLocksOK, After
<1> QED BY <1>1, <1>2

LEMMA WriteSeatsStep ==
    ASSUME LocksInv, NEW x \in Txns, WriteSeats(x)
    PROVE  LocksInv'
<1> USE LocksAssumption
<1> DEFINE S == {s \in op[x].seats : seat[s] # "absent"}
<1>0. Shapes /\ RowsOK /\ CallOK(x) /\ pc[x] = "write"
  BY DEF LocksInv, WriteSeats
<1>1. /\ seatLock' = [s \in Seats |-> IF s \in S THEN x ELSE seatLock[s]]
      /\ op' = [op EXCEPT ![x].seats = S]
      /\ todo' = [todo EXCEPT ![x] = S]
      /\ pc' = [pc EXCEPT ![x] = IF S = {} THEN "commit" ELSE "count"]
      /\ UNCHANGED <<rows, tableLock, wanted, counted, newTable>>
      /\ \A s \in op[x].seats : seatLock[s] \in {Nobody, x}
  BY <1>0 DEF WriteSeats, WaitsOn
<1>2. S \subseteq op[x].seats /\ S \subseteq Seats /\ \A s \in S : seat[s] # "absent"
  BY <1>0 DEF Shapes, Ops
<1>3. \A s \in op[x].seats : s \in S \/ seat[s] = "absent"
  OBVIOUS
<1> HIDE DEF S
<1>4. Shapes'
  <2>1. [op[x] EXCEPT !.seats = S] \in Ops
    <3>1. op[x] \in Ops /\ S \in SUBSET Seats
      BY <1>0, <1>2 DEF Shapes
    <3> QED BY <3>1 DEF Ops
  <2>2. op' \in [Txns -> Ops]
    BY <1>0, <1>1, <2>1 DEF Shapes
  <2> QED BY <1>0, <1>1, <1>2, <2>2 DEF Shapes, rows, Labels
<1>5. Quiet(x)
  BY <1>0, <1>1, <1>2 DEF Quiet, Shapes
<1>6. /\ pc'[x] \in {"commit", "count"} /\ (pc'[x] = "commit" <=> S = {})
      /\ op'[x].kind = op[x].kind /\ op'[x].seats = S /\ op'[x].tables = op[x].tables
      /\ op'[x].holds = op[x].holds /\ todo'[x] = S
      /\ \A s \in S : seatLock'[s] = x
      /\ UNCHANGED <<seat, holder, table, active, tableLock, newTable, wanted>>
  BY <1>0, <1>1, <1>2 DEF Shapes, Ops, rows
<1>7. KindOK(x)' /\ WriterOK(x)' /\ FiredOK(x)'
  BY <1>0, <1>2, <1>6 DEF CallOK, KindOK, WriterOK, FiredOK, After
<1>8. op[x].kind = "holdTable" => S = op[x].seats /\ op[x].seats # {}
  <2>1. op[x].kind = "holdTable" => \A s \in op[x].seats : seat[s] = "available"
    BY <1>0 DEF CallOK, TakerOK, Takers
  <2>2. op[x].kind = "holdTable" => op[x].seats # {}
    BY <1>0 DEF CallOK, HoldTableOK
  <2> QED BY <1>2, <1>3, <2>1, <2>2
<1>9. TakerOK(x)' /\ HoldTableOK(x)'
  BY <1>0, <1>2, <1>6, <1>8 DEF CallOK, TakerOK, HoldTableOK, After
<1>10. GiverOK(x)' /\ AllSeatsOK(x)' /\ TablesOK(x)'
  <2>1. \A s \in Seats : holder[s] # Nobody => seat[s] # "absent"
    BY <1>0 DEF RowsOK, HoldersOK
  <2>2. op[x].holds \subseteq Txns
    BY <1>0 DEF Shapes, Ops
  <2>3. GiverOK(x)'
    BY <1>0, <1>2, <1>3, <1>6, <2>1, <2>2 DEF CallOK, GiverOK, Under
  <2>4. AllSeatsOK(x)'
    BY <1>0, <1>2, <1>3, <1>6 DEF CallOK, AllSeatsOK, Under
  <2>5. TablesOK(x)'
    BY <1>0, <1>2, <1>6 DEF CallOK, TablesOK, Under
  <2> QED BY <2>3, <2>4, <2>5
<1>11. \A s \in Seats : seatLock'[s] = x => s \in S /\ seat[s] # "absent"
  <2>1. \A s \in Seats : seatLock[s] = x => s \in op[x].seats /\ seat[s] # "absent"
    BY <1>0 DEF RowsOK, SeatLocksOK
  <2> QED BY <1>0, <1>1, <1>2, <1>3, <2>1 DEF Shapes
<1> QED BY <1>0, <1>4, <1>5, <1>6, <1>7, <1>9, <1>10, <1>11, Statement
        DEF CallOK, Under, RowsOK, NewTablesOK, After

LEMMA CountStep ==
    ASSUME LocksInv, NEW x \in Txns, Count(x)
    PROVE  LocksInv'
<1> USE LocksAssumption
<1>0. Shapes /\ RowsOK /\ CallOK(x) /\ pc[x] = "count"
  BY DEF LocksInv, Count
<1>1. PICK s \in todo[x] :
          /\ counted' = [counted EXCEPT ![x] = [table |-> TableOf[s], status |-> Derived(x, TableOf[s])]]
          /\ todo' = [todo EXCEPT ![x] = @ \ {s}]
  BY DEF Count
<1>2. /\ pc' = [pc EXCEPT ![x] = "table"]
      /\ UNCHANGED <<rows, seatLock, tableLock, op, wanted, newTable>>
  BY DEF Count
<1>3. s \in op[x].seats /\ s \in Seats /\ op[x].seats \subseteq Seats
  BY <1>0 DEF CallOK, FiredOK, After, Shapes, Ops
<1>4. Derived(x, TableOf[s]) \in Counts
  BY DEF Derived, Counts
<1>5. Shapes'
  BY <1>0, <1>1, <1>2, <1>3, <1>4 DEF Shapes, rows, Labels
<1>6. Quiet(x)
  BY <1>0, <1>1, <1>2 DEF Quiet, Shapes
<1>7. /\ pc'[x] = "table" /\ todo'[x] = todo[x] \ {s}
      /\ counted'[x].table = TableOf[s] /\ counted'[x].status # "none"
      /\ UNCHANGED <<seat, holder, table, active, seatLock, tableLock, op, wanted, newTable>>
  BY <1>0, <1>1, <1>2, <1>4 DEF Shapes, rows, Counts
<1>8. KindOK(x)' /\ WriterOK(x)' /\ TakerOK(x)' /\ HoldTableOK(x)'
  BY <1>0, <1>7 DEF CallOK, KindOK, WriterOK, TakerOK, HoldTableOK, After
<1>9. GiverOK(x)' /\ AllSeatsOK(x)' /\ TablesOK(x)'
  BY <1>0, <1>7 DEF CallOK, GiverOK, AllSeatsOK, TablesOK, Under
<1>10. FiredOK(x)'
  BY <1>0, <1>3, <1>7 DEF CallOK, FiredOK, After
<1> QED BY <1>0, <1>5, <1>6, <1>7, <1>8, <1>9, <1>10, Statement
        DEF CallOK, Under, RowsOK, NewTablesOK, SeatLocksOK, After

LEMMA WriteTableStep ==
    ASSUME LocksInv, NEW x \in Txns, WriteTable(x)
    PROVE  LocksInv'
<1> USE LocksAssumption
<1> DEFINE t == counted[x].table
<1>0. Shapes /\ RowsOK /\ CallOK(x) /\ pc[x] = "table"
  BY DEF LocksInv, WriteTable
<1>1. PICK s \in op[x].seats : t = TableOf[s] /\ counted[x].status # "none"
  BY <1>0 DEF CallOK, FiredOK
<1>2. /\ s \in Seats /\ t \in Tables /\ table[t] # "absent" /\ counted[x].status \in Counts
      /\ op[x].seats \subseteq Seats
  <2>1. s \in Seats /\ t \in Tables /\ counted[x].status \in Counts /\ op[x].seats \subseteq Seats
    BY <1>0, <1>1 DEF Shapes, Ops
  <2>2. seat[s] # "absent"
    BY <1>0 DEF CallOK, WriterOK, After
  <2> QED BY <1>0, <1>1, <2>1, <2>2 DEF RowsOK, DroppedOK
<1>3. /\ tableLock' = [tableLock EXCEPT ![t] = x]
      /\ newTable' = [newTable EXCEPT ![x][t] = counted[x].status]
      /\ pc' = [pc EXCEPT ![x] = IF todo[x] = {} THEN "commit" ELSE "count"]
      /\ UNCHANGED <<rows, seatLock, op, wanted, todo, counted>>
      /\ tableLock[t] \in {Nobody, x}
  BY <1>0, <1>2 DEF WriteTable, WaitsOn
<1> HIDE DEF t
<1>4. Shapes'
  BY <1>0, <1>2, <1>3 DEF Shapes, rows, Labels
<1>5. Quiet(x)
  <2> SUFFICES ASSUME NEW y \in Txns \ {x}
               PROVE  /\ pc'[y] = pc[y] /\ op'[y] = op[y] /\ wanted'[y] = wanted[y]
                      /\ todo'[y] = todo[y] /\ counted'[y] = counted[y]
                      /\ newTable'[y] = newTable[y]
                      /\ \A u \in Seats : seatLock'[u] = y <=> seatLock[u] = y
                      /\ \A u \in Tables : tableLock'[u] = y <=> tableLock[u] = y
    BY <1>3 DEF Quiet
  <2> QED BY <1>0, <1>2, <1>3 DEF Shapes
<1>6. /\ pc'[x] \in {"commit", "count"} /\ (pc'[x] = "commit" <=> todo[x] = {})
      /\ \A u \in Tables : tableLock'[u] = IF u = t THEN x ELSE tableLock[u]
      /\ \A u \in Tables : newTable'[x][u] = IF u = t THEN counted[x].status ELSE newTable[x][u]
      /\ UNCHANGED <<seat, holder, table, active, seatLock, op, wanted, todo, counted>>
  BY <1>0, <1>2, <1>3 DEF Shapes, rows
<1>7. KindOK(x)' /\ WriterOK(x)' /\ TakerOK(x)' /\ HoldTableOK(x)'
  BY <1>0, <1>6 DEF CallOK, KindOK, WriterOK, TakerOK, HoldTableOK, After
<1>8. GiverOK(x)' /\ AllSeatsOK(x)'
  BY <1>0, <1>6 DEF CallOK, GiverOK, AllSeatsOK, Under
<1>9. TablesOK(x)'
  <2>1. op[x].tables \subseteq Tables
    BY <1>0 DEF Shapes, Ops
  <2> QED BY <1>0, <1>6, <2>1 DEF CallOK, TablesOK, Under
<1>10. FiredOK(x)'
  <2>1. \A u \in op[x].seats : TableOf[u] \in Tables
    BY <1>2
  <2> QED BY <1>0, <1>1, <1>2, <1>6, <2>1 DEF CallOK, FiredOK, After, Counts, t
<1>11. \A u \in Tables : newTable'[x][u] # "same" => tableLock'[u] = x
  BY <1>0, <1>6 DEF RowsOK, NewTablesOK
<1> QED BY <1>0, <1>4, <1>5, <1>6, <1>7, <1>8, <1>9, <1>10, <1>11, Statement
        DEF CallOK, Under, RowsOK, SeatLocksOK, After

-----------------------------------------------------------------------------
(* The commit *)

\* What a committing transaction has: the locks of its seats and of their tables.
LEMMA CommitFacts ==
    ASSUME LocksInv, NEW x \in Txns, Commit(x)
    PROVE  /\ pc[x] = "commit" /\ op[x].seats \subseteq Seats /\ op[x].tables \subseteq Tables
           /\ \A s \in op[x].seats : /\ seatLock[s] = x /\ seat[s] # "absent"
                                     /\ tableLock[TableOf[s]] = x
                                     /\ newTable[x][TableOf[s]] # "same"
           /\ seat' = [s \in Seats |-> IF s \in op[x].seats THEN Written(x) ELSE seat[s]]
           /\ holder' = [s \in Seats |-> IF s \notin op[x].seats THEN holder[s]
                                         ELSE IF Written(x) = "held" THEN x ELSE Nobody]
<1> USE LocksAssumption
<1>0. Shapes /\ RowsOK /\ CallOK(x) /\ pc[x] = "commit"
  BY DEF LocksInv, Commit
<1>1. op[x].seats \subseteq Seats /\ op[x].tables \subseteq Tables
  BY <1>0 DEF Shapes, Ops
<1>2. \A s \in op[x].seats : seatLock[s] = x /\ seat[s] # "absent"
  BY <1>0 DEF CallOK, WriterOK, After
<1>3. \A s \in op[x].seats : newTable[x][TableOf[s]] # "same"
  BY <1>0 DEF CallOK, FiredOK, After
<1>4. \A s \in op[x].seats : tableLock[TableOf[s]] = x
  BY <1>0, <1>1, <1>3 DEF RowsOK, NewTablesOK
<1>5. {s \in op[x].seats : seatLock[s] = x} = op[x].seats
  BY <1>2
<1>6. /\ seat' = [s \in Seats |-> IF s \in op[x].seats THEN Written(x) ELSE seat[s]]
      /\ holder' = [s \in Seats |-> IF s \notin op[x].seats THEN holder[s]
                                    ELSE IF Written(x) = "held" THEN x ELSE Nobody]
  BY <1>5 DEF Commit
<1> QED BY <1>0, <1>1, <1>2, <1>3, <1>4, <1>6

LEMMA CommitOthers ==
    ASSUME LocksInv, NEW x \in Txns, Commit(x), NEW y \in Txns \ {x}
    PROVE  /\ CallOK(y)'
           /\ pc'[y] = pc[y] /\ op'[y] = op[y] /\ newTable'[y] = newTable[y]
           /\ \A s \in Seats : seatLock'[s] = y <=> seatLock[s] = y
           /\ \A t \in Tables : tableLock'[t] = y <=> tableLock[t] = y
<1> USE LocksAssumption
<1>0. Shapes /\ RowsOK /\ CallOK(y) /\ CallOK(x)
  BY DEF LocksInv
<1>1. /\ pc'[y] = pc[y] /\ op' = op /\ wanted'[y] = wanted[y] /\ todo'[y] = todo[y]
      /\ counted'[y] = counted[y] /\ newTable'[y] = newTable[y]
      /\ \A s \in Seats : seatLock'[s] = y <=> seatLock[s] = y
      /\ \A t \in Tables : tableLock'[t] = y <=> tableLock[t] = y
  BY <1>0 DEF Commit, End, Shapes
<1>2. /\ pc[x] = "commit" /\ op[x].seats \subseteq Seats
      /\ \A s \in op[x].seats : /\ seatLock[s] = x /\ seat[s] # "absent"
                                /\ tableLock[TableOf[s]] = x
      /\ \A s \in Seats : s \notin op[x].seats => seat'[s] = seat[s] /\ holder'[s] = holder[s]
      /\ \A s \in op[x].seats : /\ seat'[s] = Written(x)
                                /\ holder'[s] = IF Written(x) = "held" THEN x ELSE Nobody
  BY CommitFacts
<1>3. op[y].seats \subseteq Seats /\ op[y].tables \subseteq Tables /\ op[y].holds \subseteq Txns
  BY <1>0 DEF Shapes, Ops
<1>4. KindOK(y)' /\ TablesOK(y)' /\ HoldTableOK(y)' /\ FiredOK(y)'
  <2>1. KindOK(y)' /\ HoldTableOK(y)'
    BY <1>0, <1>1 DEF CallOK, KindOK, HoldTableOK
  <2>2. TablesOK(y)'
    BY <1>0, <1>1, <1>3 DEF CallOK, TablesOK, Under
  <2>3. FiredOK(y)'
    BY <1>0, <1>1 DEF CallOK, FiredOK
  <2> QED BY <2>1, <2>2, <2>3
<1>5. WriterOK(y)'
  BY <1>0, <1>1, <1>2, <1>3 DEF CallOK, WriterOK
<1>6. TakerOK(y)'
  <2> SUFFICES ASSUME op[y].kind \in Takers, pc[y] \in After \cup {"write"}, NEW s \in op[y].seats
               PROVE  s \notin op[x].seats
    BY <1>0, <1>1, <1>2, <1>3 DEF CallOK, TakerOK
  <2>1. CASE op[y].kind # "holdTable"
    BY <1>0, <1>2, <2>1 DEF CallOK, TakerOK
  <2>2. CASE op[y].kind = "holdTable"
    <3>1. TableOf[s] \in op[y].tables /\ tableLock[TableOf[s]] = y
      BY <1>0, <2>2 DEF CallOK, TablesOK, TablesFirst, Under, After
    <3> QED BY <1>2, <3>1
  <2> QED BY <2>1, <2>2
<1>7. AllSeatsOK(y)'
  BY <1>0, <1>1, <1>2 DEF CallOK, AllSeatsOK, Under
<1>8. GiverOK(y)'
  <2> SUFFICES ASSUME op[y].kind \in Givers, Under(y)
               PROVE  /\ op[y].holds \subseteq active'
                      /\ \A s \in op[y].seats : seat'[s] = "absent" \/ holder'[s] \in op[y].holds
                      /\ \A s \in Seats : holder'[s] \in op[y].holds => s \in op[y].seats
    BY <1>1 DEF GiverOK, Under
  <2>1. /\ op[y].holds \subseteq active
        /\ \A s \in op[y].seats : seat[s] = "absent" \/ holder[s] \in op[y].holds
        /\ \A s \in Seats : holder[s] \in op[y].holds => s \in op[y].seats
    BY <1>0 DEF CallOK, GiverOK
  <2>2. op[x].holds \cap op[y].holds = {} /\ x \notin op[y].holds
    BY <1>0, <1>2, <2>1 DEF RowsOK, GiversApart, ActiveOK, Under
  <2>3. op[y].holds \subseteq active'
    BY <2>1, <2>2 DEF Commit
  <2>4. ASSUME NEW s \in op[y].seats, seat'[s] # "absent" PROVE holder'[s] \in op[y].holds
    <3>1. CASE s \notin op[x].seats
      BY <1>2, <1>3, <2>1, <2>4, <3>1
    <3>2. CASE s \in op[x].seats
      <4>1. holder[s] \in op[y].holds /\ seat[s] = "held"
        BY <1>0, <1>2, <1>3, <2>1, <3>2 DEF RowsOK, HoldersOK
      <4>2. op[x].kind \notin Takers
        BY <1>0, <1>2, <3>2, <4>1 DEF CallOK, TakerOK, After
      <4>3. op[x].kind \notin Givers
        BY <1>0, <1>2, <2>2, <3>2, <4>1 DEF CallOK, GiverOK, Under
      <4>4. Written(x) = "absent"
        BY <4>2, <4>3 DEF Written, Takers, Givers
      <4> QED BY <1>2, <2>4, <3>2, <4>4
    <3> QED BY <3>1, <3>2
  <2>5. ASSUME NEW s \in Seats, holder'[s] \in op[y].holds PROVE s \in op[y].seats
    <3>1. CASE s \notin op[x].seats
      BY <1>2, <2>1, <2>5, <3>1
    <3>2. CASE s \in op[x].seats
      BY <1>2, <1>3, <2>2, <2>5, <3>2
    <3> QED BY <3>1, <3>2
  <2> QED BY <2>3, <2>4, <2>5
<1> QED BY <1>1, <1>4, <1>5, <1>6, <1>7, <1>8 DEF CallOK

LEMMA CommitRows ==
    ASSUME LocksInv, NEW x \in Txns, Commit(x)
    PROVE  HoldersOK' /\ DroppedOK' /\ WholeOK' /\ ActiveOK'
<1> USE LocksAssumption
<1>0. Shapes /\ RowsOK /\ CallOK(x)
  BY DEF LocksInv
<1>1. /\ pc[x] = "commit" /\ op[x].seats \subseteq Seats /\ op[x].tables \subseteq Tables
      /\ \A s \in op[x].seats : seat[s] # "absent" /\ newTable[x][TableOf[s]] # "same"
      /\ \A s \in Seats : s \notin op[x].seats => seat'[s] = seat[s] /\ holder'[s] = holder[s]
      /\ \A s \in op[x].seats : /\ seat'[s] = Written(x)
                                /\ holder'[s] = IF Written(x) = "held" THEN x ELSE Nobody
  BY CommitFacts
<1>2. /\ table' = [t \in Tables |->
                    IF t \in op[x].tables /\ op[x].kind = "holdTable" THEN "held"
                    ELSE IF t \in op[x].tables /\ op[x].kind = "sellTable" THEN "sold"
                    ELSE IF t \in op[x].tables /\ op[x].kind = "dropTable" THEN "absent"
                    ELSE IF newTable[x][t] # "same" THEN newTable[x][t] ELSE table[t]]
      /\ active' = IF op[x].kind \in {"holdSeats", "holdTable"} THEN active \cup {x}
                   ELSE active \ op[x].holds
      /\ pc' = [pc EXCEPT ![x] = "done"]
  BY DEF Commit, End
<1>3. HoldersOK'
  BY <1>0, <1>1 DEF HoldersOK, RowsOK
<1>4. ActiveOK'
  BY <1>0, <1>2 DEF ActiveOK, RowsOK, Shapes
<1>5. \A t \in Tables : newTable[x][t] \in Counts \cup {"same"}
  BY <1>0 DEF Shapes
<1>6. op[x].kind \in {"holdTable", "dropTable"} =>
          \A s \in Seats : TableOf[s] \in op[x].tables /\ seat[s] # "absent" => s \in op[x].seats
  BY <1>0, <1>1 DEF CallOK, AllSeatsOK, Under
<1>7. DroppedOK'
  <2> SUFFICES ASSUME NEW s \in Seats, table'[TableOf[s]] = "absent", seat'[s] # "absent"
               PROVE  FALSE
    BY DEF DroppedOK
  <2>1. CASE TableOf[s] \in op[x].tables /\ op[x].kind = "dropTable"
    <3>1. Written(x) = "absent"
      BY <2>1 DEF Written
    <3> QED BY <1>1, <1>6, <2>1, <3>1
  <2>2. CASE ~ (TableOf[s] \in op[x].tables /\ op[x].kind = "dropTable")
    <3>1. table[TableOf[s]] = "absent" /\ newTable[x][TableOf[s]] = "same"
      BY <1>2, <1>5, <2>2 DEF Counts
    <3>2. seat[s] = "absent"
      BY <1>0, <3>1 DEF RowsOK, DroppedOK
    <3> QED BY <1>1, <3>2
  <2> QED BY <2>1, <2>2
<1>8. WholeOK'
  <2> SUFFICES ASSUME NEW t \in Tables, table'[t] = "held"
               PROVE  \E z \in active' :
                         /\ \E s \in Seats : TableOf[s] = t /\ seat'[s] # "absent"
                         /\ \A s \in Seats : TableOf[s] = t /\ seat'[s] # "absent"
                                                 => seat'[s] = "held" /\ holder'[s] = z
    BY DEF WholeOK
  <2>1. CASE t \in op[x].tables /\ op[x].kind = "holdTable"
    <3>1. Written(x) = "held" /\ x \in active'
      BY <1>2, <2>1 DEF Written
    <3>2. op[x].tables = {t}
      BY <1>0, <2>1 DEF CallOK, HoldTableOK
    <3>3. PICK s \in op[x].seats : TableOf[s] = t
      BY <1>0, <1>1, <2>1, <3>2 DEF CallOK, HoldTableOK, TablesOK, TablesFirst, Under, After
    <3>4. \A u \in Seats : TableOf[u] = t /\ seat'[u] # "absent" => seat'[u] = "held" /\ holder'[u] = x
      BY <1>1, <1>6, <2>1, <3>1
    <3>5. s \in Seats /\ seat'[s] # "absent"
      BY <1>1, <3>1
    <3> QED BY <3>1, <3>3, <3>4, <3>5
  <2>2. CASE ~ (t \in op[x].tables /\ op[x].kind = "holdTable")
    <3>1. table[t] = "held" /\ newTable[x][t] = "same"
      BY <1>2, <1>5, <2>2 DEF Counts
    <3>2. \A s \in Seats : TableOf[s] = t => seat'[s] = seat[s] /\ holder'[s] = holder[s]
      BY <1>1, <3>1
    <3>3. PICK z \in active :
             /\ \E s \in Seats : TableOf[s] = t /\ seat[s] # "absent"
             /\ \A s \in Seats : TableOf[s] = t /\ seat[s] # "absent"
                                     => seat[s] = "held" /\ holder[s] = z
      BY <1>0, <3>1 DEF RowsOK, WholeOK
    <3>4. z \notin op[x].holds
      <4> SUFFICES ASSUME z \in op[x].holds PROVE FALSE
        OBVIOUS
      <4>1. op[x].kind \in Givers
        BY <1>0 DEF CallOK, KindOK
      <4>2. PICK s \in Seats : TableOf[s] = t /\ holder[s] = z
        BY <3>3
      <4>3. s \in op[x].seats
        BY <1>0, <1>1, <4>1, <4>2 DEF CallOK, GiverOK, Under
      <4> QED BY <1>1, <3>1, <4>2, <4>3
    <3>5. z \in active'
      BY <1>2, <3>4
    <3> QED BY <3>2, <3>3, <3>5
  <2> QED BY <2>1, <2>2
<1> QED BY <1>3, <1>4, <1>7, <1>8

LEMMA CommitStep ==
    ASSUME LocksInv, NEW x \in Txns, Commit(x)
    PROVE  LocksInv'
<1> USE LocksAssumption
<1>0. Shapes /\ RowsOK /\ CallOK(x)
  BY DEF LocksInv
<1>1. /\ pc' = [pc EXCEPT ![x] = "done"] /\ UNCHANGED <<op, counted>>
      /\ seatLock' = [s \in Seats |-> IF seatLock[s] = x THEN Nobody ELSE seatLock[s]]
      /\ tableLock' = [t \in Tables |-> IF tableLock[t] = x THEN Nobody ELSE tableLock[t]]
      /\ wanted' = [wanted EXCEPT ![x] = {}] /\ todo' = [todo EXCEPT ![x] = {}]
      /\ newTable' = [newTable EXCEPT ![x] = [t \in Tables |-> "same"]]
  BY DEF Commit, End
<1>2. /\ pc[x] = "commit"
      /\ \A s \in op[x].seats : seatLock[s] = x
      /\ seat' = [s \in Seats |-> IF s \in op[x].seats THEN Written(x) ELSE seat[s]]
      /\ holder' = [s \in Seats |-> IF s \notin op[x].seats THEN holder[s]
                                    ELSE IF Written(x) = "held" THEN x ELSE Nobody]
  BY CommitFacts
<1>3. Shapes'
  <2>1. Written(x) \in SeatStates
    BY DEF Written, SeatStates
  <2>2. seat' \in [Seats -> SeatStates] /\ holder' \in [Seats -> Txns \cup {Nobody}]
    BY <1>0, <1>2, <2>1 DEF Shapes
  <2>3. table' \in [Tables -> Counts \cup {"absent", "held"}] /\ active' \subseteq Txns
    <3>1. \A t \in Tables : newTable[x][t] \in Counts \cup {"same"}
      BY <1>0 DEF Shapes
    <3> QED BY <1>0, <3>1 DEF Shapes, Commit, Counts
  <2> QED BY <1>0, <1>1, <2>2, <2>3 DEF Shapes, Labels, Counts
<1>4. pc'[x] = "done" /\ op'[x] = op[x]
  BY <1>0, <1>1 DEF Shapes
<1>5. CallOK(x)'
  <2>1. HoldTableOK(x)' /\ KindOK(x)'
    BY <1>0, <1>4 DEF CallOK, HoldTableOK, KindOK, After
  <2> QED BY <1>4, <2>1 DEF CallOK, WriterOK, TakerOK, GiverOK, TablesOK, AllSeatsOK, FiredOK, After, Under
<1>6. /\ \A s \in Seats : seatLock'[s] # x
      /\ \A t \in Tables : newTable'[x][t] = "same"
  BY <1>0, <1>1 DEF Shapes
<1>7. SeatLocksOK'
  <2> SUFFICES ASSUME NEW s \in Seats, seatLock'[s] # Nobody
               PROVE  /\ s \in op'[seatLock'[s]].seats /\ seat'[s] # "absent"
                      /\ pc'[seatLock'[s]] \in After \cup {"write"}
    BY DEF SeatLocksOK
  <2>1. seatLock'[s] = seatLock[s] /\ seatLock[s] \in Txns \ {x}
    BY <1>0, <1>1, <1>6 DEF Shapes
  <2>2. s \notin op[x].seats
    BY <1>2, <2>1
  <2> QED BY <1>0, <1>1, <1>2, <2>1, <2>2 DEF RowsOK, SeatLocksOK, Shapes
<1>8. GiversApart'
  BY <1>0, <1>1, <1>4 DEF RowsOK, GiversApart, Under, Shapes
<1>9. NewTablesOK'
  <2> SUFFICES ASSUME NEW y \in Txns, NEW t \in Tables, newTable'[y][t] # "same"
               PROVE  tableLock'[t] = y
    BY DEF NewTablesOK
  <2>1. y # x
    BY <1>6
  <2> QED BY <1>0, <2>1, CommitOthers DEF RowsOK, NewTablesOK
<1>10. \A y \in Txns : CallOK(y)'
  BY <1>5, CommitOthers
<1> QED BY <1>3, <1>7, <1>8, <1>9, <1>10, CommitRows DEF LocksInv, RowsOK

-----------------------------------------------------------------------------
(* The theorems *)

LEMMA EveryStep ==
    ASSUME LocksInv, [Next]_vars
    PROVE  LocksInv'
<1>1. CASE UNCHANGED vars
  BY <1>1 DEF vars, rows, LocksInv, Shapes, RowsOK, SeatLocksOK, HoldersOK, GiversApart, ActiveOK,
      NewTablesOK, DroppedOK, WholeOK, CallOK, KindOK, WriterOK, TakerOK, GiverOK, TablesOK,
      AllSeatsOK, HoldTableOK, FiredOK, Under
<1>2. ASSUME NEW x \in Txns, Step(x) PROVE LocksInv'
  <2>1. CASE BeginSeats(x) \/ BeginTable(x) \/ BeginHolds(x)
    BY <2>1, Beginnings
  <2>2. CASE LockTable(x) \/ LockSeats(x) \/ ReadSeats(x)
    BY <2>2, LockTableStep, LockSeatsStep, ReadSeatsStep
  <2>3. CASE WriteSeats(x) \/ Count(x) \/ WriteTable(x)
    BY <2>3, WriteSeatsStep, CountStep, WriteTableStep
  <2>4. CASE Commit(x)
    BY <2>4, CommitStep
  <2>5. CASE Abort(x)
    BY <2>5, EndStep DEF Abort
  <2> QED BY <1>2, <2>1, <2>2, <2>3, <2>4, <2>5 DEF Step
<1> QED BY <1>1, <1>2 DEF Next

\* Only a commit changes the rows.
LEMMA OnlyCommitWrites ==
    ASSUME [Next]_vars
    PROVE  UNCHANGED rows \/ \E x \in Txns : Commit(x)
<1>1. ASSUME NEW x \in Txns, Step(x), ~ Commit(x) PROVE UNCHANGED rows
  BY <1>1 DEF Step, BeginSeats, BeginTable, BeginHolds, Begin, LockTable, LockSeats, ReadSeats,
      WriteSeats, Count, WriteTable, Abort
<1> QED BY <1>1 DEF Next, vars

\* What holds of every reachable state: who has which lock, and what each call
\* knows of the rows it is going to write.
THEOREM LocksInvariant == Spec => []LocksInv
<1> QED BY InitLocks, EveryStep, PTL DEF Spec

\* Two hold_seats, hold_table, door sales and payments that interleave statement
\* by statement never take a seat that is not free when they commit.
THEOREM SeatsAreTakenOnceHolds == Spec => SeatsAreTakenOnce
<1> DEFINE Taken == \A s \in Seats :
          /\ holder'[s] # holder[s] /\ holder'[s] # Nobody => seat[s] = "available"
          /\ seat'[s] = "sold" /\ seat[s] # "sold"
               => seat[s] = "available" \/ holder[s] \notin active'
<1>1. ASSUME LocksInv, [Next]_vars PROVE Taken
  <2>1. CASE UNCHANGED rows
    BY <2>1 DEF rows
  <2>2. ASSUME NEW x \in Txns, Commit(x), NEW s \in op[x].seats,
               Written(x) \in {"held", "sold"}
        PROVE  seat[s] = "available" \/ (Written(x) = "sold" /\ holder[s] \notin active')
    <3>1. CallOK(x) /\ pc[x] = "commit" /\ seat[s] # "absent"
      BY <1>1, <2>2, CommitFacts DEF LocksInv
    <3>2. CASE op[x].kind \in Takers
      BY <3>1, <3>2 DEF CallOK, TakerOK, After
    <3>3. CASE op[x].kind = "fulfil"
      <4>1. holder[s] \in op[x].holds
        BY <3>1, <3>3 DEF CallOK, GiverOK, Givers, Under
      <4>2. active' = active \ op[x].holds /\ Written(x) = "sold"
        BY <2>2, <3>3 DEF Commit, Written
      <4> QED BY <4>1, <4>2
    <3>4. op[x].kind \in Takers \cup {"fulfil"}
      BY <2>2 DEF Written, Takers
    <3> QED BY <3>2, <3>3, <3>4
  <2>3. ASSUME NEW x \in Txns, Commit(x), NEW s \in Seats
        PROVE  /\ holder'[s] # holder[s] /\ holder'[s] # Nobody => seat[s] = "available"
               /\ seat'[s] = "sold" /\ seat[s] # "sold"
                     => seat[s] = "available" \/ holder[s] \notin active'
    <3>1. /\ s \notin op[x].seats => seat'[s] = seat[s] /\ holder'[s] = holder[s]
          /\ s \in op[x].seats => /\ seat'[s] = Written(x)
                                  /\ holder'[s] = IF Written(x) = "held" THEN x ELSE Nobody
      BY <1>1, <2>3, CommitFacts
    <3>2. s \in op[x].seats /\ Written(x) \in {"held", "sold"} =>
             seat[s] = "available" \/ (Written(x) = "sold" /\ holder[s] \notin active')
      BY <2>2, <2>3
    <3> QED BY <3>1, <3>2
  <2> QED BY <1>1, <2>1, <2>3, OnlyCommitWrites
<1>2. LocksInv /\ [Next]_vars => [Taken]_vars
  BY <1>1
<1> QED BY <1>2, LocksInvariant, PTL DEF Spec, SeatsAreTakenOnce

\* hold_table's unlocked count of the seats is enough: whatever overlapped it, the
\* hold has every seat of the table it marks held, for as long as it is.
THEOREM HeldTablesAreWholeHolds == Spec => []HeldTablesAreWhole
<1>1. LocksInv => HeldTablesAreWhole
  BY DEF LocksInv, RowsOK, WholeOK, HeldTablesAreWhole
<1> QED BY <1>1, LocksInvariant, PTL

\* A finite set of tables has a last one.
LEMMA LastTable ==
    ASSUME NEW W \in SUBSET Nat, W # {}, IsFiniteSet(W)
    PROVE  \E t \in W : \A u \in W : u <= t
<1> DEFINE Beyond(t) == {u \in W : t < u}
           Sizes == {Cardinality(Beyond(t)) : t \in W}
<1>1. ASSUME NEW t \in W PROVE IsFiniteSet(Beyond(t)) /\ Cardinality(Beyond(t)) \in Nat
  <2>1. Beyond(t) \in SUBSET W
    OBVIOUS
  <2> HIDE DEF Beyond
  <2> QED BY <2>1, FS_Subset, FS_CardinalityType
<1>2. Sizes \in SUBSET Nat /\ Sizes # {}
  BY <1>1
<1>3. PICK n \in Sizes : \A m \in Sizes : n <= m
  <2> HIDE DEF Sizes
  <2> QED BY <1>2, FirstTable
<1>4. PICK t \in W : n = Cardinality(Beyond(t))
  OBVIOUS
<1>5. ASSUME NEW u \in W, t < u PROVE FALSE
  <2>0. \A v \in W : v \in Nat
    OBVIOUS
  <2>1. Beyond(u) \in SUBSET Beyond(t) /\ u \in Beyond(t) /\ u \notin Beyond(u)
    <3>1. ASSUME NEW v \in Beyond(u) PROVE v \in Beyond(t)
      BY <1>5, <2>0
    <3>2. u \in Beyond(t) /\ u \notin Beyond(u)
      BY <1>5, <2>0
    <3> QED BY <3>1, <3>2
  <2>2. Cardinality(Beyond(t)) <= Cardinality(Beyond(u))
    BY <1>3, <1>4
  <2>3. /\ IsFiniteSet(Beyond(t)) /\ Cardinality(Beyond(t)) \in Nat
        /\ Cardinality(Beyond(u)) \in Nat
    BY <1>1
  <2> HIDE DEF Beyond
  <2>4. Beyond(t) # Beyond(u)
    BY <2>1
  <2>5. /\ Cardinality(Beyond(u)) <= Cardinality(Beyond(t))
        /\ Cardinality(Beyond(t)) = Cardinality(Beyond(u)) => Beyond(t) = Beyond(u)
    BY <2>1, <2>3, FS_Subset
  <2> QED BY <2>2, <2>3, <2>4, <2>5
<1> QED BY <1>5

\* Why locking tables first and in the order of their ids cannot deadlock: of a
\* circle of such calls all would wait for a table, the one that waits for the
\* last table waits for a call that wants a later one.
LEMMA NoCircle ==
    ASSUME LocksInv
    PROVE  TablesFirstNeverCircle
<1> USE LocksAssumption
<1> SUFFICES ASSUME NEW X \in SUBSET {x \in Txns : op[x].kind \in TablesFirst}, X # {}, Circle(X)
             PROVE  FALSE
  BY DEF TablesFirstNeverCircle
<1>0. Shapes /\ RowsOK /\ \A x \in X : x \in Txns /\ CallOK(x) /\ op[x].kind \in TablesFirst
  BY DEF LocksInv
<1>1. \A x \in X : WaitsOn(x) \cap X # {} /\ pc[x] \in {"tables", "write", "table"}
  BY DEF Circle, WaitsOn
<1>2. \A x \in X : op[x].seats \subseteq Seats
  BY <1>0 DEF Shapes, Ops
<1>3. ASSUME NEW x \in X, pc[x] \in {"write"} \cup After, NEW s \in op[x].seats
      PROVE  tableLock[TableOf[s]] = x
  BY <1>0, <1>3 DEF CallOK, TablesOK, Under, After
<1>4. ASSUME NEW x \in X PROVE pc[x] = "tables"
  <2>1. CASE pc[x] = "table"
    <3>1. PICK s \in op[x].seats : counted[x].table = TableOf[s]
      BY <1>0, <2>1 DEF CallOK, FiredOK
    <3>2. tableLock[counted[x].table] = x
      BY <1>3, <2>1, <3>1 DEF After
    <3> QED BY <1>1, <2>1, <3>2 DEF WaitsOn
  <2>2. CASE pc[x] = "write"
    <3>1. PICK y \in X : y \in {seatLock[s] : s \in op[x].seats} \ {Nobody, x}
      BY <1>1, <2>2 DEF WaitsOn
    <3>2. PICK s \in op[x].seats : y = seatLock[s] /\ y # Nobody /\ y # x
      BY <3>1
    <3>3. s \in op[y].seats /\ pc[y] \in After \cup {"write"}
      BY <1>0, <1>2, <3>2 DEF RowsOK, SeatLocksOK
    <3> QED BY <1>3, <2>2, <3>2, <3>3
  <2> QED BY <1>1, <2>1, <2>2
<1>5. ASSUME NEW x \in X PROVE NextTable(x) \in Tables /\ NextTable(x) \in wanted[x]
  <2>1. wanted[x] # {} /\ wanted[x] \subseteq Tables
    BY <1>0, <1>4 DEF CallOK, KindOK, Shapes
  <2> QED BY <1>0, <2>1, NextIsFirst
<1>6. ASSUME NEW x \in X PROVE \E y \in X : NextTable(x) < NextTable(y)
  <2>1. PICK y \in X : y = tableLock[NextTable(x)]
    BY <1>1, <1>4 DEF WaitsOn
  <2>2. NextTable(x) \in Tables /\ NextTable(y) \in wanted[y]
    BY <1>5
  <2> QED BY <1>0, <1>4, <2>1, <2>2 DEF CallOK, TablesOK, Under
<1> DEFINE W == {NextTable(x) : x \in X}
<1>7. W \in SUBSET Tables /\ W # {}
  BY <1>5
<1>8. IsFiniteSet(W) /\ W \in SUBSET Nat
  <2> HIDE DEF W
  <2> QED BY <1>7, FS_Subset
<1>9. PICK t \in W : \A u \in W : u <= t
  <2> HIDE DEF W
  <2> QED BY <1>7, <1>8, LastTable
<1>10. PICK x \in X : t = NextTable(x)
  OBVIOUS
<1>11. PICK y \in X : t < NextTable(y)
  BY <1>6, <1>10
<1>12. NextTable(y) <= t /\ NextTable(y) \in Nat /\ t \in Nat
  BY <1>5, <1>8, <1>9
<1> QED BY <1>11, <1>12

\* The calls that lock their tables first never wait for one another in a circle,
\* whatever runs beside them.
THEOREM TablesFirstNeverCircleHolds == Spec => []TablesFirstNeverCircle
<1> QED BY NoCircle, LocksInvariant, PTL
-----------------------------------------------------------------------------
(* Whose tickets name a seat *)

\* A seat is held by an active hold; the ticket of a sold one is for a call or a
\* hold that is over; a payment is of one hold.
HoldersActive == \A s \in Seats : holder[s] # Nobody => holder[s] \in active
SoldOK ==
    \A s \in Seats : seat[s] = "sold" =>
        ticket[s] \in Txns /\ pc[ticket[s]] = "done" /\ ticket[s] \notin active
OneHoldOK == \A x \in Txns : op[x].kind = "fulfil" => \E b \in Txns : op[x].holds = {b}

TicketInv ==
    /\ LocksInv /\ ticket \in [Seats -> Txns \cup {Nobody}] /\ IsFiniteSet(active)
    /\ HoldersActive /\ SoldOK /\ OneHoldOK

LEMMA InitTickets == TicketInit => TicketInv
<1> SUFFICES ASSUME TicketInit PROVE TicketInv
  OBVIOUS
<1> USE LocksAssumption
<1>1. LocksInv
  BY InitLocks DEF TicketInit
<1>2. IsFiniteSet(active)
  BY FS_EmptySet DEF TicketInit, Init
<1> QED BY <1>1, <1>2 DEF TicketInit, Init, TicketInv, HoldersActive, SoldOK, OneHoldOK, NoOp

\* Who has ended makes no step, and what ends without a commit writes no ticket.
LEMMA StepOf ==
    ASSUME LocksInv, NEW x \in Txns, Step(x)
    PROVE  /\ pc[x] # "done"
           /\ pc[x] = "commit" => Commit(x)
           /\ \A y \in Txns \ {x} : pc'[y] = pc[y]
<1>0. Shapes
  BY DEF LocksInv
<1>1. CASE BeginSeats(x) \/ BeginTable(x) \/ BeginHolds(x)
  BY <1>0, <1>1 DEF BeginSeats, BeginTable, BeginHolds, Begin, Shapes
<1>2. CASE LockTable(x) \/ LockSeats(x) \/ ReadSeats(x)
  BY <1>0, <1>2 DEF LockTable, LockSeats, ReadSeats, End, Shapes
<1>3. CASE WriteSeats(x) \/ Count(x) \/ WriteTable(x)
  BY <1>0, <1>3 DEF WriteSeats, Count, WriteTable, Shapes
<1>4. CASE Commit(x)
  BY <1>0, <1>4 DEF Commit, End, Shapes
<1>5. CASE Abort(x)
  <2>1. WaitsOn(x) # {}
    BY <1>5 DEF Abort, InCircle, Circle
  <2>2. pc[x] \in {"tables", "write", "table"}
    BY <2>1 DEF WaitsOn
  <2> QED BY <1>0, <1>5, <2>2 DEF Abort, End, Shapes
<1> QED BY <1>1, <1>2, <1>3, <1>4, <1>5 DEF Step

\* A payment that begins is of one hold.
LEMMA OneHoldStep ==
    ASSUME TicketInv, NEW x \in Txns, Step(x)
    PROVE  OneHoldOK'
<1>0. Shapes /\ OneHoldOK /\ IsFiniteSet(active)
  BY DEF TicketInv, LocksInv
<1>1. CASE BeginSeats(x) \/ BeginTable(x)
  <2>1. \E kind \in AllKinds \ {"fulfil"} : \E S, T, H : Begin(x, kind, S, T, H)
    BY <1>1 DEF BeginSeats, BeginTable, AllKinds
  <2>2. op'[x].kind # "fulfil" /\ \A y \in Txns \ {x} : op'[y] = op[y]
    BY <1>0, <2>1 DEF Begin, Shapes
  <2> QED BY <1>0, <2>2 DEF OneHoldOK
<1>2. CASE BeginHolds(x)
  <2>1. PICK kind \in {"giveBack", "fulfil"}, H \in (SUBSET (active \ Busy)) \ {{}} :
           /\ kind = "fulfil" => Cardinality(H) = 1
           /\ \E S, T : Begin(x, kind, S, T, H)
    BY <1>2 DEF BeginHolds
  <2>2. H \subseteq Txns /\ IsFiniteSet(H)
    BY <1>0, FS_Subset DEF Shapes
  <2>3. kind = "fulfil" => \E b \in Txns : H = {b}
    BY <2>1, <2>2, FS_Singleton
  <2>4. op'[x].kind = kind /\ op'[x].holds = H /\ \A y \in Txns \ {x} : op'[y] = op[y]
    BY <1>0, <2>1 DEF Begin, Shapes
  <2> QED BY <1>0, <2>3, <2>4 DEF OneHoldOK
<1>3. CASE LockTable(x) \/ LockSeats(x) \/ ReadSeats(x) \/ Count(x) \/ WriteTable(x) \/ Commit(x) \/ Abort(x)
  <2>1. UNCHANGED op
    BY <1>3 DEF LockTable, LockSeats, ReadSeats, Count, WriteTable, Commit, Abort, End
  <2> QED BY <1>0, <2>1 DEF OneHoldOK
<1>4. CASE WriteSeats(x)
  <2>1. \A y \in Txns : op'[y].kind = op[y].kind /\ op'[y].holds = op[y].holds
    BY <1>0, <1>4 DEF WriteSeats, Shapes, Ops
  <2> QED BY <1>0, <2>1 DEF OneHoldOK
<1> QED BY <1>1, <1>2, <1>3, <1>4 DEF Step

\* What a commit does to the seats, their holders and their tickets.
LEMMA CommitTickets ==
    ASSUME TicketInv, NEW x \in Txns, Commit(x), Issue(x)
    PROVE  /\ pc[x] = "commit" /\ op[x].seats \subseteq Seats
           /\ \A s \in Seats \ op[x].seats :
                 seat'[s] = seat[s] /\ holder'[s] = holder[s] /\ ticket'[s] = ticket[s]
           /\ \A s \in op[x].seats :
                 /\ seat'[s] = Written(x) /\ ticket'[s] = TicketOf(x, s)
                 /\ holder'[s] = IF Written(x) = "held" THEN x ELSE Nobody
           /\ \A s \in Seats : seat[s] = "held" <=> holder[s] # Nobody
           /\ op[x].kind \in Takers => \A s \in op[x].seats : seat[s] = "available"
           /\ op[x].kind \in Givers =>
                 /\ op[x].holds \subseteq active /\ Nobody \notin op[x].holds
                 /\ op[x].seats = {s \in Seats : holder[s] \in op[x].holds}
           /\ op[x].kind \notin Givers => op[x].holds = {}
           /\ op[x].kind \in AllKinds \cup {"none"}
           /\ x \notin active
<1> USE LocksAssumption
<1>0. Shapes /\ RowsOK /\ CallOK(x)
  BY DEF TicketInv, LocksInv
<1>1. /\ pc[x] = "commit" /\ op[x].seats \subseteq Seats
      /\ \A s \in op[x].seats : seatLock[s] = x /\ seat[s] # "absent"
      /\ seat' = [s \in Seats |-> IF s \in op[x].seats THEN Written(x) ELSE seat[s]]
      /\ holder' = [s \in Seats |-> IF s \notin op[x].seats THEN holder[s]
                                    ELSE IF Written(x) = "held" THEN x ELSE Nobody]
  BY CommitFacts DEF TicketInv
<1>2. \A s \in Seats : ticket'[s] = IF s \in op[x].seats THEN TicketOf(x, s) ELSE ticket[s]
  BY <1>1 DEF Issue
<1>3. op[x].kind \in Takers => \A s \in op[x].seats : seat[s] = "available"
  BY <1>0, <1>1 DEF CallOK, TakerOK, After
<1>4. ASSUME op[x].kind \in Givers
      PROVE  /\ op[x].holds \subseteq active /\ Nobody \notin op[x].holds
             /\ op[x].seats = {s \in Seats : holder[s] \in op[x].holds}
  <2>1. /\ op[x].holds \subseteq active
        /\ \A s \in op[x].seats : seat[s] = "absent" \/ holder[s] \in op[x].holds
        /\ \A s \in Seats : holder[s] \in op[x].holds => s \in op[x].seats
    BY <1>0, <1>1, <1>4 DEF CallOK, GiverOK, Under
  <2> QED BY <1>0, <1>1, <2>1 DEF Shapes
<1>5. op[x].kind \notin Givers => op[x].holds = {}
  BY <1>0 DEF CallOK, KindOK
<1>6. op[x].kind \in AllKinds \cup {"none"}
  BY <1>0 DEF Shapes, Ops
<1>7. x \notin active /\ \A s \in Seats : seat[s] = "held" <=> holder[s] # Nobody
  BY <1>0, <1>1 DEF RowsOK, ActiveOK, HoldersOK
<1> QED BY <1>1, <1>2, <1>3, <1>4, <1>5, <1>6, <1>7

LEMMA CommitOwners ==
    ASSUME TicketInv, NEW x \in Txns, Commit(x), Issue(x)
    PROVE  /\ ticket' \in [Seats -> Txns \cup {Nobody}] /\ IsFiniteSet(active')
           /\ HoldersActive' /\ SoldOK'
<1> USE LocksAssumption
<1>0. /\ Shapes /\ HoldersActive /\ SoldOK /\ IsFiniteSet(active)
      /\ ticket \in [Seats -> Txns \cup {Nobody}]
      /\ \A b \in active : pc[b] = "done"
  BY DEF TicketInv, LocksInv, RowsOK, ActiveOK
<1>1. /\ active' = IF op[x].kind \in {"holdSeats", "holdTable"} THEN active \cup {x}
                   ELSE active \ op[x].holds
      /\ pc' = [pc EXCEPT ![x] = "done"]
  BY DEF Commit, End
<1>2. IsFiniteSet(active')
  BY <1>0, <1>1, FS_AddElement, FS_Subset
<1>3. \A s \in Seats : TicketOf(x, s) \in Txns \cup {Nobody}
  BY <1>0 DEF TicketOf, Shapes
<1>4. ticket' \in [Seats -> Txns \cup {Nobody}]
  BY <1>0, <1>3 DEF Issue
<1>5. HoldersActive'
  <2> SUFFICES ASSUME NEW s \in Seats, holder'[s] # Nobody PROVE holder'[s] \in active'
    BY DEF HoldersActive
  <2>1. CASE s \in op[x].seats
    <3>1. Written(x) = "held" /\ holder'[s] = x
      BY <2>1, CommitTickets
    <3>2. op[x].kind \in {"holdSeats", "holdTable"}
      BY <3>1 DEF Written
    <3> QED BY <1>1, <3>1, <3>2
  <2>2. CASE s \notin op[x].seats
    <3>1. holder'[s] = holder[s] /\ holder[s] \in active
      BY <1>0, <2>2, CommitTickets DEF HoldersActive
    <3>2. holder[s] \notin op[x].holds
      BY <2>2, CommitTickets
    <3> QED BY <1>1, <3>1, <3>2
  <2> QED BY <2>1, <2>2
<1>6. SoldOK'
  <2> SUFFICES ASSUME NEW s \in Seats, seat'[s] = "sold"
               PROVE  ticket'[s] \in Txns /\ pc'[ticket'[s]] = "done" /\ ticket'[s] \notin active'
    BY DEF SoldOK
  <2>1. CASE s \in op[x].seats
    <3>1. Written(x) = "sold" /\ ticket'[s] = IF op[x].kind = "fulfil" THEN holder[s] ELSE x
      BY <2>1, CommitTickets DEF TicketOf
    <3>2. op[x].kind \in {"sellSeats", "sellTable", "fulfil"}
      BY <3>1 DEF Written
    <3>3. CASE op[x].kind = "fulfil"
      <4>1. holder[s] \in op[x].holds /\ op[x].holds \subseteq active
        BY <2>1, <3>3, CommitTickets DEF Givers
      <4> QED BY <1>0, <1>1, <3>1, <3>3, <4>1 DEF Shapes
    <3>4. CASE op[x].kind # "fulfil"
      BY <1>0, <1>1, <3>1, <3>2, <3>4, CommitTickets DEF Shapes
    <3> QED BY <3>3, <3>4
  <2>2. CASE s \notin op[x].seats
    <3>1. seat[s] = "sold" /\ ticket'[s] = ticket[s]
      BY <2>2, CommitTickets
    <3>2. ticket[s] \in Txns /\ pc[ticket[s]] = "done" /\ ticket[s] \notin active
      BY <1>0, <3>1 DEF SoldOK
    <3> QED BY <1>0, <1>1, <3>1, <3>2, CommitTickets DEF Shapes
  <2> QED BY <2>1, <2>2
<1> QED BY <1>2, <1>4, <1>5, <1>6

\* A step that commits nothing leaves every owner as it is.
LEMMA OwnersStay ==
    ASSUME TicketInv, NEW x \in Txns, Step(x), ~ Commit(x), Issue(x)
    PROVE  UNCHANGED <<rows, ticket>>
<1>1. UNCHANGED rows
  BY DEF Step, BeginSeats, BeginTable, BeginHolds, Begin, LockTable, LockSeats, ReadSeats,
      WriteSeats, Count, WriteTable, Abort
<1>2. pc[x] # "commit"
  BY StepOf DEF TicketInv
<1> QED BY <1>1, <1>2 DEF Issue, TicketInv

LEMMA TicketStep ==
    ASSUME TicketInv, [TicketNext]_ticketVars
    PROVE  TicketInv'
<1>1. CASE UNCHANGED ticketVars
  <2>1. LocksInv'
    BY <1>1, EveryStep DEF ticketVars, TicketInv
  <2> QED BY <1>1, <2>1 DEF ticketVars, vars, rows, TicketInv, HoldersActive, SoldOK, OneHoldOK
<1>2. ASSUME NEW x \in Txns, Step(x), Issue(x) PROVE TicketInv'
  <2>1. LocksInv'
    BY <1>2, EveryStep DEF TicketInv, Next
  <2>2. OneHoldOK'
    BY <1>2, OneHoldStep
  <2>3. CASE Commit(x)
    BY <1>2, <2>1, <2>2, <2>3, CommitOwners DEF TicketInv
  <2>4. CASE ~ Commit(x)
    <3>1. UNCHANGED <<rows, ticket>>
      BY <1>2, <2>4, OwnersStay
    <3>2. \A b \in Txns : pc[b] = "done" => pc'[b] = "done"
      BY <1>2, StepOf DEF TicketInv
    <3> QED BY <2>1, <2>2, <3>1, <3>2 DEF TicketInv, HoldersActive, SoldOK, rows
  <2> QED BY <2>3, <2>4
<1> QED BY <1>1, <1>2 DEF TicketNext

-----------------------------------------------------------------------------
(* Each commit is a step of the promise *)

LEMMA PromiseInit == TicketInit => Promise!Init
<1> SUFFICES ASSUME TicketInit PROVE Promise!Init
  OBVIOUS
<1>1. \A s \in Seats : seat[s] = "available"
  BY DEF TicketInit, Init
<1>2. PromisedState \in [Seats -> {"absent", "free"}] /\ PromisedOwner = [s \in Seats |-> Nobody]
  BY <1>1 DEF PromisedState, PromisedOwner, OwnerOf
<1> QED BY <1>2 DEF Promise!Init

\* The seats of a commit move together.
LEMMA CommitMoves ==
    ASSUME TicketInv, NEW x \in Txns, Commit(x), Issue(x),
           NEW to \in {"free", "held", "sold"}, NEW b,
           Written(x) = (IF to = "free" THEN "available" ELSE to),
           \A s \in op[x].seats : b = CASE to = "held" -> x
                                        [] to = "sold" -> TicketOf(x, s)
                                        [] OTHER -> Nobody
    PROVE  Promise!Move(op[x].seats, to, b)
<1>1. \A s \in Seats : PromisedState'[s] = IF s \in op[x].seats THEN to ELSE PromisedState[s]
  BY CommitTickets DEF PromisedState
<1>2. \A s \in Seats : PromisedOwner'[s] = IF s \in op[x].seats THEN b ELSE PromisedOwner[s]
  BY CommitTickets DEF PromisedOwner, OwnerOf
<1>3. PromisedState' = [s \in Seats |-> IF s \in op[x].seats THEN to ELSE PromisedState[s]]
  BY <1>1 DEF PromisedState
<1>4. PromisedOwner' = [s \in Seats |-> IF s \in op[x].seats THEN b ELSE PromisedOwner[s]]
  BY <1>2 DEF PromisedOwner
<1> QED BY <1>3, <1>4 DEF Promise!Move

\* What a call that commits owned before: nothing.  What an active hold owns: the
\* seats it holds.
LEMMA OwnedBefore ==
    ASSUME TicketInv
    PROVE  /\ \A x \in Txns : pc[x] # "done" => Promise!Owned(x) = {}
           /\ \A B \in SUBSET active : {s \in Seats : PromisedOwner[s] \in B} = {s \in Seats : holder[s] \in B}
<1> USE LocksAssumption
<1>0. /\ Shapes /\ HoldersActive /\ SoldOK /\ HoldersOK
      /\ \A b \in active : pc[b] = "done"
  BY DEF TicketInv, LocksInv, RowsOK, ActiveOK
<1>1. ASSUME NEW s \in Seats
      PROVE  /\ PromisedOwner[s] = OwnerOf(s)
             /\ seat[s] = "held" => OwnerOf(s) = holder[s] /\ holder[s] \in active
             /\ seat[s] # "held" => holder[s] = Nobody
             /\ seat[s] = "sold" => /\ OwnerOf(s) \in Txns /\ OwnerOf(s) \notin active
                                    /\ pc[OwnerOf(s)] = "done"
             /\ seat[s] \notin {"held", "sold"} => OwnerOf(s) = Nobody
  BY <1>0 DEF PromisedOwner, OwnerOf, HoldersActive, SoldOK, HoldersOK
<1>2. active \subseteq Txns
  BY <1>0 DEF Shapes
<1>3. ASSUME NEW x \in Txns, pc[x] # "done", NEW s \in Seats PROVE PromisedOwner[s] # x
  BY <1>0, <1>1, <1>3
<1>4. ASSUME NEW B \in SUBSET active, NEW s \in Seats
      PROVE  PromisedOwner[s] \in B <=> holder[s] \in B
  BY <1>1, <1>2
<1> QED BY <1>3, <1>4 DEF Promise!Owned

LEMMA CommitKeepsThePromise ==
    ASSUME TicketInv, NEW x \in Txns, Commit(x), Issue(x)
    PROVE  Promise!Next \/ DropsBookedSeat \/ UNCHANGED <<PromisedState, PromisedOwner>>
<1> USE LocksAssumption
<1>0. /\ pc[x] = "commit" /\ op[x].seats \in SUBSET Seats
      /\ op[x].kind \in AllKinds \cup {"none"}
  BY CommitTickets
<1>f. \A s \in op[x].seats : seat[s] = "available" => PromisedState[s] = "free"
  BY <1>0 DEF PromisedState
<1>h. \A s \in op[x].seats : holder[s] # Nobody => PromisedState[s] = "held"
  BY <1>0, CommitTickets DEF PromisedState
<1>o. Promise!Owned(x) = {}
  BY <1>0, OwnedBefore
<1>1. CASE op[x].seats = {}
  <2>1. \A s \in Seats : seat'[s] = seat[s] /\ holder'[s] = holder[s] /\ ticket'[s] = ticket[s]
    BY <1>1, CommitTickets
  <2> QED BY <2>1 DEF PromisedState, PromisedOwner, OwnerOf
<1>2. CASE op[x].kind \in {"holdSeats", "holdTable"} /\ op[x].seats # {}
  <2>1. Written(x) = "held" /\ op[x].kind \in Takers
    BY <1>2 DEF Written, Takers
  <2>2. Promise!Move(op[x].seats, "held", x)
    BY <2>1, CommitMoves
  <2>3. \A s \in op[x].seats : PromisedState[s] = "free"
    BY <1>f, <2>1, CommitTickets
  <2>4. Promise!Take(x, op[x].seats)
    BY <1>2, <1>o, <2>2, <2>3 DEF Promise!Take
  <2> QED BY <1>0, <2>4 DEF Promise!Next
<1>3. CASE op[x].kind \in {"sellSeats", "sellTable"} /\ op[x].seats # {}
  <2>1. Written(x) = "sold" /\ op[x].kind \in Takers /\ op[x].kind # "fulfil"
    BY <1>3 DEF Written, Takers
  <2>2. \A s \in op[x].seats : TicketOf(x, s) = x
    BY <2>1 DEF TicketOf
  <2>3. Promise!Move(op[x].seats, "sold", x)
    BY <2>1, <2>2, CommitMoves
  <2>4. \A s \in op[x].seats : PromisedState[s] = "free"
    BY <1>f, <2>1, CommitTickets
  <2>5. Promise!SellAtDoor(x, op[x].seats)
    BY <1>3, <1>o, <2>3, <2>4 DEF Promise!SellAtDoor
  <2> QED BY <1>0, <2>5 DEF Promise!Next
<1>4. CASE op[x].kind = "fulfil"
  <2>1. Written(x) = "sold" /\ op[x].kind \in Givers
    BY <1>4 DEF Written, Givers
  <2>2. PICK b \in Txns : op[x].holds = {b}
    BY <1>4 DEF TicketInv, OneHoldOK
  <2>3. b \in active /\ b # Nobody /\ op[x].seats = {s \in Seats : holder[s] = b}
    BY <2>1, <2>2, CommitTickets
  <2>4. Promise!Owned(b) = op[x].seats
    <3>1. {s \in Seats : PromisedOwner[s] \in {b}} = {s \in Seats : holder[s] \in {b}}
      BY <2>3, OwnedBefore
    <3> QED BY <2>3, <3>1 DEF Promise!Owned
  <2>5. \A s \in op[x].seats : TicketOf(x, s) = b
    BY <1>4, <2>1, <2>3 DEF TicketOf
  <2>6. Promise!Move(op[x].seats, "sold", b)
    BY <2>1, <2>5, CommitMoves
  <2>7. \A s \in op[x].seats : PromisedState[s] = "held"
    BY <1>h, <2>3
  <2>8. Promise!Buy(b)
    BY <2>4, <2>6, <2>7 DEF Promise!Buy
  <2> QED BY <2>8 DEF Promise!Next
<1>5. CASE op[x].kind = "giveBack"
  <2>1. Written(x) = "available" /\ op[x].kind \in Givers
    BY <1>5 DEF Written, Givers
  <2>2. /\ op[x].holds \in SUBSET active /\ Nobody \notin op[x].holds
        /\ op[x].seats = {s \in Seats : holder[s] \in op[x].holds}
    BY <2>1, CommitTickets
  <2>3. {s \in Seats : PromisedOwner[s] \in op[x].holds} = op[x].seats
    BY <2>2, OwnedBefore
  <2>4. Promise!Move(op[x].seats, "free", Nobody)
    BY <2>1, CommitMoves
  <2>5. \A s \in op[x].seats : PromisedState[s] = "held"
    BY <1>h, <2>2
  <2>6. Promise!GiveBack(op[x].holds)
    BY <2>3, <2>4, <2>5 DEF Promise!GiveBack
  <2>7. op[x].holds \in SUBSET Txns
    BY <2>2 DEF TicketInv, LocksInv, Shapes
  <2> QED BY <2>6, <2>7 DEF Promise!Next
<1>6. CASE op[x].kind \in {"dropTable", "none"} /\ ~ DropsBookedSeat
  <2>1. Written(x) = "absent"
    BY <1>6 DEF Written
  <2>2. \A s \in op[x].seats : seat[s] = "available"
    <3>1. \A s \in op[x].seats : seat'[s] = "absent"
      BY <2>1, CommitTickets
    <3>2. \A s \in op[x].seats : seat[s] \in SeatStates /\ seat[s] # "absent"
      BY <1>0, CommitFacts DEF TicketInv, LocksInv, Shapes
    <3> QED BY <1>0, <1>6, <3>1, <3>2 DEF DropsBookedSeat, SeatStates
  <2>3. \A s \in Seats : PromisedState'[s] = IF s \in op[x].seats THEN "absent" ELSE PromisedState[s]
    BY <2>1, CommitTickets DEF PromisedState
  <2>4. \A s \in Seats : PromisedOwner'[s] = PromisedOwner[s]
    BY <2>1, <2>2, CommitTickets DEF PromisedOwner, OwnerOf
  <2>5. /\ PromisedState' = [s \in Seats |-> IF s \in {} THEN "free"
                                ELSE IF s \in op[x].seats THEN "absent" ELSE PromisedState[s]]
        /\ UNCHANGED PromisedOwner
    BY <2>3, <2>4 DEF PromisedState, PromisedOwner
  <2>6. \A s \in op[x].seats : PromisedState[s] = "free"
    BY <1>f, <2>2
  <2>7. Promise!Redraw({}, op[x].seats)
    BY <2>5, <2>6 DEF Promise!Redraw
  <2> QED BY <1>0, <2>7 DEF Promise!Next
<1> QED BY <1>0, <1>1, <1>2, <1>3, <1>4, <1>5, <1>6 DEF AllKinds

LEMMA StepKeepsThePromise ==
    ASSUME TicketInv, [TicketNext]_ticketVars
    PROVE  [Promise!Next \/ DropsBookedSeat]_<<PromisedState, PromisedOwner>>
<1>1. CASE UNCHANGED <<rows, ticket>>
  BY <1>1 DEF rows, PromisedState, PromisedOwner, OwnerOf
<1>2. ASSUME NEW x \in Txns, Step(x), Issue(x), ~ UNCHANGED <<rows, ticket>>
      PROVE  [Promise!Next \/ DropsBookedSeat]_<<PromisedState, PromisedOwner>>
  <2>1. Commit(x)
    BY <1>2, OwnersStay
  <2> QED BY <1>2, <2>1, CommitKeepsThePromise
<1>3. CASE UNCHANGED ticketVars
  BY <1>1, <1>3 DEF ticketVars, vars
<1> QED BY <1>1, <1>2, <1>3 DEF TicketNext

\* hold_seats, hold_table, door sales, payments, releases, sweeps and map saves,
\* run statement by statement under the row locks they take, are as good as the
\* atomic steps of SeatPromise: each commit is one such step and no other statement
\* is any, but where save_venue_map deletes a booked seat.
THEOREM EachCommitKeepsThePromiseHolds == TicketSpec => EachCommitKeepsThePromise
<1>1. TicketInv /\ [TicketNext]_ticketVars
        => [Promise!Next \/ DropsBookedSeat]_<<PromisedState, PromisedOwner>>
  BY StepKeepsThePromise
<1> QED BY <1>1, InitTickets, TicketStep, PromiseInit, PTL DEF TicketSpec, EachCommitKeepsThePromise

\* The stale table summary is the only way the statements have to break the promise:
\* where no map save deletes a booked seat, what runs under the row locks implements
\* SeatPromise.
THEOREM LocksKeepThePromise == TicketSpec /\ BookedSeatsAreNeverDropped => Promise!Spec
<1> DEFINE Kept == \A s \in Seats : seat[s] \in {"held", "sold"} => seat'[s] # "absent"
<1>1. [Kept]_vars /\ [Promise!Next \/ DropsBookedSeat]_<<PromisedState, PromisedOwner>>
        => [Promise!Next]_<<PromisedState, PromisedOwner>>
  BY DEF DropsBookedSeat, vars, rows, PromisedState, PromisedOwner, OwnerOf
<1> QED BY <1>1, EachCommitKeepsThePromiseHolds, PTL
    DEF BookedSeatsAreNeverDropped, EachCommitKeepsThePromise, Promise!Spec, Promise!promiseVars
=============================================================================
