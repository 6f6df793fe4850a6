----------------------------- MODULE StockLocks -----------------------------
(***************************************************************************)
(* SeatStock runs each database function in one step.  This module runs    *)
(* them statement by statement, as Postgres does at READ COMMITTED: a      *)
(* statement reads what is committed (and its own transaction's writes), a *)
(* written row stays locked until the transaction ends, a waiter goes on   *)
(* with the values it had computed, and a circle of waiters loses one.     *)
(*                                                                         *)
(* Only what locks or is derived is kept: the seat rows, the table rows    *)
(* with their derived status, and the holds.                               *)
(***************************************************************************)
EXTENDS Naturals, FiniteSets

CONSTANTS
    Tables,    \* table ids, in the order the functions lock them
    Seats,     \* seat ids
    TableOf,   \* seats.table_id
    Txns,      \* transactions; a hold is named by the one that made it
    Nobody,    \* no lock, no holder
    Kinds      \* the kinds of transaction that run

AllKinds == {"holdSeats", "holdTable", "sellSeats", "sellTable", "giveBack", "fulfil", "dropTable"}

\* The calls that lock tables before seats.
TablesFirst == {"holdSeats", "holdTable", "sellTable", "dropTable"}

ASSUME LocksAssumption ==
    /\ Tables \subseteq Nat /\ IsFiniteSet(Tables)
    /\ TableOf \in [Seats -> Tables]
    /\ Nobody \notin Txns
    /\ Kinds \subseteq AllKinds

VARIABLES
    seat,      \* committed seats.status; "absent": deleted
    holder,    \* committed seats.held_by_reservation
    table,     \* committed tables.status
    active,    \* committed reservations in state 'active'
    seatLock,  \* who has a seat's row lock
    tableLock, \* who has a table's row lock
    pc,        \* the next statement of each transaction
    op,        \* what a transaction does, to which seats, tables and holds
    wanted,    \* tables a transaction has still to lock
    todo,      \* seats it wrote whose trigger has not run yet
    counted,   \* the table the running trigger is for, and the status it computed
    newTable   \* table statuses written and not committed yet

rows == <<seat, holder, table, active>>
vars == <<rows, seatLock, tableLock, pc, op, wanted, todo, counted, newTable>>

NoCount == [table |-> 0, status |-> "none"]
NoOp == [kind |-> "none", seats |-> {}, tables |-> {}, holds |-> {}]

SeatsAt(T) == {s \in Seats : TableOf[s] \in T /\ seat[s] # "absent"}

Init ==
    /\ seat = [s \in Seats |-> "available"]
    /\ holder = [s \in Seats |-> Nobody]
    /\ table = [t \in Tables |-> "available"]
    /\ active = {}
    /\ seatLock = [s \in Seats |-> Nobody]
    /\ tableLock = [t \in Tables |-> Nobody]
    /\ pc = [x \in Txns |-> "idle"]
    /\ op = [x \in Txns |-> NoOp]
    /\ wanted = [x \in Txns |-> {}]
    /\ todo = [x \in Txns |-> {}]
    /\ counted = [x \in Txns |-> NoCount]
    /\ newTable = [x \in Txns |-> [t \in Tables |-> "same"]]

-----------------------------------------------------------------------------
(* What a transaction sees and waits for *)

Mine(x, s) == seatLock[s] = x /\ pc[x] \in {"count", "table", "commit"} /\ s \in op[x].seats

\* The status x writes on its seats.
Written(x) ==
    CASE op[x].kind \in {"holdSeats", "holdTable"}       -> "held"
      [] op[x].kind \in {"sellSeats", "sellTable", "fulfil"} -> "sold"
      [] op[x].kind = "giveBack"                         -> "available"
      [] OTHER                                           -> "absent"

\* A seat's status as a statement of x reads it.
Seen(x, s) == IF Mine(x, s) THEN Written(x) ELSE seat[s]

\* sync_table_status_from_seats: the status x's trigger computes for table t.
Derived(x, t) ==
    LET exist == {s \in Seats : TableOf[s] = t /\ Seen(x, s) # "absent"}
        free  == {s \in exist : Seen(x, s) = "available"}
    IN  IF free = exist THEN "available" ELSE IF free = {} THEN "sold" ELSE "partial"

\* Mutation: hold_seats locks its tables as they come.
NextTable_AnyOrder(x) ==
    CHOOSE t \in wanted[x] : \A u \in wanted[x] : IF op[x].kind = "holdSeats" THEN u <= t ELSE t <= u

\* FOR UPDATE ... ORDER BY id: the next table x locks.
NextTable(x) == CHOOSE t \in wanted[x] : \A u \in wanted[x] : t <= u

\* Who has a row that x's next statement must lock.  The seat rows of hold_seats
\* and record_manual_sale are taken SKIP LOCKED and wait for nobody.
WaitsOn(x) ==
    CASE pc[x] = "tables" -> {tableLock[NextTable(x)]} \ {Nobody, x}
      [] pc[x] = "write"  -> {seatLock[s] : s \in op[x].seats} \ {Nobody, x}
      [] pc[x] = "table"  -> {tableLock[counted[x].table]} \ {Nobody, x}
      [] OTHER            -> {}

\* Transactions that wait for each other in a circle.
Circle(X) ==
    \A x \in X : /\ WaitsOn(x) \cap X # {}
                 /\ \E y \in X : x \in WaitsOn(y)

InCircle(x) == \E X \in SUBSET Txns : x \in X /\ Circle(X)

-----------------------------------------------------------------------------
(* Starting *)

\* hold_seats, hold_table, save_venue_map and record_manual_sale of a table lock
\* tables first; a door sale of single seats, a release, a sweep and the payment
\* of single seats go to the seats.
FirstStatement(kind) ==
    IF kind \in TablesFirst THEN "tables"
    ELSE IF kind = "sellSeats" THEN "lockSeats" ELSE "write"

Begin(x, kind, S, T, H) ==
    /\ kind \in Kinds /\ pc[x] = "idle"
    /\ op' = [op EXCEPT ![x] = [kind |-> kind, seats |-> S, tables |-> T, holds |-> H]]
    /\ wanted' = [wanted EXCEPT ![x] = IF kind = "dropTable"
                                       THEN {t \in Tables : table[t] # "absent"} ELSE T]
    /\ pc' = [pc EXCEPT ![x] = IF kind = "fulfil" /\ T # {} THEN "tables" ELSE FirstStatement(kind)]
    /\ UNCHANGED <<rows, seatLock, tableLock, todo, counted, newTable>>

\* hold_seats and record_manual_sale of the seats S.
BeginSeats(x) ==
    \E kind \in {"holdSeats", "sellSeats"}, S \in (SUBSET Seats) \ {{}} :
        /\ \A s \in S : seat[s] # "absent"
        /\ Begin(x, kind, S, IF kind = "holdSeats" THEN {TableOf[s] : s \in S} ELSE {}, {})

\* hold_table, record_manual_sale of a table, and save_venue_map without it.
BeginTable(x) ==
    \E kind \in {"holdTable", "sellTable", "dropTable"}, t \in Tables :
        /\ table[t] # "absent"
        /\ Begin(x, kind, SeatsAt({t}), {t}, {})

\* The holds another transaction has the reservation rows of.
Busy == UNION {op[y].holds : y \in {z \in Txns : pc[z] \notin {"idle", "done"}}}

\* release_reservation and expire_stale_reservations of the holds H, and
\* fulfill_checkout of one: under the locks of the reservation rows.
BeginHolds(x) ==
    \E kind \in {"giveBack", "fulfil"}, H \in (SUBSET (active \ Busy)) \ {{}} :
        LET S == {s \in Seats : holder[s] \in H}
            whole == {t \in Tables : table[t] = "held" /\ \E s \in S : TableOf[s] = t}
        IN  /\ kind = "fulfil" => Cardinality(H) = 1
            /\ Begin(x, kind, S, IF kind = "fulfil" THEN whole ELSE {}, H)

-----------------------------------------------------------------------------
(* Statements *)

\* A refused call and an aborted transaction leave nothing but free locks.
End(x) ==
    /\ pc' = [pc EXCEPT ![x] = "done"]
    /\ seatLock' = [s \in Seats |-> IF seatLock[s] = x THEN Nobody ELSE seatLock[s]]
    /\ tableLock' = [t \in Tables |-> IF tableLock[t] = x THEN Nobody ELSE tableLock[t]]
    /\ wanted' = [wanted EXCEPT ![x] = {}]
    /\ todo' = [todo EXCEPT ![x] = {}]
    /\ newTable' = [newTable EXCEPT ![x] = [t \in Tables |-> "same"]]
    /\ UNCHANGED <<op, counted>>

\* What each function requires of a table once it has locked it: hold_table and
\* save_venue_map go by its status, the others only by its being there.
TableFits(x, t) ==
    /\ op[x].kind \in {"sellTable", "fulfil"} => table[t] # "absent"
    /\ op[x].kind = "holdTable" \/ (op[x].kind = "dropTable" /\ t \in op[x].tables)
          => table[t] = "available"

\* SELECT ... FOR UPDATE of the next table (fulfill_checkout: UPDATE tables).
LockTable(x) ==
    /\ pc[x] = "tables" /\ WaitsOn(x) = {}
    /\ LET t == NextTable(x) IN
       IF ~ TableFits(x, t) THEN End(x) /\ UNCHANGED rows
       ELSE /\ tableLock' = [tableLock EXCEPT ![t] = x]
            /\ wanted' = [wanted EXCEPT ![x] = @ \ {t}]
            /\ pc' = [pc EXCEPT ![x] = IF wanted[x] # {t} THEN "tables"
                        ELSE IF op[x].kind \in {"holdSeats", "sellTable"} THEN "lockSeats"
                        ELSE IF op[x].kind = "holdTable" THEN "read" ELSE "write"]
            /\ newTable' = [newTable EXCEPT ![x][t] = IF op[x].kind = "fulfil" THEN "sold" ELSE @]
            /\ UNCHANGED <<rows, seatLock, op, todo, counted>>

\* Mutation: a row another transaction has is taken for a free one.
Free_Unlocked(S) == \A s \in S : seat[s] = "available"

\* Rows with status 'available' that are not locked.
Free(S) == \A s \in S : seat[s] = "available" /\ seatLock[s] = Nobody

\* FOR UPDATE SKIP LOCKED: all the seats or the call is refused.
LockSeats(x) ==
    /\ pc[x] = "lockSeats"
    /\ IF ~ Free(op[x].seats) THEN End(x) /\ UNCHANGED rows
       ELSE /\ seatLock' = [s \in Seats |-> IF s \in op[x].seats THEN x ELSE seatLock[s]]
            /\ pc' = [pc EXCEPT ![x] = "write"]
            /\ UNCHANGED <<rows, tableLock, op, wanted, todo, counted, newTable>>

\* hold_table counts the seats and the free ones without locking them.
ReadSeats(x) ==
    /\ pc[x] = "read"
    /\ IF op[x].seats = {} \/ \E s \in op[x].seats : seat[s] # "available"
       THEN End(x) /\ UNCHANGED rows
       ELSE /\ pc' = [pc EXCEPT ![x] = "write"]
            /\ UNCHANGED <<rows, seatLock, tableLock, op, wanted, todo, counted, newTable>>

\* UPDATE seats, or DELETE FROM seats.  It waits for locked rows and then writes
\* whatever still exists, without looking at the status again.
WriteSeats(x) ==
    LET S == {s \in op[x].seats : seat[s] # "absent"} IN
    /\ pc[x] = "write" /\ WaitsOn(x) = {}
    /\ seatLock' = [s \in Seats |-> IF s \in S THEN x ELSE seatLock[s]]
    /\ op' = [op EXCEPT ![x].seats = S]
    /\ todo' = [todo EXCEPT ![x] = S]
    /\ pc' = [pc EXCEPT ![x] = IF S = {} THEN "commit" ELSE "count"]
    /\ UNCHANGED <<rows, tableLock, wanted, counted, newTable>>

\* The trigger of one written row: first it counts ...
Count(x) ==
    /\ pc[x] = "count"
    /\ \E s \in todo[x] :
          /\ counted' = [counted EXCEPT ![x] = [table |-> TableOf[s], status |-> Derived(x, TableOf[s])]]
          /\ todo' = [todo EXCEPT ![x] = @ \ {s}]
    /\ pc' = [pc EXCEPT ![x] = "table"]
    /\ UNCHANGED <<rows, seatLock, tableLock, op, wanted, newTable>>

\* Mutation: the trigger leaves a table that is held whole alone.
WriteTable_KeepsHeld(x) ==
    LET t == counted[x].table
        skip == table[t] \in {"absent", "held"} IN
    /\ pc[x] = "table" /\ WaitsOn(x) = {}
    /\ tableLock' = [tableLock EXCEPT ![t] = IF skip THEN @ ELSE x]
    /\ newTable' = [newTable EXCEPT ![x][t] = IF skip THEN @ ELSE counted[x].status]
    /\ pc' = [pc EXCEPT ![x] = IF todo[x] = {} THEN "commit" ELSE "count"]
    /\ UNCHANGED <<rows, seatLock, op, wanted, todo, counted>>

\* ... then it writes what it counted, however long it waited for the table.
WriteTable(x) ==
    LET t == counted[x].table IN
    /\ pc[x] = "table" /\ WaitsOn(x) = {}
    /\ tableLock' = [tableLock EXCEPT ![t] = IF table[t] = "absent" THEN @ ELSE x]
    /\ newTable' = [newTable EXCEPT ![x][t] = IF table[t] = "absent" THEN @ ELSE counted[x].status]
    /\ pc' = [pc EXCEPT ![x] = IF todo[x] = {} THEN "commit" ELSE "count"]
    /\ UNCHANGED <<rows, seatLock, op, wanted, todo, counted>>

\* The last statements and the commit: the tables hold_table and
\* record_manual_sale mark, the tables save_venue_map deletes, the reservation.
Commit(x) ==
    LET kind == op[x].kind
        S    == {s \in op[x].seats : seatLock[s] = x}
    IN
    /\ pc[x] = "commit"
    /\ seat' = [s \in Seats |-> IF s \in S THEN Written(x) ELSE seat[s]]
    /\ holder' = [s \in Seats |-> IF s \notin S THEN holder[s]
                                   ELSE IF Written(x) = "held" THEN x ELSE Nobody]
    /\ table' = [t \in Tables |->
                    IF t \in op[x].tables /\ kind = "holdTable" THEN "held"
                    ELSE IF t \in op[x].tables /\ kind = "sellTable" THEN "sold"
                    ELSE IF t \in op[x].tables /\ kind = "dropTable" THEN "absent"
                    ELSE IF newTable[x][t] # "same" THEN newTable[x][t] ELSE table[t]]
    /\ active' = IF kind \in {"holdSeats", "holdTable"} THEN active \cup {x} ELSE active \ op[x].holds
    /\ End(x)

\* Postgres' deadlock detector aborts one of the circle.
Abort(x) ==
    /\ InCircle(x)
    /\ End(x) /\ UNCHANGED rows

Step(x) ==
    \/ BeginSeats(x) \/ BeginTable(x) \/ BeginHolds(x)
    \/ LockTable(x) \/ LockSeats(x) \/ ReadSeats(x)
    \/ WriteSeats(x) \/ Count(x) \/ WriteTable(x)
    \/ Commit(x) \/ Abort(x)

Next == \E x \in Txns : Step(x)

Spec == Init /\ [][Next]_vars

-----------------------------------------------------------------------------
(* Properties *)

TypeOK ==
    /\ seat \in [Seats -> {"absent", "available", "held", "sold"}]
    /\ holder \in [Seats -> Txns \cup {Nobody}]
    /\ table \in [Tables -> {"absent", "available", "partial", "held", "sold"}]
    /\ active \subseteq Txns
    /\ seatLock \in [Seats -> Txns \cup {Nobody}]
    /\ tableLock \in [Tables -> Txns \cup {Nobody}]
    /\ pc \in [Txns -> {"idle", "tables", "lockSeats", "read", "write", "count", "table", "commit", "done"}]
    /\ \A x \in Txns : /\ op[x].kind \in AllKinds \cup {"none"}
                       /\ op[x].seats \subseteq Seats /\ op[x].tables \subseteq Tables
                       /\ op[x].holds \subseteq Txns
    /\ wanted \in [Txns -> SUBSET Tables]
    /\ todo \in [Txns -> SUBSET Seats]
    /\ newTable \in [Txns -> [Tables -> {"same", "available", "partial", "sold"}]]

\* However the statements interleave, a seat is only taken from nobody: it was
\* free in the database at the instant the taker's transaction committed.
SeatsAreTakenOnce ==
    [][\A s \in Seats :
          /\ holder'[s] # holder[s] /\ holder'[s] # Nobody => seat[s] = "available"
          /\ seat'[s] = "sold" /\ seat[s] # "sold"
               => seat[s] = "available" \/ holder[s] \notin active']_vars

\* A table held whole is held whole: no door sale that overlapped hold_table's
\* unlocked count of the seats has got one of them.
HeldTablesAreWhole ==
    \A t \in Tables : table[t] = "held" =>
        \E x \in active : \A s \in Seats :
            TableOf[s] = t /\ seat[s] # "absent" => seat[s] = "held" /\ holder[s] = x

\* "These tables have been booked and cannot be removed" (save_venue_map): no
\* held or sold seat disappears.
BookedSeatsAreNeverDropped ==
    [][\A s \in Seats : seat[s] \in {"held", "sold"} => seat'[s] # "absent"]_vars

\* "Two transactions can never each hold what the other is waiting for" (README),
\* of the calls that do lock tables first: whatever else runs beside them, they
\* never wait for one another in a circle.
TablesFirstNeverCircle ==
    \A X \in SUBSET {x \in Txns : op[x].kind \in TablesFirst} : X # {} => ~ Circle(X)
=============================================================================
