--------------------------- MODULE TierStockProofs --------------------------
(***************************************************************************)
(* The allocation of a tier holds, for any number of tiers and orders and  *)
(* quantities of any size.                                                 *)
(***************************************************************************)
EXTENDS TierStock, TLAPS

-----------------------------------------------------------------------------
(* The inductive invariant *)

\* A transaction that is not open has nothing; one that waits has a row to write.
TxOK ==
    \A r \in Orders :
        /\ open[r] = "no" => /\ pend[r] = Nothing /\ todo[r] = Nothing
                             /\ locked[r] = {} /\ waiting[r] = NoTier
        /\ open[r] = "sale" => stage[r] = "held" /\ pend[r] = lines[r]
        /\ open[r] \in {"refund", "scan"} =>
              /\ stage[r] = "paid"
              /\ \A t \in Tiers : pend[r][t] <= 0 /\ 0 <= lines[r][t] + pend[r][t]
        /\ waiting[r] # NoTier => todo[r][waiting[r]] > 0

\* What a transaction adds it has written, under a lock no other has, unless the
\* trigger has still to fire; the count it wrote last is not too low.
LocksOK ==
    \A r \in Orders, t \in Tiers :
        /\ todo[r][t] = 0 /\ pend[r][t] # 0 => t \in locked[r]
        /\ t \in locked[r] => \A o \in Orders \ {r} : t \notin locked[o]
        /\ t \in locked[r] /\ todo[r][t] = 0 /\ t \notin late =>
              written[r][t] >= tickets[t] + pend[r][t]

TierInv == TierTypeOK /\ TxOK /\ LocksOK /\ SoldCountKeepsUp

LEMMA LinesAreCounts ==
    /\ Nothing \in [Tiers -> Nat]
    /\ Lines \subseteq [Tiers -> Nat]
BY TierAssumption DEF Lines, Nothing

LEMMA InitTier == TierInit => TierInv
BY LinesAreCounts, TierAssumption
   DEF TierInit, TierInv, TierTypeOK, TxOK, LocksOK, SoldCountKeepsUp, Nothing

\* The end of a transaction without effect, of which nothing else changes.
LEMMA RollbackKeeps ==
    ASSUME TierInv, NEW r \in Orders, Rollback(r), late \subseteq late', late' \subseteq Tiers,
           UNCHANGED <<quantity, soldCount, tickets, held, stage, lines>>
    PROVE  TierInv'
<1> USE TierAssumption DEF TierInv, TierTypeOK, Rollback
<1>1. TierTypeOK'
  BY LinesAreCounts
<1>2. /\ open'[r] = "no" /\ pend'[r] = Nothing /\ todo'[r] = Nothing
      /\ locked'[r] = {} /\ waiting'[r] = NoTier
  OBVIOUS
<1>3. \A o \in Orders \ {r} :
         /\ open'[o] = open[o] /\ pend'[o] = pend[o] /\ todo'[o] = todo[o]
         /\ locked'[o] = locked[o] /\ waiting'[o] = waiting[o] /\ written'[o] = written[o]
  OBVIOUS
<1>4. TxOK'
  BY <1>2, <1>3 DEF TxOK
<1>5. LocksOK'
  BY <1>2, <1>3 DEF LocksOK, Nothing
<1> QED BY <1>1, <1>4, <1>5 DEF SoldCountKeepsUp

\* A recount of one row by transaction r, with a count n.
LEMMA WrittenKeeps ==
    ASSUME TierInv, NEW r \in Orders, NEW t \in Tiers, NEW n \in Int,
           todo[r][t] > 0, RowFree(r, t), Written(r, t, n),
           UNCHANGED <<quantity, soldCount, tickets, held, stage, lines>>,
           waiting[r] \in {t, NoTier}, late \subseteq late', late' \subseteq Tiers,
           todo[r][t] = 1 /\ t \notin late' => n >= tickets[t] + pend[r][t]
    PROVE  TierInv'
<1> USE TierAssumption DEF TierInv, TierTypeOK
<1>1. /\ locked' = [locked EXCEPT ![r] = @ \cup {t}]
      /\ written' = [written EXCEPT ![r][t] = n]
      /\ todo' = [todo EXCEPT ![r][t] = @ - 1]
      /\ waiting' = [waiting EXCEPT ![r] = NoTier]
      /\ open' = open /\ pend' = pend /\ counted' = counted
  BY DEF Written
<1>2. TierTypeOK'
  <2>1. todo' \in [Orders -> [Tiers -> Nat]]
    BY <1>1
  <2>2. written' \in [Orders -> [Tiers -> Int]]
    BY <1>1
  <2>3. locked' \in [Orders -> SUBSET Tiers] /\ waiting' \in [Orders -> Tiers \cup {NoTier}]
    BY <1>1
  <2> QED BY <1>1, <2>1, <2>2, <2>3
<1>3. \A o \in Orders \ {r} :
         /\ todo'[o] = todo[o] /\ locked'[o] = locked[o]
         /\ waiting'[o] = waiting[o] /\ written'[o] = written[o]
  BY <1>1
<1>4. \A u \in Tiers \ {t} : todo'[r][u] = todo[r][u] /\ written'[r][u] = written[r][u]
  BY <1>1
<1>5. todo'[r][t] = todo[r][t] - 1 /\ written'[r][t] = n
      /\ locked'[r] = locked[r] \cup {t} /\ waiting'[r] = NoTier
  BY <1>1
<1>6. open[r] # "no"
  BY DEF TxOK, Nothing
<1>7. TxOK'
  BY <1>1, <1>3, <1>5, <1>6 DEF TxOK
<1>8. \A o \in Orders \ {r} : t \notin locked[o]
  BY DEF RowFree
<1>9. LocksOK'
  <2> SUFFICES ASSUME NEW o \in Orders, NEW u \in Tiers
               PROVE  /\ todo'[o][u] = 0 /\ pend[o][u] # 0 => u \in locked'[o]
                      /\ u \in locked'[o] => \A p \in Orders \ {o} : u \notin locked'[p]
                      /\ u \in locked'[o] /\ todo'[o][u] = 0 /\ u \notin late' =>
                            written'[o][u] >= tickets[u] + pend[o][u]
    BY <1>1 DEF LocksOK
  <2>1. CASE o # r
    <3>1. \A p \in Orders \ {o} : u \in locked[o] => u \notin locked'[p]
      <4> SUFFICES ASSUME NEW p \in Orders \ {o}, u \in locked[o] PROVE u \notin locked'[p]
        OBVIOUS
      <4>1. u \notin locked[p] /\ u # t
        BY <1>8, <2>1 DEF LocksOK
      <4> QED BY <1>3, <1>5, <4>1
    <3>2. todo'[o] = todo[o] /\ locked'[o] = locked[o] /\ written'[o] = written[o]
      BY <1>3, <2>1
    <3>3. u \notin late' => u \notin late
      OBVIOUS
    <3> QED BY <3>1, <3>2, <3>3 DEF LocksOK
  <2>2. CASE o = r /\ u # t
    BY <1>3, <1>4, <1>5, <1>8, <2>2 DEF LocksOK
  <2>3. CASE o = r /\ u = t
    <3>1. todo'[r][t] = 0 => todo[r][t] = 1
      <4>1. todo[r][t] \in Nat
        OBVIOUS
      <4>2. todo'[r][t] = todo[r][t] - 1
        BY <1>5
      <4> HIDE DEF TierInv, TierTypeOK
      <4> QED BY <4>1, <4>2
    <3>2. \A p \in Orders \ {r} : t \notin locked'[p]
      BY <1>3, <1>8
    <3> QED BY <1>5, <2>3, <3>1, <3>2
  <2> QED BY <2>1, <2>2, <2>3
<1> QED BY <1>2, <1>7, <1>9 DEF SoldCountKeepsUp

\* The start of a transaction that will fire the trigger for every tier it changes.
LEMMA BeginKeeps ==
    ASSUME TierInv, NEW r \in Orders, NEW kind \in {"sale", "refund", "scan"},
           NEW rows \in [Tiers -> Nat], NEW change \in [Tiers -> Int],
           Begin(r, kind, rows, change),
           \A t \in Tiers : change[t] # 0 => rows[t] # 0,
           kind = "sale" => stage[r] = "held" /\ change = lines[r],
           kind \in {"refund", "scan"} =>
              stage[r] = "paid" /\ \A t \in Tiers : change[t] <= 0 /\ 0 <= lines[r][t] + change[t]
    PROVE  TierInv'
<1> USE TierAssumption DEF TierInv, TierTypeOK
<1>1. /\ open[r] = "no" /\ open' = [open EXCEPT ![r] = kind]
      /\ pend' = [pend EXCEPT ![r] = change] /\ todo' = [todo EXCEPT ![r] = rows]
      /\ UNCHANGED <<quantity, soldCount, tickets, held, late, stage, lines,
                     locked, written, waiting, counted>>
  BY DEF Begin, tierRow
<1>2. TierTypeOK'
  BY <1>1
<1>3. locked[r] = {} /\ waiting[r] = NoTier
  BY <1>1 DEF TxOK
<1>4. \A o \in Orders \ {r} : open'[o] = open[o] /\ pend'[o] = pend[o] /\ todo'[o] = todo[o]
  BY <1>1
<1>5. open'[r] = kind /\ pend'[r] = change /\ todo'[r] = rows
  BY <1>1
<1>6. TxOK'
  BY <1>1, <1>3, <1>4, <1>5 DEF TxOK
<1>7. LocksOK'
  BY <1>1, <1>3, <1>4, <1>5 DEF LocksOK
<1> QED BY <1>1, <1>2, <1>6, <1>7 DEF SoldCountKeepsUp

\* What a transaction that may commit has changed it has written, all of it.
LEMMA WrittenBeforeCommit ==
    ASSUME TierInv, NEW r \in Orders, todo[r] = Nothing, NEW t \in Tiers
    PROVE  /\ pend[r][t] # 0 => t \in locked[r]
           /\ t \in locked[r] /\ t \notin late => written[r][t] >= tickets[t] + pend[r][t]
BY DEF TierInv, LocksOK, Nothing

LEMMA CommitKeeps ==
    ASSUME TierInv, NEW r \in Orders, Commit(r)
    PROVE  TierInv'
<1> USE TierAssumption DEF TierInv, TierTypeOK
<1>1. /\ open[r] # "no" /\ todo[r] = Nothing /\ Rollback(r)
      /\ tickets' = [t \in Tiers |-> tickets[t] + pend[r][t]]
      /\ soldCount' = [t \in Tiers |-> IF t \in locked[r] THEN written[r][t] ELSE soldCount[t]]
      /\ quantity' = quantity /\ late' = late
  BY DEF Commit
<1>2. held' \in [Tiers -> Int]
  BY DEF Commit
<1>3. /\ lines' \in [Orders -> [Tiers -> Nat]]
      /\ \A o \in Orders \ {r} : lines'[o] = lines[o]
  <2>1. CASE open[r] = "refund"
    <3>1. lines' = [lines EXCEPT ![r] = [t \in Tiers |-> lines[r][t] + pend[r][t]]]
      BY <2>1 DEF Commit
    <3>2. \A t \in Tiers : lines[r][t] + pend[r][t] \in Nat
      BY <2>1 DEF TxOK
    <3> QED BY <3>1, <3>2
  <2>2. CASE open[r] # "refund"
    BY <2>2 DEF Commit
  <2> QED BY <2>1, <2>2
<1>4. /\ stage' \in [Orders -> {"none", "held", "released", "paid", "refunded"}]
      /\ \A o \in Orders \ {r} : stage'[o] = stage[o]
  <2>1. \/ stage' = [stage EXCEPT ![r] = "paid"]
        \/ stage' = [stage EXCEPT ![r] = "refunded"]
        \/ stage' = stage
    <3>1. CASE open[r] = "sale"
      BY <3>1 DEF Commit
    <3>2. CASE open[r] = "refund"
      BY <3>2 DEF Commit
    <3>3. CASE open[r] = "scan"
      BY <3>3 DEF Commit
    <3> QED BY <1>1, <3>1, <3>2, <3>3
  <2> QED BY <2>1
<1>5. TierTypeOK'
  <2>1. tickets' \in [Tiers -> Int] /\ soldCount' \in [Tiers -> Int]
    BY <1>1
  <2>2. /\ open' = [open EXCEPT ![r] = "no"]
        /\ pend' = [pend EXCEPT ![r] = Nothing] /\ todo' = [todo EXCEPT ![r] = Nothing]
        /\ locked' = [locked EXCEPT ![r] = {}] /\ written' = [written EXCEPT ![r] = Nothing]
        /\ waiting' = [waiting EXCEPT ![r] = NoTier] /\ counted' = [counted EXCEPT ![r] = 0]
    BY <1>1 DEF Rollback
  <2>3. Nothing \in [Tiers -> Nat] /\ Nothing \in [Tiers -> Int]
    BY LinesAreCounts
  <2> QED BY <1>1, <1>2, <1>3, <1>4, <2>1, <2>2, <2>3
<1>6. /\ open'[r] = "no" /\ pend'[r] = Nothing /\ todo'[r] = Nothing
      /\ locked'[r] = {} /\ waiting'[r] = NoTier
  BY <1>1 DEF Rollback
<1>7. \A o \in Orders \ {r} :
         /\ open'[o] = open[o] /\ pend'[o] = pend[o] /\ todo'[o] = todo[o]
         /\ locked'[o] = locked[o] /\ waiting'[o] = waiting[o] /\ written'[o] = written[o]
  BY <1>1 DEF Rollback
<1>8. TxOK'
  BY <1>3, <1>4, <1>6, <1>7 DEF TxOK
<1>9. LocksOK'
  <2> SUFFICES ASSUME NEW o \in Orders, NEW t \in Tiers
               PROVE  /\ todo'[o][t] = 0 /\ pend'[o][t] # 0 => t \in locked'[o]
                      /\ t \in locked'[o] => \A p \in Orders \ {o} : t \notin locked'[p]
                      /\ t \in locked'[o] /\ todo'[o][t] = 0 /\ t \notin late' =>
                            written'[o][t] >= tickets'[t] + pend'[o][t]
    BY DEF LocksOK
  <2>1. CASE o = r
    BY <1>6, <2>1 DEF Nothing
  <2>2. CASE o # r
    <3>1. t \in locked[o] => tickets'[t] = tickets[t]
      <4>1. t \in locked[o] => pend[r][t] = 0
        BY <1>1, <2>2, WrittenBeforeCommit DEF LocksOK
      <4>2. tickets'[t] = tickets[t] + pend[r][t] /\ tickets[t] \in Int
        BY <1>1
      <4> QED BY <4>1, <4>2
    <3>2. \A p \in Orders \ {o} : t \in locked[o] => t \notin locked'[p]
      BY <1>6, <1>7, <2>2 DEF LocksOK
    <3>3. todo'[o] = todo[o] /\ pend'[o] = pend[o] /\ locked'[o] = locked[o] /\ written'[o] = written[o]
      BY <1>7, <2>2
    <3> QED BY <1>1, <3>1, <3>2, <3>3 DEF LocksOK
  <2> QED BY <2>1, <2>2
<1>10. SoldCountKeepsUp'
  <2> SUFFICES ASSUME NEW t \in Tiers, t \notin late PROVE soldCount'[t] >= tickets'[t]
    BY <1>1 DEF SoldCountKeepsUp
  <2>1. /\ tickets'[t] = tickets[t] + pend[r][t] /\ tickets[t] \in Int /\ pend[r][t] \in Int
        /\ soldCount'[t] = IF t \in locked[r] THEN written[r][t] ELSE soldCount[t]
    BY <1>1
  <2>2. t \notin locked[r] => pend[r][t] = 0
    BY <1>1, WrittenBeforeCommit
  <2>3. t \in locked[r] => written[r][t] >= tickets[t] + pend[r][t]
    BY <1>1, WrittenBeforeCommit
  <2>4. soldCount[t] >= tickets[t]
    BY DEF SoldCountKeepsUp
  <2> HIDE DEF TierInv, TierTypeOK
  <2> QED BY <2>1, <2>2, <2>3, <2>4
<1> QED BY <1>5, <1>8, <1>9, <1>10

-----------------------------------------------------------------------------
(* Every step *)

\* An order that has no stock yet has no transaction.
LEMMA NewOrderIsIdle ==
    ASSUME TierInv, NEW r \in Orders, stage[r] = "none" PROVE open[r] = "no"
BY DEF TierInv, TierTypeOK, TxOK

LEMMA TierStep == TierInv /\ [TierNext]_tierVars => TierInv'
<1> SUFFICES ASSUME TierInv, [TierNext]_tierVars PROVE TierInv'
  OBVIOUS
<1> USE TierAssumption DEF TierInv, TierTypeOK
<1>1. ASSUME NEW r \in Orders, Hold(r) PROVE TierInv'
  <2>1. PICK l \in Lines : /\ lines' = [lines EXCEPT ![r] = l]
                           /\ held' = [t \in Tiers |-> held[t] + l[t]]
    BY <1>1 DEF Hold
  <2>2. l \in [Tiers -> Nat]
    BY LinesAreCounts
  <2>3. /\ stage[r] = "none" /\ stage' = [stage EXCEPT ![r] = "held"]
        /\ UNCHANGED <<quantity, soldCount, tickets, late, tierTx>>
    BY <1>1 DEF Hold
  <2>4. TierTypeOK'
    BY <2>1, <2>2, <2>3 DEF tierTx
  <2>5. TxOK'
    BY <2>1, <2>3, NewOrderIsIdle DEF TxOK, tierTx
  <2> QED BY <2>3, <2>4, <2>5 DEF LocksOK, SoldCountKeepsUp, tierTx
<1>2. ASSUME NEW r \in Orders, DoorSale(r) PROVE TierInv'
  <2>1. PICK l \in Lines :
           /\ \A t \in Tiers : l[t] > 0 => RowIdle(t)
           /\ lines' = [lines EXCEPT ![r] = l]
           /\ tickets' = [t \in Tiers |-> tickets[t] + l[t]]
           /\ soldCount' = [t \in Tiers |-> IF l[t] > 0 THEN tickets[t] + l[t] ELSE soldCount[t]]
    BY <1>2 DEF DoorSale
  <2>2. l \in [Tiers -> Nat]
    BY LinesAreCounts
  <2>3. /\ stage[r] = "none" /\ stage' = [stage EXCEPT ![r] = "paid"]
        /\ UNCHANGED <<quantity, held, late, tierTx>>
    BY <1>2 DEF DoorSale
  <2>4. TierTypeOK'
    BY <2>1, <2>2, <2>3 DEF tierTx
  <2>5. TxOK'
    BY <2>1, <2>3, NewOrderIsIdle DEF TxOK, tierTx
  <2>6. ASSUME NEW o \in Orders, NEW t \in locked[o] PROVE tickets'[t] = tickets[t]
    <3>1. l[t] = 0
      <4>1. t \in Tiers /\ ~ RowIdle(t)
        BY <2>6 DEF RowIdle
      <4>2. l[t] \in Nat /\ ~ (l[t] > 0)
        BY <2>1, <2>2, <4>1
      <4> HIDE DEF TierInv, TierTypeOK
      <4> QED BY <4>2
    <3>2. tickets'[t] = tickets[t] + l[t] /\ tickets[t] \in Int
      BY <2>1
    <3> QED BY <3>1, <3>2
  <2>7. LocksOK'
    BY <2>3, <2>6 DEF LocksOK, tierTx
  <2>8. SoldCountKeepsUp'
    <3> SUFFICES ASSUME NEW t \in Tiers, t \notin late PROVE soldCount'[t] >= tickets'[t]
      BY <2>3 DEF SoldCountKeepsUp
    <3>1. /\ soldCount'[t] = IF l[t] > 0 THEN tickets[t] + l[t] ELSE soldCount[t]
          /\ tickets'[t] = tickets[t] + l[t] /\ l[t] \in Nat /\ tickets[t] \in Int
      BY <2>1, <2>2
    <3>2. soldCount[t] >= tickets[t]
      BY DEF SoldCountKeepsUp
    <3> HIDE DEF TierInv, TierTypeOK
    <3> QED BY <3>1, <3>2
  <2> QED BY <2>4, <2>5, <2>7, <2>8
<1>3. ASSUME NEW r \in Orders, Release(r) PROVE TierInv'
  <2>1. /\ stage[r] = "held" /\ open[r] = "no" /\ stage' = [stage EXCEPT ![r] = "released"]
        /\ held' = [t \in Tiers |-> held[t] - lines[r][t]]
        /\ UNCHANGED <<quantity, soldCount, tickets, late, lines, tierTx>>
    BY <1>3 DEF Release
  <2>2. TierTypeOK'
    BY <2>1 DEF tierTx
  <2>3. TxOK'
    BY <2>1 DEF TxOK, tierTx
  <2> QED BY <2>1, <2>2, <2>3 DEF LocksOK, SoldCountKeepsUp, tierTx
<1>4. ASSUME NEW t \in Tiers, SetQuantity(t) PROVE TierInv'
  <2>1. UNCHANGED <<soldCount, tickets, held, late, stage, lines, tierTx>>
    BY <1>4 DEF SetQuantity
  <2>2. quantity' \in [Tiers -> Int]
    BY <1>4 DEF SetQuantity
  <2> QED BY <2>1, <2>2 DEF TxOK, LocksOK, SoldCountKeepsUp, tierTx
<1>5. ASSUME NEW r \in Orders, BeginSale(r) PROVE TierInv'
  <2>1. lines[r] \in [Tiers -> Nat]
    OBVIOUS
  <2>2. stage[r] = "held" /\ Begin(r, "sale", lines[r], lines[r])
    BY <1>5 DEF BeginSale
  <2>3. lines[r] \in [Tiers -> Int]
    BY <2>1
  <2> HIDE DEF TierInv, TierTypeOK
  <2> QED BY <2>1, <2>2, <2>3, BeginKeeps
<1>6. ASSUME NEW r \in Orders, BeginRefund(r) PROVE TierInv'
  <2>1. PICK k \in Lines : /\ \A t \in Tiers : k[t] <= lines[r][t]
                           /\ Begin(r, "refund", k, [t \in Tiers |-> - k[t]])
    BY <1>6 DEF BeginRefund
  <2>2. k \in [Tiers -> Nat] /\ stage[r] = "paid"
    BY <1>6, LinesAreCounts DEF BeginRefund
  <2> DEFINE change == [t \in Tiers |-> - k[t]]
  <2>3. change \in [Tiers -> Int]
    BY <2>2
  <2>4. \A t \in Tiers : /\ change[t] # 0 => k[t] # 0
                         /\ change[t] <= 0 /\ 0 <= lines[r][t] + change[t]
    BY <2>1, <2>2
  <2> HIDE DEF change
  <2>5. Begin(r, "refund", k, change)
    BY <2>1 DEF change
  <2> HIDE DEF TierInv, TierTypeOK
  <2> QED BY <2>2, <2>3, <2>4, <2>5, BeginKeeps
<1>7. ASSUME NEW r \in Orders, BeginScan(r) PROVE TierInv'
  <2>1. PICK t \in Tiers : Begin(r, "scan", [Nothing EXCEPT ![t] = 1], Nothing)
    BY <1>7 DEF BeginScan
  <2>2. [Nothing EXCEPT ![t] = 1] \in [Tiers -> Nat] /\ Nothing \in [Tiers -> Int]
    BY LinesAreCounts
  <2>3. stage[r] = "paid"
    BY <1>7 DEF BeginScan
  <2>4. \A u \in Tiers : Nothing[u] = 0 /\ Nothing[u] <= 0 /\ 0 <= lines[r][u] + Nothing[u]
    BY DEF Nothing
  <2> DEFINE row == [Nothing EXCEPT ![t] = 1]
  <2> HIDE DEF TierInv, TierTypeOK
  <2>5. row \in [Tiers -> Nat] /\ Begin(r, "scan", row, Nothing)
    BY <2>1, <2>2
  <2> HIDE DEF row
  <2> QED BY <2>2, <2>3, <2>4, <2>5, BeginKeeps
<1>8. ASSUME NEW r \in Orders, Commit(r) PROVE TierInv'
  BY <1>8, CommitKeeps
<1>9. ASSUME NEW r \in Orders, Abort(r) PROVE TierInv'
  BY <1>9, RollbackKeeps DEF Abort, tierRow
<1>10. ASSUME NEW r \in Orders, NEW t \in Tiers, Recount(r, t) PROVE TierInv'
  <2>1. /\ todo[r][t] > 0 /\ waiting[r] = NoTier /\ RowFree(r, t)
        /\ Written(r, t, Fresh(r, t)) \/ Refused(r, t, Fresh(r, t))
        /\ UNCHANGED <<quantity, soldCount, tickets, held, late, stage, lines>>
    BY <1>10 DEF Recount, tierRow
  <2>2. Fresh(r, t) \in Int /\ Fresh(r, t) >= tickets[t] + pend[r][t]
    BY DEF Fresh
  <2>3. CASE Written(r, t, Fresh(r, t))
    BY <2>1, <2>2, <2>3, WrittenKeeps
  <2>4. CASE Refused(r, t, Fresh(r, t))
    BY <2>1, <2>4, RollbackKeeps DEF Refused
  <2> QED BY <2>1, <2>3, <2>4
<1>11. ASSUME NEW r \in Orders, NEW t \in Tiers, Wait(r, t) PROVE TierInv'
  <2>1. /\ todo[r][t] > 0 /\ waiting[r] = NoTier
        /\ waiting' = [waiting EXCEPT ![r] = t]
        /\ counted' = [counted EXCEPT ![r] = Fresh(r, t)]
        /\ UNCHANGED <<quantity, soldCount, tickets, held, late, stage, lines,
                       open, pend, todo, locked, written>>
    BY <1>11 DEF Wait, tierRow
  <2>2. Fresh(r, t) \in Int
    BY DEF Fresh
  <2>3. TierTypeOK'
    BY <2>1, <2>2
  <2>4. open[r] # "no"
    BY <2>1 DEF TxOK, Nothing
  <2>5. TxOK'
    BY <2>1, <2>4 DEF TxOK
  <2> QED BY <2>1, <2>3, <2>5 DEF LocksOK, SoldCountKeepsUp
<1>12. ASSUME NEW r \in Orders, NEW t \in Tiers, Resume(r, t) PROVE TierInv'
  <2>1. /\ waiting[r] = t /\ RowFree(r, t)
        /\ Written(r, t, counted[r]) \/ Refused(r, t, counted[r])
        /\ late' = IF todo[r][t] = 1 THEN late \cup {t} ELSE late
        /\ UNCHANGED <<quantity, soldCount, tickets, held, stage, lines>>
    BY <1>12 DEF Resume
  <2>2. late \subseteq late' /\ late' \subseteq Tiers /\ (todo[r][t] = 1 => t \in late')
    BY <2>1
  <2>3. todo[r][t] > 0
    BY <2>1 DEF TxOK
  <2>4. counted[r] \in Int
    OBVIOUS
  <2>5. CASE Written(r, t, counted[r])
    BY <2>1, <2>2, <2>3, <2>4, <2>5, WrittenKeeps
  <2>6. CASE Refused(r, t, counted[r])
    BY <2>1, <2>2, <2>6, RollbackKeeps DEF Refused
  <2> QED BY <2>1, <2>5, <2>6
<1>13. CASE UNCHANGED tierVars
  BY <1>13 DEF tierVars, tierRow, tierTx, TxOK, LocksOK, SoldCountKeepsUp
<1> QED BY <1>1, <1>2, <1>3, <1>4, <1>5, <1>6, <1>7, <1>8, <1>9, <1>10, <1>11, <1>12, <1>13
  DEF TierNext

-----------------------------------------------------------------------------
(* The theorems *)

LEMMA TierAlways == TierSpec => []TierInv
BY InitTier, TierStep, PTL DEF TierSpec

\* sold_count never falls behind the tickets of a tier, whatever sales, scans and
\* refunds overlap, as long as no transaction's last recount of it had to wait.
THEOREM SoldCountHolds == TierSpec => []SoldCountKeepsUp
<1>1. TierInv => SoldCountKeepsUp
  BY DEF TierInv
<1> QED BY <1>1, TierAlways, PTL

\* What a step may do to one tier's stock.
FitsStays(t) == t \notin late' /\ quantity'[t] = quantity[t] /\ Fits(t) => Fits(t)'

LEMMA StockStep ==
    ASSUME TierInv, [TierNext]_tierVars, NEW t \in Tiers PROVE FitsStays(t)
<1> USE DEF FitsStays, Fits
<1>0. /\ tickets[t] \in Int /\ held[t] \in Int /\ quantity[t] \in Int /\ soldCount[t] \in Int
      /\ \A r \in Orders : lines[r][t] \in Nat /\ pend[r][t] \in Int
      /\ t \notin late => soldCount[t] >= tickets[t]
  BY DEF TierInv, TierTypeOK, SoldCountKeepsUp
<1>1. ASSUME NEW r \in Orders, Hold(r) PROVE FitsStays(t)
  <2>1. PICK l \in Lines : /\ l[t] > 0 => Within(t, l[t])
                           /\ held' = [u \in Tiers |-> held[u] + l[u]]
    BY <1>1 DEF Hold
  <2>2. held'[t] = held[t] + l[t] /\ l[t] \in Nat /\ tickets' = tickets /\ late' = late
    BY <1>1, <2>1, LinesAreCounts DEF Hold
  <2> QED BY <1>0, <2>1, <2>2 DEF Within
<1>2. ASSUME NEW r \in Orders, DoorSale(r) PROVE FitsStays(t)
  <2>1. PICK l \in Lines : /\ l[t] > 0 => Within(t, l[t])
                           /\ tickets' = [u \in Tiers |-> tickets[u] + l[u]]
    BY <1>2 DEF DoorSale
  <2>2. tickets'[t] = tickets[t] + l[t] /\ l[t] \in Nat /\ held' = held /\ late' = late
    BY <1>2, <2>1, LinesAreCounts DEF DoorSale
  <2> QED BY <1>0, <2>1, <2>2 DEF Within
<1>3. ASSUME NEW r \in Orders, Release(r) PROVE FitsStays(t)
  <2>1. held'[t] = held[t] - lines[r][t] /\ tickets' = tickets
    BY <1>3 DEF Release
  <2> QED BY <1>0, <2>1
<1>4. ASSUME NEW r \in Orders, Commit(r) PROVE FitsStays(t)
  <2>1. tickets'[t] = tickets[t] + pend[r][t]
    BY <1>4 DEF Commit
  <2>2. CASE open[r] = "sale"
    <3>1. pend[r][t] = lines[r][t]
      BY <2>2 DEF TierInv, TxOK
    <3>2. held'[t] = held[t] - lines[r][t]
      BY <1>4, <2>2 DEF Commit
    <3> QED BY <1>0, <2>1, <3>1, <3>2
  <2>3. CASE open[r] \in {"refund", "scan"}
    <3>1. pend[r][t] <= 0
      BY <2>3 DEF TierInv, TxOK
    <3>2. held' = held
      BY <1>4, <2>3 DEF Commit
    <3> QED BY <1>0, <2>1, <3>1, <3>2
  <2>4. open[r] \in {"sale", "refund", "scan"}
    BY <1>4 DEF Commit, TierInv, TierTypeOK
  <2> QED BY <2>2, <2>3, <2>4
<1>5. CASE UNCHANGED <<tickets, held>>
  BY <1>5
<1>6. ASSUME NEW u \in Tiers, SetQuantity(u) PROVE UNCHANGED <<tickets, held>>
  BY <1>6 DEF SetQuantity
<1>7. ASSUME NEW r \in Orders, BeginSale(r) \/ BeginRefund(r) \/ BeginScan(r) \/ Abort(r)
      PROVE  UNCHANGED <<tickets, held>>
  BY <1>7 DEF BeginSale, BeginRefund, BeginScan, Begin, Abort, tierRow
<1>8. ASSUME NEW r \in Orders, NEW u \in Tiers, Recount(r, u) \/ Wait(r, u) \/ Resume(r, u)
      PROVE  UNCHANGED <<tickets, held>>
  BY <1>8 DEF Recount, Wait, Resume, tierRow
<1>9. CASE UNCHANGED tierVars
  BY <1>5, <1>9 DEF tierVars, tierRow
<1> QED BY <1>1, <1>2, <1>3, <1>4, <1>5, <1>6, <1>7, <1>8, <1>9 DEF TierNext

\* What is sold and held of a tier stays inside its allocation, whatever overlaps.
THEOREM AllocationHoldsAlways == TierSpec => AllocationHolds
<1>1. TierInv /\ [TierNext]_tierVars =>
         [\A t \in Tiers : t \notin late' /\ quantity'[t] = quantity[t] /\ Fits(t) => Fits(t)']_tierVars
  BY StockStep DEF FitsStays
<1> QED BY <1>1, TierAlways, PTL DEF TierSpec, AllocationHolds
=============================================================================
