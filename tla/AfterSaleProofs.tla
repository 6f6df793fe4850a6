-------------------------- MODULE AfterSaleProofs ---------------------------
(***************************************************************************)
(* Nothing is acknowledged unrecorded, refunded tickets are void, and the  *)
(* order and the ledger end where Stripe is, for any number of payments,   *)
(* tickets, handlers and events.                                           *)
(***************************************************************************)
EXTENDS AfterSale, FiniteSetTheorems, TLAPS

Results == {"none", "clean", "ORDER_NOT_FOUND"} \cup Permanent \cup Transient
Orders == [exists : BOOLEAN, refunded : 0..Total, fee : 0..Fee]

\* The shapes of the order, its tickets and the handlers.
Shapes ==
    /\ hold \in [Payments -> {"active", "converted", "gone"}]
    /\ order \in [Payments -> Orders]
    /\ ticket \in [Tickets -> {"none", "valid", "scanned", "void"}]
    /\ hook \in [Events -> {"none", "claimed"} \cup Results]
    /\ wpc \in [Workers -> {"idle", "record", "fulfil", "quote", "convert", "mark"}]
    /\ job \in [Workers -> [event : Events \cup {NoJob.event}, result : Results]]
    /\ acked \subseteq Events

\* A handler has an event, and only its payment's own needs no recording.
HandlersOK ==
    \A w \in Workers : /\ wpc[w] # "idle" => job[w].event \in Events
                       /\ wpc[w] = "record" => KindOf(job[w].event) # "completed"
                       /\ wpc[w] = "mark" => job[w].result \in {"clean"} \cup Permanent \cup Transient

\* An order exists when its hold was converted, and nothing is refunded before.
OrdersOK ==
    \A p \in Payments : /\ order[p].exists <=> hold[p] = "converted"
                        /\ ~ order[p].exists => order[p].refunded = 0

\* What has been filed, or is about to be, as done.
FiledAsDone(e) ==
    \/ hook[e] = "clean"
    \/ \E w \in Workers : wpc[w] = "mark" /\ job[w].event = e /\ job[w].result = "clean"

Base == Shapes /\ HandlersOK /\ OrdersOK

\* What a handler is about to say of a lost dispute already holds for its tickets.
VoidedOK ==
    \A p \in Payments :
        order[p].refunded = Total \/ FiledAsDone(<<"lost", p, Total>>) =>
            \A t \in SeatsOf[p] : ticket[t] = "valid" => t \in undone

\* Done is recorded, and what is refunded in full cannot be used.
AnsweredInv ==
    /\ Base
    /\ \A e \in Events : FiledAsDone(e) => IsRecorded(e)
    /\ AnsweredMeansRecorded
    /\ VoidedOK

LEMMA EventFacts ==
    ASSUME NEW e \in Events
    PROVE  /\ PaymentOf(e) \in Payments
           /\ KindOf(e) \in {"completed", "refund", "fee"} \cup DisputeKinds
           /\ KindOf(e) = "refund" => AmountOf(e) \in 1..Total
           /\ KindOf(e) = "fee" => AmountOf(e) \in 1..Fee
           /\ KindOf(e) \in DisputeKinds => e = <<KindOf(e), PaymentOf(e), Total>>
BY DEF Events, KindOf, PaymentOf, AmountOf, DisputeKinds

LEMMA InitAnswered == Init => AnsweredInv
<1> SUFFICES ASSUME Init PROVE AnsweredInv
  OBVIOUS
<1>1. Shapes
  BY AfterSaleAssumption DEF Init, Shapes, NoOrder, NoJob, Results, Orders
<1>2. HandlersOK /\ OrdersOK
  BY DEF Init, HandlersOK, OrdersOK, NoOrder
<1>3. \A e \in Events : ~ FiledAsDone(e)
  BY DEF Init, FiledAsDone
<1>4. AnsweredMeansRecorded
  BY DEF Init, AnsweredMeansRecorded
<1>5. VoidedOK
  BY AfterSaleAssumption DEF Init, VoidedOK
<1> QED BY <1>1, <1>2, <1>3, <1>4, <1>5 DEF AnsweredInv, Base

-----------------------------------------------------------------------------
(* The database functions *)

LEMMA ForwardKeeps ==
    ASSUME Forward, Shapes, Shapes', NEW e \in Events, IsRecorded(e)
    PROVE  IsRecorded(e)'
<1> DEFINE p == PaymentOf(e)
<1>1. p \in Payments /\ (KindOf(e) = "refund" => AmountOf(e) \in Nat) /\ (KindOf(e) = "fee" => AmountOf(e) \in Nat)
  BY EventFacts
<1>2. /\ order[p].refunded \in Int /\ order'[p].refunded \in Int
      /\ order[p].fee \in Int /\ order'[p].fee \in Int
  BY <1>1, AfterSaleAssumption DEF Shapes, Orders
<1> QED BY <1>1, <1>2 DEF Forward, IsRecorded

LEMMA EntryIsWritten ==
    ASSUME NEW key, NEW amount
    PROVE  ledger \subseteq WithEntry(key, amount) /\ \E x \in WithEntry(key, amount) : x.key = key
<1>1. CASE \E x \in ledger : x.key = key
  BY <1>1 DEF WithEntry
<1>2. CASE ~ \E x \in ledger : x.key = key
  <2> DEFINE new == [key |-> key, amount |-> amount]
  <2>1. new.key = key /\ WithEntry(key, amount) = ledger \cup {new}
    BY <1>2 DEF WithEntry
  <2> QED BY <2>1
<1> QED BY <1>1, <1>2

LEMMA EventIsRecorded ==
    ASSUME Shapes, NEW e \in Events, order[PaymentOf(e)].exists, KindOf(e) # "completed", RecordEvent(e)
    PROVE  /\ Forward /\ IsRecorded(e)'
           /\ order' \in [Payments -> Orders]
           /\ \A q \in Payments : order'[q].exists = order[q].exists
           /\ ticket' \in [Tickets -> {"none", "valid", "scanned", "void"}]
           /\ \A t \in Tickets : ticket'[t] \in {ticket[t], "void"}
<1> DEFINE p == PaymentOf(e)
<1> DEFINE n == AmountOf(e)
<1>1. p \in Payments /\ order[p] \in Orders /\ order[p].refunded \in 0..Total /\ order[p].fee \in 0..Fee
      /\ Total \in Nat /\ Fee \in Nat
  BY EventFacts, AfterSaleAssumption DEF Shapes, Orders
<1>2. /\ Voided(p) \in [Tickets -> {"none", "valid", "scanned", "void"}]
      /\ \A t \in Tickets : Voided(p)[t] \in {ticket[t], "void"}
  BY DEF Voided, Shapes
<1>3. ticket \in [Tickets -> {"none", "valid", "scanned", "void"}] /\ order \in [Payments -> Orders]
  BY DEF Shapes
<1>4. CASE KindOf(e) = "refund"
  <2>1. RecordRefund(p, n) /\ n \in 1..Total
    BY <1>4, EventFacts DEF RecordEvent
  <2>2. CASE n <= order[p].refunded
    <3>1. UNCHANGED <<order, ticket, ledger>>
      BY <2>1, <2>2 DEF RecordRefund
    <3>2. Forward
      BY <3>1, <1>3, AfterSaleAssumption DEF Forward, Orders
    <3>3. IsRecorded(e)'
      BY <1>4, <2>2, <3>1 DEF IsRecorded
    <3> QED BY <1>3, <3>1, <3>2, <3>3
  <2>3. CASE ~ (n <= order[p].refunded)
    <3>1. /\ order' = [order EXCEPT ![p].refunded = n]
          /\ ledger' = WithEntry(<<"refund", p, n>>, -Owed(n, order[p].refunded))
          /\ ticket' \in {ticket, Voided(p)}
      BY <2>1, <2>3 DEF RecordRefund
    <3>2. /\ order'[p] = [order[p] EXCEPT !.refunded = n]
          /\ \A q \in Payments \ {p} : order'[q] = order[q]
          /\ order' \in [Payments -> Orders]
      BY <3>1, <1>1, <1>3, <2>1 DEF Orders
    <3>3. order'[p].refunded = n /\ order'[p].fee = order[p].fee /\ order'[p].exists = order[p].exists
      BY <3>2, <1>1 DEF Orders
    <3>4. Forward
      BY <3>1, <3>2, <3>3, <2>1, <2>3, <1>1, <1>3, EntryIsWritten DEF Forward, Orders
    <3>5. IsRecorded(e)'
      BY <1>4, <2>1, <3>3 DEF IsRecorded
    <3> QED BY <1>2, <1>3, <3>1, <3>2, <3>3, <3>4, <3>5
  <2> QED BY <2>2, <2>3
<1>5. CASE KindOf(e) = "fee"
  <2>1. RecordFeeRefund(p, n) /\ n \in 1..Fee
    BY <1>5, EventFacts DEF RecordEvent
  <2>2. UNCHANGED ticket
    BY <2>1 DEF RecordFeeRefund
  <2>3. CASE n <= order[p].fee
    <3>1. UNCHANGED <<order, ledger>>
      BY <2>1, <2>3 DEF RecordFeeRefund
    <3>2. Forward
      BY <3>1, <1>3, AfterSaleAssumption DEF Forward, Orders
    <3>3. IsRecorded(e)'
      BY <1>5, <2>3, <3>1 DEF IsRecorded
    <3> QED BY <1>3, <2>2, <3>1, <3>2, <3>3
  <2>4. CASE ~ (n <= order[p].fee)
    <3>1. /\ order' = [order EXCEPT ![p].fee = n]
          /\ ledger' = WithEntry(<<"fee", p, n>>, Owed(n, order[p].fee))
      BY <2>1, <2>4 DEF RecordFeeRefund
    <3>2. /\ order'[p] = [order[p] EXCEPT !.fee = n]
          /\ \A q \in Payments \ {p} : order'[q] = order[q]
          /\ order' \in [Payments -> Orders]
      BY <3>1, <1>1, <1>3, <2>1 DEF Orders
    <3>3. order'[p].fee = n /\ order'[p].refunded = order[p].refunded /\ order'[p].exists = order[p].exists
      BY <3>2, <1>1 DEF Orders
    <3>4. Forward
      BY <3>1, <3>2, <3>3, <2>1, <2>4, <1>1, <1>3, EntryIsWritten DEF Forward, Orders
    <3>5. IsRecorded(e)'
      BY <1>5, <2>1, <3>3 DEF IsRecorded
    <3> QED BY <1>3, <2>2, <3>2, <3>3, <3>4, <3>5
  <2> QED BY <2>3, <2>4
<1>6. CASE KindOf(e) \in DisputeKinds
  <2>1. RecordDispute(KindOf(e), p, n)
    BY <1>6 DEF RecordEvent, DisputeKinds
  <2>2. UNCHANGED order /\ ticket' \in {ticket, Voided(p)} /\ ledger' = Movement(KindOf(e), p, n)
    BY <2>1 DEF RecordDispute
  <2>3. /\ ledger \subseteq ledger'
        /\ KindOf(e) \in {"withdrawn", "reinstated"} => \E x \in ledger' : x.key = <<KindOf(e), p, 0>>
    BY <2>2, EntryIsWritten DEF Movement
  <2>4. Forward
    BY <2>2, <2>3, <1>3, AfterSaleAssumption DEF Forward, Orders
  <2>5. IsRecorded(e)'
    BY <1>6, <2>2, <2>3 DEF IsRecorded, DisputeKinds
  <2> QED BY <1>2, <1>3, <2>2, <2>4, <2>5
<1> QED BY <1>4, <1>5, <1>6, EventFacts

\* The refund that completes the total, and a lost dispute, void the tickets.
LEMMA EventVoids ==
    ASSUME Shapes, NEW e \in Events, KindOf(e) # "completed", RecordEvent(e)
    PROVE  /\ KindOf(e) = "lost" => ticket' = Voided(PaymentOf(e))
           /\ \A q \in Payments :
                 order'[q].refunded = Total =>
                     order[q].refunded = Total \/ (q = PaymentOf(e) /\ ticket' = Voided(q))
<1>1. order \in [Payments -> Orders] /\ PaymentOf(e) \in Payments
  BY EventFacts DEF Shapes
<1>2. CASE KindOf(e) = "refund"
  <2>1. RecordRefund(PaymentOf(e), AmountOf(e))
    BY <1>2 DEF RecordEvent
  <2> QED BY <1>1, <1>2, <2>1 DEF RecordRefund, IsFull, Orders
<1>3. CASE KindOf(e) = "fee"
  <2>1. RecordFeeRefund(PaymentOf(e), AmountOf(e))
    BY <1>3 DEF RecordEvent
  <2> QED BY <1>1, <1>3, <2>1 DEF RecordFeeRefund, Orders
<1>4. CASE KindOf(e) \in DisputeKinds
  <2>1. RecordDispute(KindOf(e), PaymentOf(e), AmountOf(e))
    BY <1>4 DEF RecordEvent, DisputeKinds
  <2> QED BY <2>1 DEF RecordDispute
<1> QED BY <1>2, <1>3, <1>4, EventFacts

\* A step that refunds nothing and files no dispute leaves the refunded void:
\* tickets become valid by a reversed check-in, or of an order there was not.
LEMMA VoidedKept ==
    ASSUME AnsweredInv, undone \subseteq undone',
           \A q \in Payments : order'[q].refunded = order[q].refunded,
           \A e \in Events : FiledAsDone(e)' => FiledAsDone(e) \/ KindOf(e) = "completed",
           \A q \in Payments : \A t \in SeatsOf[q] :
               ticket'[t] = "valid" => ticket[t] = "valid" \/ t \in undone' \/ ~ order[q].exists
    PROVE  VoidedOK'
<1> SUFFICES ASSUME NEW q \in Payments, NEW t \in SeatsOf[q], ticket'[t] = "valid",
                    order'[q].refunded = Total \/ FiledAsDone(<<"lost", q, Total>>)'
             PROVE  t \in undone'
  BY DEF VoidedOK
<1>1. <<"lost", q, Total>> \in Events /\ KindOf(<<"lost", q, Total>>) = "lost"
      /\ PaymentOf(<<"lost", q, Total>>) = q
  BY DEF Events, DisputeKinds, KindOf, PaymentOf
<1>2. order[q].refunded = Total \/ FiledAsDone(<<"lost", q, Total>>)
  BY <1>1
<1>3. order[q].exists
  BY <1>1, <1>2, AfterSaleAssumption DEF AnsweredInv, Base, OrdersOK, IsRecorded
<1>4. ticket[t] = "valid" \/ t \in undone'
  BY <1>3
<1> QED BY <1>2, <1>4 DEF AnsweredInv, VoidedOK

-----------------------------------------------------------------------------
(* The handlers *)

\* A handler that goes elsewhere with the result of what it did.
LEMMA HandlerMoves ==
    ASSUME Shapes, NEW w \in Workers, NEW label \in {"record", "fulfil", "quote", "convert", "mark"}, NEW result \in Results,
           Goto(w, label, result)
    PROVE  /\ wpc' \in [Workers -> {"idle", "record", "fulfil", "quote", "convert", "mark"}]
           /\ job' \in [Workers -> [event : Events \cup {NoJob.event}, result : Results]]
           /\ wpc'[w] = label /\ job'[w].event = job[w].event /\ job'[w].result = result
           /\ \A v \in Workers \ {w} : wpc'[v] = wpc[v] /\ job'[v] = job[v]
<1>1. job[w] \in [event : Events \cup {NoJob.event}, result : Results]
  BY DEF Shapes
<1>2. [job[w] EXCEPT !.result = result] \in [event : Events \cup {NoJob.event}, result : Results]
      /\ [job[w] EXCEPT !.result = result].event = job[w].event
      /\ [job[w] EXCEPT !.result = result].result = result
  BY <1>1
<1>3. job' = [job EXCEPT ![w] = [job[w] EXCEPT !.result = result]] /\ wpc' = [wpc EXCEPT ![w] = label]
  BY DEF Goto
<1> QED BY <1>2, <1>3 DEF Shapes

LEMMA HandlerFreed ==
    ASSUME Shapes, NEW w \in Workers, Free(w)
    PROVE  /\ wpc' \in [Workers -> {"idle", "record", "fulfil", "quote", "convert", "mark"}]
           /\ job' \in [Workers -> [event : Events \cup {NoJob.event}, result : Results]]
           /\ wpc'[w] = "idle" /\ \A v \in Workers \ {w} : wpc'[v] = wpc[v] /\ job'[v] = job[v]
<1>1. NoJob \in [event : Events \cup {NoJob.event}, result : Results]
  BY DEF NoJob, Results
<1> QED BY <1>1 DEF Shapes, Free

LEMMA SameBooks == Shapes /\ UNCHANGED <<order, ledger>> => Forward
BY AfterSaleAssumption DEF Shapes, Orders, Forward

LEMMA AnsweredStep == AnsweredInv /\ [Next]_vars => AnsweredInv'
<1> SUFFICES ASSUME AnsweredInv, [Next]_vars PROVE AnsweredInv'
  OBVIOUS
<1>a. Shapes /\ HandlersOK /\ OrdersOK /\ AnsweredMeansRecorded /\ VoidedOK
      /\ \A e \in Events : FiledAsDone(e) => IsRecorded(e)
  BY DEF AnsweredInv, Base
<1>b. ASSUME Shapes', HandlersOK', OrdersOK', VoidedOK', Forward, acked' \subseteq acked, unmarked' = unmarked,
             \A e \in Events : hook'[e] = hook[e],
             \A e \in Events : FiledAsDone(e)' => FiledAsDone(e) \/ IsRecorded(e)'
      PROVE  AnsweredInv'
  <2>1. \A e \in Events : IsRecorded(e) => IsRecorded(e)'
    BY <1>a, <1>b, ForwardKeeps
  <2>2. \A e \in Events : FiledAsDone(e)' => IsRecorded(e)'
    BY <2>1, <1>a, <1>b
  <2>3. AnsweredMeansRecorded'
    BY <2>1, <1>a, <1>b DEF AnsweredMeansRecorded, Shapes
  <2> QED BY <1>b, <2>2, <2>3 DEF AnsweredInv, Base
<1>1. ASSUME NEW p \in Payments, StripeRefunds(p) \/ StripeRefundsFee(p) \/ StripeDisputes(p) \/ HoldEnds(p)
      PROVE AnsweredInv'
  <2>1. UNCHANGED <<order, ticket, undone, ledger, hook, acked, unmarked, wpc, job>>
    BY <1>1 DEF StripeRefunds, StripeRefundsFee, StripeDisputes, Happens, HoldEnds, saleVars, hookVars, workVars
  <2>2. UNCHANGED hold \/ (hold[p] = "active" /\ hold' = [hold EXCEPT ![p] = "gone"])
    BY <1>1 DEF StripeRefunds, StripeRefundsFee, StripeDisputes, Happens, HoldEnds, saleVars
  <2>3. Shapes' /\ HandlersOK' /\ OrdersOK' /\ Forward
    BY <1>a, <2>1, <2>2, SameBooks DEF Shapes, HandlersOK, OrdersOK
  <2>4. \A e \in Events : FiledAsDone(e)' = FiledAsDone(e)
    BY <2>1 DEF FiledAsDone
  <2>5. VoidedOK'
    BY <2>1, <2>4, VoidedKept
  <2> QED BY <1>b, <2>1, <2>3, <2>4, <2>5
<1>2. ASSUME NEW t \in Tickets, CheckIn(t) \/ UndoCheckIn(t) PROVE AnsweredInv'
  <2>1. UNCHANGED <<hold, order, ledger, hook, acked, unmarked, wpc, job>>
    BY <1>2 DEF CheckIn, UndoCheckIn, hookVars, workVars
  <2>2. ticket' \in [Tickets -> {"none", "valid", "scanned", "void"}]
    BY <1>2, <1>a DEF CheckIn, UndoCheckIn, Shapes
  <2>3. Shapes' /\ HandlersOK' /\ OrdersOK' /\ Forward
    BY <1>a, <2>1, <2>2, SameBooks DEF Shapes, HandlersOK, OrdersOK
  <2>4. \A e \in Events : FiledAsDone(e)' = FiledAsDone(e)
    BY <2>1 DEF FiledAsDone
  <2>5. undone \subseteq undone' /\ \A u \in Tickets : ticket'[u] = "valid" => ticket[u] = "valid" \/ u \in undone'
    BY <1>a, <1>2 DEF CheckIn, UndoCheckIn, Shapes
  <2>6. VoidedOK'
    BY <2>1, <2>4, <2>5, VoidedKept, AfterSaleAssumption
  <2> QED BY <1>b, <2>1, <2>3, <2>4, <2>6
<1>3. ASSUME NEW w \in Workers, NEW d \in Events, Deliver(w, d) PROVE AnsweredInv'
  <2>1. UNCHANGED <<hold, order, ticket, undone, ledger>> /\ wpc[w] = "idle"
    BY <1>3 DEF Deliver, saleVars
  <2>2. CASE hook[d] = "clean"
    <3>1. acked' = acked \cup {d} /\ UNCHANGED <<hook, unmarked, wpc, job>>
      BY <1>3, <2>2 DEF Deliver, workVars
    <3>2. Base' /\ \A e \in Events : FiledAsDone(e)' = FiledAsDone(e)
      BY <1>a, <2>1, <3>1 DEF Base, Shapes, HandlersOK, OrdersOK, FiledAsDone
    <3>3. IsRecorded(d) /\ \A e \in Events : IsRecorded(e)' = IsRecorded(e)
      BY <1>a, <2>1, <2>2 DEF FiledAsDone, IsRecorded
    <3>4. AnsweredMeansRecorded' /\ \A e \in Events : FiledAsDone(e)' => IsRecorded(e)'
      <4>1. \A e \in acked' : IsRecorded(e)' \/ hook'[e] \in Permanent \/ e \in unmarked'
        BY <1>a, <2>1, <3>1, <3>3 DEF AnsweredMeansRecorded, IsRecorded
      <4> QED BY <4>1, <1>a, <3>2, <3>3 DEF AnsweredMeansRecorded
    <3>5. VoidedOK'
      BY <2>1, <3>2, VoidedKept
    <3> QED BY <3>2, <3>4, <3>5 DEF AnsweredInv
  <2>3. CASE hook[d] # "clean"
    <3>1. /\ hook' = [hook EXCEPT ![d] = IF @ = "none" THEN "claimed" ELSE @]
          /\ wpc' = [wpc EXCEPT ![w] = IF KindOf(d) = "completed" THEN "fulfil" ELSE "record"]
          /\ job' = [job EXCEPT ![w].event = d]
          /\ UNCHANGED <<acked, unmarked>>
      BY <1>3, <2>3 DEF Deliver
    <3>2. /\ hook' \in [Events -> {"none", "claimed"} \cup Results]
          /\ \A e \in Events : hook'[e] = hook[e] \/ (hook[e] = "none" /\ hook'[e] = "claimed")
      BY <1>a, <3>1 DEF Shapes
    <3>3. /\ wpc' \in [Workers -> {"idle", "record", "fulfil", "quote", "convert", "mark"}]
          /\ wpc'[w] # "mark" /\ (wpc'[w] = "record" => KindOf(d) # "completed")
          /\ \A v \in Workers \ {w} : wpc'[v] = wpc[v]
      BY <1>a, <3>1 DEF Shapes
    <3>4. /\ job' \in [Workers -> [event : Events \cup {NoJob.event}, result : Results]]
          /\ job'[w].event = d /\ \A v \in Workers \ {w} : job'[v] = job[v]
      BY <1>a, <3>1 DEF Shapes
    <3>5. Base'
      BY <1>a, <2>1, <3>1, <3>2, <3>3, <3>4 DEF Base, Shapes, HandlersOK, OrdersOK
    <3>6. \A e \in Events : FiledAsDone(e)' => FiledAsDone(e)
      BY <2>1, <3>2, <3>3, <3>4 DEF FiledAsDone
    <3>7. \A e \in Events : IsRecorded(e)' = IsRecorded(e)
      BY <2>1 DEF IsRecorded
    <3>8. \A e \in acked' : IsRecorded(e)' \/ hook'[e] \in Permanent \/ e \in unmarked'
      <4>1. \A e \in Events : hook[e] \in Permanent => hook'[e] \in Permanent
        BY <3>2 DEF Permanent
      <4>2. DOMAIN hook = Events /\ DOMAIN hook' = Events
        BY <1>a, <3>2 DEF Shapes
      <4> SUFFICES ASSUME NEW e \in acked PROVE IsRecorded(e)' \/ hook'[e] \in Permanent \/ e \in unmarked'
        BY <3>1
      <4>3. e = d \/ hook'[e] = hook[e]
        BY <3>1
      <4> QED BY <1>a, <2>1, <3>1, <3>7, <4>1, <4>3 DEF AnsweredMeansRecorded, IsRecorded
    <3>9. VoidedOK'
      BY <2>1, <3>6, VoidedKept
    <3> QED BY <1>a, <3>5, <3>6, <3>7, <3>8, <3>9 DEF AnsweredInv, AnsweredMeansRecorded
  <2> QED BY <2>2, <2>3
<1>4. ASSUME NEW w \in Workers, Record(w) PROVE AnsweredInv'
  <2>1. wpc[w] = "record" /\ UNCHANGED <<hold, hook, acked, unmarked, undone>>
    BY <1>4 DEF Record, OnlyWorked, hookVars
  <2>2. PICK d \in Events : d = job[w].event /\ KindOf(d) # "completed"
    BY <1>a, <2>1 DEF HandlersOK
  <2>3. CASE order[PaymentOf(d)].exists
    <3>1. RecordEvent(d) /\ Goto(w, "mark", "clean")
      BY <1>4, <2>2, <2>3 DEF Record
    <3>2. /\ Forward /\ IsRecorded(d)' /\ order' \in [Payments -> Orders]
          /\ \A q \in Payments : order'[q].exists = order[q].exists
          /\ ticket' \in [Tickets -> {"none", "valid", "scanned", "void"}]
          /\ \A t \in Tickets : ticket'[t] \in {ticket[t], "void"}
      BY <1>a, <2>2, <2>3, <3>1, EventIsRecorded
    <3>3. "clean" \in Results
      BY DEF Results
    <3>4. /\ wpc' \in [Workers -> {"idle", "record", "fulfil", "quote", "convert", "mark"}]
          /\ job' \in [Workers -> [event : Events \cup {NoJob.event}, result : Results]]
          /\ wpc'[w] = "mark" /\ job'[w].event = d /\ job'[w].result = "clean"
          /\ \A v \in Workers \ {w} : wpc'[v] = wpc[v] /\ job'[v] = job[v]
      BY <1>a, <2>2, <3>1, <3>3, HandlerMoves
    <3>5. Shapes' /\ HandlersOK'
      BY <1>a, <2>1, <2>2, <3>2, <3>4 DEF Shapes, HandlersOK
    <3>6. OrdersOK'
      <4>1. \A q \in Payments : ~ order[q].exists => order'[q] = order[q]
        <5>1. \A q \in Payments \ {PaymentOf(d)} : order'[q] = order[q]
          BY <3>1, <1>a DEF RecordEvent, RecordRefund, RecordFeeRefund, RecordDispute, Shapes
        <5> QED BY <5>1, <2>3
      <4> QED BY <1>a, <2>1, <3>2, <4>1 DEF OrdersOK
    <3>7. \A e \in Events : FiledAsDone(e)' => FiledAsDone(e) \/ e = d
      BY <2>1, <3>4 DEF FiledAsDone
    <3>8. VoidedOK'
      <4> SUFFICES ASSUME NEW q \in Payments, NEW t \in SeatsOf[q], ticket'[t] = "valid",
                          order'[q].refunded = Total \/ FiledAsDone(<<"lost", q, Total>>)'
                   PROVE  t \in undone
        BY <2>1 DEF VoidedOK
      <4>1. /\ <<"lost", q, Total>> \in Events
            /\ KindOf(<<"lost", q, Total>>) = "lost" /\ PaymentOf(<<"lost", q, Total>>) = q
        BY DEF Events, DisputeKinds, KindOf, PaymentOf
      <4>2. t \in Tickets /\ ticket[t] = "valid" /\ ticket' # Voided(q)
        BY <3>2, AfterSaleAssumption DEF Voided
      <4>3. order[q].refunded = Total \/ FiledAsDone(<<"lost", q, Total>>)
        BY <1>a, <2>2, <3>1, <3>7, <4>1, <4>2, EventVoids
      <4> QED BY <1>a, <4>2, <4>3 DEF VoidedOK
    <3> QED BY <1>b, <2>1, <3>2, <3>5, <3>6, <3>7, <3>8
  <2>4. CASE ~ order[PaymentOf(d)].exists
    <3>1. Goto(w, "fulfil", "ORDER_NOT_FOUND") /\ UNCHANGED <<order, ticket, ledger>>
      BY <1>4, <2>2, <2>4 DEF Record, OrderMissing
    <3>2. "ORDER_NOT_FOUND" \in Results
      BY DEF Results
    <3>3. /\ wpc' \in [Workers -> {"idle", "record", "fulfil", "quote", "convert", "mark"}]
          /\ job' \in [Workers -> [event : Events \cup {NoJob.event}, result : Results]]
          /\ wpc'[w] = "fulfil" /\ job'[w].event = d
          /\ \A v \in Workers \ {w} : wpc'[v] = wpc[v] /\ job'[v] = job[v]
      BY <1>a, <2>2, <3>1, <3>2, HandlerMoves
    <3>4. Shapes' /\ HandlersOK' /\ OrdersOK' /\ Forward
      BY <1>a, <2>1, <2>2, <3>1, <3>3, SameBooks DEF Shapes, HandlersOK, OrdersOK
    <3>5. \A e \in Events : FiledAsDone(e)' => FiledAsDone(e)
      BY <2>1, <3>3 DEF FiledAsDone
    <3>6. VoidedOK'
      BY <2>1, <3>1, <3>5, VoidedKept
    <3> QED BY <1>b, <2>1, <3>4, <3>5, <3>6
  <2> QED BY <2>3, <2>4
<1>5. ASSUME NEW w \in Workers, Fulfil(w) \/ Quote(w) PROVE AnsweredInv'
  <2>1. wpc[w] # "idle" /\ UNCHANGED <<hold, order, ticket, undone, ledger, hook, acked, unmarked>>
    BY <1>5 DEF Fulfil, Quote, OnlyWorked, hookVars, saleVars
  <2>2. PICK label \in {"quote", "convert", "mark"}, result \in {"none", "RESERVATION_EXPIRED"} :
            Goto(w, label, result) /\ (label = "mark" => result = "RESERVATION_EXPIRED")
    BY <1>5 DEF Fulfil, Quote
  <2>3. /\ wpc' \in [Workers -> {"idle", "record", "fulfil", "quote", "convert", "mark"}]
        /\ job' \in [Workers -> [event : Events \cup {NoJob.event}, result : Results]]
        /\ wpc'[w] = label /\ job'[w].event = job[w].event /\ job'[w].result = result
        /\ \A v \in Workers \ {w} : wpc'[v] = wpc[v] /\ job'[v] = job[v]
    <3>1. result \in Results /\ label \in {"record", "fulfil", "quote", "convert", "mark"}
      BY <2>2 DEF Results, Permanent
    <3> QED BY <1>a, <2>2, <3>1, HandlerMoves
  <2>4. Shapes' /\ HandlersOK' /\ OrdersOK' /\ Forward
    BY <1>a, <2>1, <2>2, <2>3, SameBooks DEF Shapes, HandlersOK, OrdersOK, Permanent
  <2>5. \A e \in Events : FiledAsDone(e)' => FiledAsDone(e)
    BY <2>1, <2>2, <2>3 DEF FiledAsDone
  <2>6. VoidedOK'
    BY <2>1, <2>5, VoidedKept
  <2> QED BY <1>b, <2>1, <2>4, <2>5, <2>6
<1>c. ASSUME NEW w \in Workers, Convert(w) PROVE AnsweredInv'
  <2>1. wpc[w] = "convert" /\ UNCHANGED <<hook, acked, unmarked, undone>>
    BY <1>c DEF Convert, OnlyWorked, hookVars
  <2>a. PICK d \in Events : d = job[w].event
    BY <1>a, <2>1 DEF HandlersOK
  <2>2. PICK p \in Payments : p = PaymentOf(d)
    BY EventFacts
  <2>3. AfterFulfil(w) \in {"record", "mark"} /\ (AfterFulfil(w) = "mark" <=> KindOf(d) = "completed")
    BY <2>a DEF AfterFulfil
  <2>4. {"clean", "RESERVATION_EXPIRED"} \subseteq Results /\ "RESERVATION_EXPIRED" \in Permanent
    BY DEF Results, Permanent
  <2>5. CASE hold[p] = "gone"
    <3>1. Goto(w, "mark", "RESERVATION_EXPIRED") /\ UNCHANGED <<hold, order, ticket, ledger>>
      BY <1>c, <2>a, <2>2, <2>5 DEF Convert, saleVars
    <3>2. /\ wpc' \in [Workers -> {"idle", "record", "fulfil", "quote", "convert", "mark"}]
          /\ job' \in [Workers -> [event : Events \cup {NoJob.event}, result : Results]]
          /\ wpc'[w] = "mark" /\ job'[w].event = d /\ job'[w].result = "RESERVATION_EXPIRED"
          /\ \A v \in Workers \ {w} : wpc'[v] = wpc[v] /\ job'[v] = job[v]
      BY <1>a, <2>a, <2>4, <3>1, HandlerMoves
    <3>3. Shapes' /\ HandlersOK' /\ OrdersOK' /\ Forward
      BY <1>a, <2>1, <2>2, <2>4, <3>1, <3>2, SameBooks DEF Shapes, HandlersOK, OrdersOK
    <3>4. \A e \in Events : FiledAsDone(e)' => FiledAsDone(e)
      BY <2>1, <3>2 DEF FiledAsDone
    <3>5. VoidedOK'
      BY <2>1, <3>1, <3>4, VoidedKept
    <3> QED BY <1>b, <2>1, <3>3, <3>4, <3>5
  <2>6. ASSUME Goto(w, AfterFulfil(w), "clean"), order' \in [Payments -> Orders], OrdersOK', Forward,
               \A q \in Payments : order'[q].refunded = order[q].refunded,
               \A q \in Payments : \A t \in SeatsOf[q] :
                   ticket'[t] = "valid" => ticket[t] = "valid" \/ ~ order[q].exists,
               hold' \in [Payments -> {"active", "converted", "gone"}],
               ticket' \in [Tickets -> {"none", "valid", "scanned", "void"}],
               order'[p].exists
        PROVE  AnsweredInv'
    <3>1. /\ wpc' \in [Workers -> {"idle", "record", "fulfil", "quote", "convert", "mark"}]
          /\ job' \in [Workers -> [event : Events \cup {NoJob.event}, result : Results]]
          /\ wpc'[w] = AfterFulfil(w) /\ job'[w].event = d /\ job'[w].result = "clean"
          /\ \A v \in Workers \ {w} : wpc'[v] = wpc[v] /\ job'[v] = job[v]
      BY <1>a, <2>a, <2>3, <2>4, <2>6, HandlerMoves
    <3>2. Shapes' /\ HandlersOK'
      BY <1>a, <2>1, <2>2, <2>3, <2>6, <3>1 DEF Shapes, HandlersOK
    <3>3. KindOf(d) = "completed" => IsRecorded(d)'
      <4> SUFFICES ASSUME KindOf(d) = "completed" PROVE IsRecorded(d)'
        OBVIOUS
      <4> QED BY <2>2, <2>6 DEF IsRecorded
    <3>4. \A e \in Events : FiledAsDone(e)' => FiledAsDone(e) \/ (e = d /\ KindOf(d) = "completed")
      BY <2>1, <2>3, <3>1 DEF FiledAsDone
    <3>5. VoidedOK'
      BY <2>1, <2>6, <3>4, VoidedKept
    <3> QED BY <1>b, <2>1, <2>6, <3>2, <3>3, <3>4, <3>5
  <2>7. CASE hold[p] = "converted"
    <3>1. Goto(w, AfterFulfil(w), "clean") /\ UNCHANGED <<hold, order, ticket, ledger>>
      BY <1>c, <2>a, <2>2, <2>7 DEF Convert, saleVars
    <3> QED BY <1>a, <2>2, <2>6, <2>7, <3>1, SameBooks DEF Shapes, OrdersOK
  <2>8. CASE hold[p] = "active"
    <3>1. /\ Goto(w, AfterFulfil(w), "clean") /\ UNCHANGED ledger
          /\ hold' = [hold EXCEPT ![p] = "converted"]
          /\ order' = [order EXCEPT ![p].exists = TRUE]
          /\ ticket' = [t \in Tickets |-> IF t \in SeatsOf[p] THEN "valid" ELSE ticket[t]]
      BY <1>c, <2>a, <2>2, <2>8 DEF Convert
    <3>2. order[p] \in Orders /\ order'[p] = [order[p] EXCEPT !.exists = TRUE]
      BY <1>a, <2>2, <3>1 DEF Shapes
    <3>3. /\ order' \in [Payments -> Orders] /\ order'[p].exists
          /\ order'[p].refunded = order[p].refunded /\ order'[p].fee = order[p].fee
          /\ \A q \in Payments \ {p} : order'[q] = order[q]
      BY <1>a, <2>2, <3>1, <3>2 DEF Shapes, Orders
    <3>4. /\ hold' \in [Payments -> {"active", "converted", "gone"}]
          /\ ticket' \in [Tickets -> {"none", "valid", "scanned", "void"}]
      BY <1>a, <3>1 DEF Shapes
    <3>5. OrdersOK'
      BY <1>a, <2>2, <3>1, <3>3 DEF OrdersOK, Shapes
    <3>6. Forward
      BY <1>a, <3>1, <3>3, AfterSaleAssumption DEF Forward, Shapes, Orders
    <3>7. \A q \in Payments : order'[q].refunded = order[q].refunded
      BY <3>3
    <3>8. \A q \in Payments : \A t \in SeatsOf[q] :
              ticket'[t] = "valid" => ticket[t] = "valid" \/ ~ order[q].exists
      <4>1. ~ order[p].exists
        BY <1>a, <2>8 DEF OrdersOK
      <4>2. \A q \in Payments \ {p} : \A t \in SeatsOf[q] : t \in Tickets /\ t \notin SeatsOf[p]
        BY AfterSaleAssumption
      <4> QED BY <3>1, <4>1, <4>2
    <3> QED BY <2>6, <3>1, <3>3, <3>4, <3>5, <3>6, <3>7, <3>8
  <2> QED BY <1>a, <2>2, <2>5, <2>7, <2>8 DEF Shapes
<1>6. ASSUME NEW w \in Workers, CallFails(w) PROVE AnsweredInv'
  <2>1. wpc[w] # "idle" /\ Goto(w, "mark", "threw") /\ UNCHANGED <<hold, order, ticket, undone, ledger, hook, acked, unmarked>>
    BY <1>6 DEF CallFails, saleVars, hookVars
  <2>2. "threw" \in Results /\ "threw" \in Transient
    BY DEF Results, Transient
  <2>3. /\ wpc' \in [Workers -> {"idle", "record", "fulfil", "quote", "convert", "mark"}]
        /\ job' \in [Workers -> [event : Events \cup {NoJob.event}, result : Results]]
        /\ wpc'[w] = "mark" /\ job'[w].event = job[w].event /\ job'[w].result = "threw"
        /\ \A v \in Workers \ {w} : wpc'[v] = wpc[v] /\ job'[v] = job[v]
    BY <1>a, <2>1, <2>2, HandlerMoves
  <2>4. Shapes' /\ HandlersOK' /\ OrdersOK' /\ Forward
    BY <1>a, <2>1, <2>2, <2>3, SameBooks DEF Shapes, HandlersOK, OrdersOK
  <2>5. \A e \in Events : FiledAsDone(e)' => FiledAsDone(e)
    BY <2>1, <2>3 DEF FiledAsDone
  <2>6. VoidedOK'
    BY <2>1, <2>5, VoidedKept
  <2> QED BY <1>b, <2>1, <2>4, <2>5, <2>6
<1>7. ASSUME NEW w \in Workers, WorkerDies(w) PROVE AnsweredInv'
  <2>1. Free(w) /\ UNCHANGED <<hold, order, ticket, undone, ledger, hook, acked, unmarked>>
    BY <1>7 DEF WorkerDies, saleVars, hookVars
  <2>2. /\ wpc' \in [Workers -> {"idle", "record", "fulfil", "quote", "convert", "mark"}]
        /\ job' \in [Workers -> [event : Events \cup {NoJob.event}, result : Results]]
        /\ wpc'[w] = "idle" /\ \A v \in Workers \ {w} : wpc'[v] = wpc[v] /\ job'[v] = job[v]
    BY <1>a, <2>1, HandlerFreed
  <2>3. Shapes' /\ HandlersOK' /\ OrdersOK' /\ Forward
    BY <1>a, <2>1, <2>2, SameBooks DEF Shapes, HandlersOK, OrdersOK
  <2>4. \A e \in Events : FiledAsDone(e)' => FiledAsDone(e)
    BY <2>1, <2>2 DEF FiledAsDone
  <2>5. VoidedOK'
    BY <2>1, <2>4, VoidedKept
  <2> QED BY <1>b, <2>1, <2>3, <2>4, <2>5
<1>8. ASSUME NEW w \in Workers, Answer(w) PROVE AnsweredInv'
  <2>0. PICK d \in Events : d = job[w].event
    BY <1>a, <1>8 DEF HandlersOK, Answer
  <2>1. /\ wpc[w] = "mark" /\ Free(w) /\ UNCHANGED <<hold, order, ticket, undone, ledger>>
        /\ Mark(d, job[w].result)
        /\ acked' = IF AnsweredOk(job[w].result) THEN acked \cup {d} ELSE acked \ {d}
    BY <1>8, <2>0 DEF Answer, saleVars
  <2>2. d \in Events /\ job[w].result \in {"clean"} \cup Permanent \cup Transient /\ job[w].result \in Results
    BY <1>a, <2>0, <2>1 DEF HandlersOK, Results
  <2>3. /\ wpc' \in [Workers -> {"idle", "record", "fulfil", "quote", "convert", "mark"}]
        /\ job' \in [Workers -> [event : Events \cup {NoJob.event}, result : Results]]
        /\ wpc'[w] = "idle" /\ \A v \in Workers \ {w} : wpc'[v] = wpc[v] /\ job'[v] = job[v]
    BY <1>a, <2>1, HandlerFreed
  <2>4. /\ hook' \in [Events -> {"none", "claimed"} \cup Results]
        /\ hook'[d] \in {hook[d], job[w].result}
        /\ job[w].result \in Permanent => hook'[d] = job[w].result \/ d \in unmarked'
        /\ \A e : e # d => hook'[e] = hook[e] /\ (e \in unmarked => e \in unmarked')
    <3>1. CASE /\ hook' = [hook EXCEPT ![d] = job[w].result]
               /\ unmarked' = unmarked \ {d}
      BY <1>a, <2>2, <3>1 DEF Shapes
    <3>2. CASE /\ unmarked' = IF job[w].result \in Permanent THEN unmarked \cup {d} ELSE unmarked \ {d}
               /\ UNCHANGED hook
      BY <1>a, <2>2, <3>2 DEF Shapes
    <3> QED BY <2>1, <3>1, <3>2 DEF Mark
  <2>5. Base'
    BY <1>a, <2>1, <2>3, <2>4 DEF Base, Shapes, HandlersOK, OrdersOK
  <2>6. \A e \in Events : FiledAsDone(e)' => FiledAsDone(e)
    BY <2>0, <2>1, <2>3, <2>4 DEF FiledAsDone
  <2>7. \A e : IsRecorded(e)' = IsRecorded(e)
    BY <2>1 DEF IsRecorded
  <2>8. job[w].result = "clean" => IsRecorded(d)
    BY <1>a, <2>0, <2>1, <2>2 DEF FiledAsDone
  <2>9. \A e \in acked' : IsRecorded(e)' \/ hook'[e] \in Permanent \/ e \in unmarked'
    BY <1>a, <2>1, <2>2, <2>4, <2>7, <2>8 DEF AnsweredMeansRecorded, AnsweredOk
  <2>10. VoidedOK'
    BY <2>1, <2>6, VoidedKept
  <2> QED BY <1>a, <2>5, <2>6, <2>7, <2>9, <2>10 DEF AnsweredInv, AnsweredMeansRecorded
<1>9. CASE UNCHANGED vars
  <2>1. UNCHANGED <<hold, order, ticket, undone, ledger, hook, acked, unmarked, wpc, job>>
    BY <1>9 DEF vars, saleVars, hookVars, workVars
  <2> QED BY <1>a, <2>1 DEF AnsweredInv, Base, Shapes, HandlersOK, OrdersOK, FiledAsDone,
                            AnsweredMeansRecorded, IsRecorded, VoidedOK
<1> QED BY <1>1, <1>2, <1>3, <1>4, <1>5, <1>c, <1>6, <1>7, <1>8, <1>9 DEF Next, WorkerStep

LEMMA AnsweredAlways == Spec => []AnsweredInv
BY InitAnswered, AnsweredStep, PTL DEF Spec

\* No event of an order is acknowledged before it is recorded or left to the
\* operator (withOrder, recordAfterSale, mark), for any number of payments,
\* events and handlers, however they are repeated, reordered or die, but for a
\* refusal that mark could not write.
THEOREM AnsweredMeansRecordedHolds == Spec => []AnsweredMeansRecorded
<1>1. AnsweredInv => AnsweredMeansRecorded
  BY DEF AnsweredInv
<1> QED BY <1>1, AnsweredAlways, PTL

\* No ticket of an order refunded in full, or whose dispute was lost, can be used
\* at the door unless the door reversed its check-in (record_stripe_refund,
\* record_stripe_dispute), in whatever order Stripe's events came.
THEOREM RefundedTicketsAreVoidHolds == Spec => []RefundedTicketsAreVoid
<1>1. AnsweredInv => RefundedTicketsAreVoid
  BY DEF AnsweredInv, VoidedOK, FiledAsDone, RefundedTicketsAreVoid
<1> QED BY <1>1, AnsweredAlways, PTL
-----------------------------------------------------------------------------
(* Sums over finite sets: the library's fold, by first-order induction *)

\* The element a fold over set s takes first.
Pick(s) == CHOOSE x \in s : TRUE

\* f is the function by which the fold over S is defined.
SumsUp(S, f) ==
    f = [s \in SUBSET S |-> IF s = {} THEN 0 ELSE Pick(s).amount + f[s \ {Pick(s)}]]

Sum(S) == MapThenSumSet(LAMBDA x : x.amount, S)

LEMMA Smallest ==
    ASSUME NEW S, IsFiniteSet(S), NEW B, B \subseteq SUBSET S, B # {}
    PROVE  \E T \in B : \A U \in B : U \subseteq T => U = T
<1> DEFINE R == StrictSubsetOrdering(S)
<1>1. IsWellFoundedOn(R, SUBSET S)
  BY FS_StrictSubsetOrderingWellFounded, FS_FiniteSubsetsOfFinite
<1>2. R = {ss \in (SUBSET S) \X (SUBSET S) : ss[1] \subseteq ss[2] /\ ss[1] # ss[2]}
  BY DEF StrictSubsetOrdering
<1> HIDE DEF R
<1>3. PICK T \in B : \A U \in B : ~ (<<U, T>> \in R)
  BY <1>1, WFMin
<1>4. ASSUME NEW U \in B, U \subseteq T PROVE U = T
  <2>1. U \in SUBSET S /\ T \in SUBSET S
    OBVIOUS
  <2>2. <<U, T>> \in (SUBSET S) \X (SUBSET S) /\ <<U, T>>[1] = U /\ <<U, T>>[2] = T
    BY <2>1
  <2> QED BY <1>2, <1>3, <1>4, <2>2
<1> QED BY <1>4

LEMMA PickIn ==
    ASSUME NEW s, s # {}
    PROVE  Pick(s) \in s
BY DEF Pick

LEMMA SumsUpOnce ==
    ASSUME NEW S, IsFiniteSet(S), NEW f, NEW g, SumsUp(S, f), SumsUp(S, g)
    PROVE  f = g
<1> DEFINE B == {s \in SUBSET S : f[s] # g[s]}
<1>1. CASE B = {}
  <2>1. \A s \in SUBSET S : f[s] = g[s]
    BY <1>1
  <2> HIDE DEF B
  <2>2. DOMAIN f = SUBSET S /\ DOMAIN g = SUBSET S
    BY DEF SumsUp
  <2>3. f = [s \in DOMAIN f |-> f[s]]
    BY Zenon DEF SumsUp
  <2>4. g = [s \in DOMAIN g |-> g[s]]
    BY Zenon DEF SumsUp
  <2> QED BY <2>1, <2>2, <2>3, <2>4
<1>2. CASE B # {}
  <2>a. B \subseteq SUBSET S
    OBVIOUS
  <2> HIDE DEF B
  <2>1. PICK s \in B : \A u \in B : u \subseteq s => u = s
    BY <1>2, <2>a, Smallest
  <2> USE DEF B
  <2>2. s \in SUBSET S /\ f[s] # g[s]
    BY <2>1
  <2>3. s # {}
    BY <2>2 DEF SumsUp
  <2>4. Pick(s) \in s /\ s \ {Pick(s)} \in SUBSET S
    BY <2>2, <2>3, PickIn
  <2>5. f[s \ {Pick(s)}] = g[s \ {Pick(s)}]
    BY <2>1, <2>4
  <2>6. f[s] = Pick(s).amount + f[s \ {Pick(s)}] /\ g[s] = Pick(s).amount + g[s \ {Pick(s)}]
    BY <2>2, <2>3 DEF SumsUp
  <2> QED BY <2>2, <2>5, <2>6
<1> QED BY <1>1, <1>2

LEMMA SumsUpWithin ==
    ASSUME NEW S, NEW f, SumsUp(S, f), NEW T \in SUBSET S
    PROVE  SumsUp(T, [s \in SUBSET T |-> f[s]])
<1> DEFINE g == [s \in SUBSET T |-> f[s]]
<1>1. \A s \in SUBSET T : f[s] = IF s = {} THEN 0 ELSE Pick(s).amount + f[s \ {Pick(s)}]
  BY DEF SumsUp
<1>2. \A s \in SUBSET T : s \ {Pick(s)} \in SUBSET T
  OBVIOUS
<1>3. \A s \in SUBSET T : g[s] = IF s = {} THEN 0 ELSE Pick(s).amount + g[s \ {Pick(s)}]
  BY <1>1, <1>2
<1> QED BY <1>3 DEF SumsUp

LEMMA SumIs ==
    ASSUME NEW S
    PROVE  Sum(S) = (CHOOSE f : SumsUp(S, f))[S]
BY DEF Sum, MapThenSumSet, MapThenFoldSet, SumsUp, Pick

\* The function exists, and gives the sum of every subset.
LEMMA SumsUpAlways ==
    ASSUME NEW S, IsFiniteSet(S)
    PROVE  \E f : SumsUp(S, f)
<1> DEFINE B == {T \in SUBSET S : ~ \E f : SumsUp(T, f)}
<1> SUFFICES ASSUME B # {} PROVE FALSE
  OBVIOUS
<1>0. B \subseteq SUBSET S
  OBVIOUS
<1> HIDE DEF B
<1>1. PICK T \in B : \A U \in B : U \subseteq T => U = T
  BY <1>0, Smallest
<1> USE DEF B
<1>2. T \in SUBSET S /\ IsFiniteSet(T) /\ ~ \E f : SumsUp(T, f)
  BY <1>1, FS_Subset
<1>3. \A U \in SUBSET T : U # T => \E f : SumsUp(U, f)
  BY <1>1
<1> HIDE DEF B
<1>4. ASSUME NEW U \in SUBSET T, U # T, NEW s \in SUBSET U
      PROVE  (CHOOSE f : SumsUp(U, f))[s] = Sum(s)
  <2> DEFINE f == CHOOSE f : SumsUp(U, f)
  <2> DEFINE g == CHOOSE g : SumsUp(s, g)
  <2>1. SumsUp(U, f)
    BY <1>3, <1>4
  <2> HIDE DEF f
  <2>2. SumsUp(s, [u \in SUBSET s |-> f[u]])
    BY <2>1, SumsUpWithin
  <2>3. SumsUp(s, g)
    BY <2>2
  <2> HIDE DEF g
  <2>4. IsFiniteSet(s)
    BY <1>2, <1>4, FS_Subset
  <2>5. g = [u \in SUBSET s |-> f[u]]
    BY <2>2, <2>3, <2>4, SumsUpOnce
  <2>6. g[s] = f[s]
    BY <2>5
  <2> QED BY <2>6, SumIs DEF f, g
<1> DEFINE h == [s \in SUBSET T |-> IF s = {} THEN 0 ELSE Pick(s).amount + Sum(s \ {Pick(s)})]
<1>5. ASSUME NEW s \in SUBSET T, s # T PROVE h[s] = Sum(s)
  <2> DEFINE f == CHOOSE f : SumsUp(s, f)
  <2>1. SumsUp(s, f)
    BY <1>3, <1>5
  <2>2. f[s] = Sum(s)
    BY SumIs
  <2>3. CASE s = {}
    <3>1. f[s] = 0
      BY <2>1, <2>3 DEF SumsUp
    <3> HIDE DEF f
    <3> QED BY <2>2, <2>3, <3>1
  <2>4. CASE s # {}
    <3>1. f[s \ {Pick(s)}] = Sum(s \ {Pick(s)})
      BY <1>4, <1>5
    <3> HIDE DEF f
    <3>2. f[s] = Pick(s).amount + f[s \ {Pick(s)}]
      BY <2>1, <2>4 DEF SumsUp
    <3> QED BY <2>2, <2>4, <3>1, <3>2
  <2> QED BY <2>3, <2>4
<1>6. SumsUp(T, h)
  <2>1. \A s \in SUBSET T : s # {} => h[s \ {Pick(s)}] = Sum(s \ {Pick(s)})
    <3> SUFFICES ASSUME NEW s \in SUBSET T, s # {} PROVE h[s \ {Pick(s)}] = Sum(s \ {Pick(s)})
      OBVIOUS
    <3>1. Pick(s) \in s /\ s \ {Pick(s)} \in SUBSET T /\ s \ {Pick(s)} # T
      BY PickIn
    <3> HIDE DEF h
    <3> QED BY <1>5, <3>1
  <2> QED BY <2>1 DEF SumsUp
<1> QED BY <1>2, <1>6

LEMMA SumEmpty == Sum({}) = 0
<1> DEFINE f == CHOOSE f : SumsUp({}, f)
<1>1. SumsUp({}, f)
  BY FS_EmptySet, SumsUpAlways
<1>2. Sum({}) = f[{}]
  BY SumIs
<1> HIDE DEF f
<1> QED BY <1>1, <1>2 DEF SumsUp

LEMMA SumPicks ==
    ASSUME NEW S, IsFiniteSet(S), S # {}
    PROVE  Sum(S) = Pick(S).amount + Sum(S \ {Pick(S)})
<1> DEFINE f == CHOOSE f : SumsUp(S, f)
<1> DEFINE T == S \ {Pick(S)}
<1> DEFINE g == CHOOSE g : SumsUp(T, g)
<1>1. SumsUp(S, f)
  BY SumsUpAlways
<1>2. Sum(S) = f[S] /\ Sum(T) = g[T]
  BY SumIs
<1> HIDE DEF f
<1>3. SumsUp(T, [u \in SUBSET T |-> f[u]])
  BY <1>1, SumsUpWithin
<1>4. SumsUp(T, g)
  BY <1>3
<1> HIDE DEF g
<1>5. g = [u \in SUBSET T |-> f[u]]
  BY <1>3, <1>4, FS_Subset, SumsUpOnce
<1>6. g[T] = f[T]
  BY <1>5
<1>7. f[S] = Pick(S).amount + f[S \ {Pick(S)}]
  BY <1>1 DEF SumsUp
<1> QED BY <1>2, <1>6, <1>7

Amounts(S) == \A x \in S : x.amount \in Int

LEMMA SumIsInt ==
    ASSUME NEW S, IsFiniteSet(S), Amounts(S)
    PROVE  Sum(S) \in Int
<1> DEFINE B == {T \in SUBSET S : Sum(T) \notin Int}
<1> SUFFICES ASSUME B # {} PROVE FALSE
  OBVIOUS
<1>0. B \subseteq SUBSET S
  OBVIOUS
<1> HIDE DEF B
<1>1. PICK T \in B : \A U \in B : U \subseteq T => U = T
  BY <1>0, Smallest
<1> USE DEF B
<1>2. T \in SUBSET S /\ IsFiniteSet(T) /\ Sum(T) \notin Int
  BY <1>1, FS_Subset
<1>3. T # {}
  BY <1>2, SumEmpty
<1>4. Pick(T) \in T /\ T \ {Pick(T)} \in SUBSET S
  BY <1>2, <1>3, PickIn
<1>5. Sum(T \ {Pick(T)}) \in Int /\ Pick(T).amount \in Int
  BY <1>1, <1>2, <1>4 DEF Amounts
<1> QED BY <1>2, <1>3, <1>5, SumPicks

\* Whatever element the fold takes first, any element can be taken out.
LEMMA SumRemoves ==
    ASSUME NEW S, IsFiniteSet(S), Amounts(S), NEW x \in S
    PROVE  Sum(S) = x.amount + Sum(S \ {x})
<1> DEFINE Splits(T) == \A a \in T : Sum(T) = a.amount + Sum(T \ {a})
<1> DEFINE B == {T \in SUBSET S : ~ Splits(T)}
<1> SUFFICES ASSUME B # {} PROVE FALSE
  OBVIOUS
<1>0. B \subseteq SUBSET S
  OBVIOUS
<1> HIDE DEF B
<1>1. PICK T \in B : \A U \in B : U \subseteq T => U = T
  BY <1>0, Smallest
<1> USE DEF B
<1>2. T \in SUBSET S /\ IsFiniteSet(T) /\ ~ Splits(T)
  BY <1>1, FS_Subset
<1>3. \A U \in SUBSET T : U # T => Splits(U)
  BY <1>1, <1>2
<1> HIDE DEF B
<1>4. PICK a \in T : Sum(T) # a.amount + Sum(T \ {a})
  BY <1>2
<1>5. PICK b \in T : b = Pick(T)
  BY <1>4, PickIn
<1>6. Sum(T) = b.amount + Sum(T \ {b})
  BY <1>2, <1>5, SumPicks
<1>7. a # b
  BY <1>4, <1>6
<1>8. Sum(T \ {b}) = a.amount + Sum((T \ {b}) \ {a})
  BY <1>3, <1>7
<1>9. Sum(T \ {a}) = b.amount + Sum((T \ {a}) \ {b})
  BY <1>3, <1>7
<1>10. (T \ {a}) \ {b} = (T \ {b}) \ {a}
  OBVIOUS
<1>11. Sum((T \ {a}) \ {b}) \in Int /\ a.amount \in Int /\ b.amount \in Int
  <2>1. (T \ {a}) \ {b} \in SUBSET S
    BY <1>2
  <2> QED BY <1>2, <2>1, FS_Subset, SumIsInt DEF Amounts
<1> HIDE DEF Splits
<1>12. PICK r \in Int, m \in Int, n \in Int : r = Sum((T \ {a}) \ {b}) /\ m = a.amount /\ n = b.amount
  BY <1>11
<1>13. Sum(T \ {b}) = m + r
  BY <1>8, <1>10, <1>12
<1>14. Sum(T \ {a}) = n + r
  BY <1>9, <1>12
<1>15. Sum(T) = n + (m + r)
  BY <1>6, <1>12, <1>13
<1>16. Sum(T) # m + (n + r)
  BY <1>4, <1>12, <1>14
<1> QED BY <1>15, <1>16, n + (m + r) = m + (n + r)

LEMMA SumAdds ==
    ASSUME NEW S, IsFiniteSet(S), Amounts(S), NEW x, x \notin S, x.amount \in Int
    PROVE  Sum(S \cup {x}) = Sum(S) + x.amount
<1>1. IsFiniteSet(S \cup {x}) /\ Amounts(S \cup {x}) /\ (S \cup {x}) \ {x} = S
  BY FS_AddElement DEF Amounts
<1>2. Sum(S \cup {x}) = x.amount + Sum(S)
  BY <1>1, SumRemoves
<1> QED BY <1>2, SumIsInt

-----------------------------------------------------------------------------
(* The books *)

AllKinds == {"refund", "fee"} \cup DisputeKinds
Cases == [refunded : 0..Total, fee : 0..Fee, dispute : DisputeKinds \cup {"none"}]
HasEntry(key) == \E x \in ledger : x.key = key

\* Nothing is handled that Stripe did not send.
SentOK ==
    /\ sent \subseteq Events
    /\ \A w \in Workers : wpc[w] # "idle" => job[w].event \in sent

\* What Stripe sends of a payment tells all that happened to it: each figure was
\* the last of its kind, and each movement of a dispute once.
StripeOK ==
    /\ stripe \in [Payments -> Cases]
    /\ \A p \in Payments :
        /\ \A n \in 1..Total : <<"refund", p, n>> \in sent => n <= stripe[p].refunded
        /\ \A n \in 1..Fee : <<"fee", p, n>> \in sent => n <= stripe[p].fee
        /\ stripe[p].refunded # 0 => <<"refund", p, stripe[p].refunded>> \in sent
        /\ stripe[p].fee # 0 => <<"fee", p, stripe[p].fee>> \in sent
        /\ <<"withdrawn", p, Total>> \in sent <=> stripe[p].dispute # "none"
        /\ <<"reinstated", p, Total>> \in sent <=> stripe[p].dispute = "reinstated"

\* An idempotency key the next event would use is not taken.
EntriesOK ==
    /\ IsFiniteSet(ledger) /\ Amounts(ledger)
    /\ \A p \in Payments :
        /\ \A n \in 1..Total : n > order[p].refunded => ~ HasEntry(<<"refund", p, n>>)
        /\ \A n \in 1..Fee : n > order[p].fee => ~ HasEntry(<<"fee", p, n>>)
        /\ \A kind \in {"withdrawn", "reinstated"} : HasEntry(<<kind, p, 0>>) => <<kind, p, Total>> \in sent

Moved(p) == (IF HasEntry(<<"withdrawn", p, 0>>) THEN -Total ELSE 0)
            + (IF HasEntry(<<"reinstated", p, 0>>) THEN Total ELSE 0)

\* The ledger's balances, by what is recorded in the order and the keys taken.
SumsOK ==
    \A p \in Payments :
        /\ order[p].refunded <= stripe[p].refunded /\ order[p].fee <= stripe[p].fee
        /\ LedgerSum(p, {"refund"}) = -order[p].refunded
        /\ LedgerSum(p, {"fee"}) = order[p].fee
        /\ LedgerSum(p, AllKinds) = order[p].fee - order[p].refunded + Moved(p)

BooksInv == SentOK /\ StripeOK /\ EntriesOK /\ SumsOK

\* The balance of a payment, of the given kinds, in the ledger L.
Balance(L, p, kinds) == Sum({x \in L : x.key[1] \in kinds /\ x.key[2] = p})

LEMMA LedgerSumIs ==
    \A p, kinds : /\ LedgerSum(p, kinds) = Balance(ledger, p, kinds)
                  /\ LedgerSum(p, kinds)' = Balance(ledger', p, kinds)
<1> SUFFICES ASSUME NEW p, NEW kinds
             PROVE  /\ LedgerSum(p, kinds) = Balance(ledger, p, kinds)
                    /\ LedgerSum(p, kinds)' = Balance(ledger', p, kinds)
  OBVIOUS
<1>1. LedgerSum(p, kinds) = Balance(ledger, p, kinds)
  BY DEF LedgerSum, Balance, Sum
<1>2. LedgerSum(p, kinds)' = Balance(ledger', p, kinds)
  <2>1. (LedgerSum(p, kinds) = Sum({x \in ledger : x.key[1] \in kinds /\ x.key[2] = p}))'
    BY Zenon DEF LedgerSum, Sum
  <2> QED BY <2>1 DEF Balance
<1> QED BY <1>1, <1>2

LEMMA InitBooks == Init => BooksInv
<1> SUFFICES ASSUME Init PROVE BooksInv
  OBVIOUS
<1>1. SentOK
  BY DEF Init, SentOK, Events
<1>2. StripeOK
  BY AfterSaleAssumption DEF Init, StripeOK, NoCase, Cases
<1>3. EntriesOK
  BY FS_EmptySet DEF Init, EntriesOK, HasEntry, Amounts
<1>4. \A p, kinds : LedgerSum(p, kinds) = 0
  <2>1. \A p, kinds : {x \in ledger : x.key[1] \in kinds /\ x.key[2] = p} = {}
    BY DEF Init
  <2> QED BY <2>1, LedgerSumIs, SumEmpty DEF Balance
<1>5. SumsOK
  BY <1>4 DEF Init, SumsOK, NoOrder, NoCase, Moved, HasEntry
<1> QED BY <1>1, <1>2, <1>3, <1>5 DEF BooksInv

\* A new entry counts once, for its payment and its kind.
LEMMA EntryCounts ==
    ASSUME IsFiniteSet(ledger), Amounts(ledger), NEW key, NEW a \in Int, ~ HasEntry(key),
           ledger' = WithEntry(key, a)
    PROVE  /\ IsFiniteSet(ledger') /\ Amounts(ledger')
           /\ \A k : HasEntry(k)' <=> k = key \/ HasEntry(k)
           /\ \A p, kinds : LedgerSum(p, kinds)' =
                  LedgerSum(p, kinds) + (IF key[1] \in kinds /\ key[2] = p THEN a ELSE 0)
<1> DEFINE new == [key |-> key, amount |-> a]
<1>1. new.key = key /\ new.amount = a /\ ledger' = ledger \cup {new} /\ new \notin ledger
  BY DEF WithEntry, HasEntry
<1> HIDE DEF new
<1>2. IsFiniteSet(ledger') /\ Amounts(ledger')
  BY <1>1, FS_AddElement DEF Amounts
<1>3. \A k : HasEntry(k)' <=> k = key \/ HasEntry(k)
  BY <1>1 DEF HasEntry
<1>4. ASSUME NEW p, NEW kinds
      PROVE  LedgerSum(p, kinds)' = LedgerSum(p, kinds) + (IF key[1] \in kinds /\ key[2] = p THEN a ELSE 0)
  <2> DEFINE S == {x \in ledger : x.key[1] \in kinds /\ x.key[2] = p}
  <2> DEFINE T == {x \in ledger' : x.key[1] \in kinds /\ x.key[2] = p}
  <2>1. LedgerSum(p, kinds) = Sum(S) /\ LedgerSum(p, kinds)' = Sum(T)
    BY LedgerSumIs DEF Balance
  <2>3. IsFiniteSet(S) /\ Amounts(S) /\ new \notin S
    BY <1>1, FS_Subset DEF Amounts
  <2>4. CASE key[1] \in kinds /\ key[2] = p
    <3>1. T = S \cup {new}
      BY <1>1, <2>4
    <3> HIDE DEF S, T
    <3> QED BY <1>1, <2>1, <2>3, <2>4, <3>1, SumAdds
  <2>5. CASE ~ (key[1] \in kinds /\ key[2] = p)
    <3>1. T = S
      BY <1>1, <2>5
    <3>2. Sum(S) \in Int
      BY <2>3, SumIsInt
    <3> HIDE DEF S, T
    <3> QED BY <2>1, <2>5, <3>1, <3>2
  <2> QED BY <2>4, <2>5
<1> QED BY <1>2, <1>3, <1>4

\* A step that records nothing.
LEMMA BooksStay ==
    ASSUME BooksInv, SentOK', UNCHANGED <<ledger, stripe, sent>>,
           \A q \in Payments : order'[q].refunded = order[q].refunded /\ order'[q].fee = order[q].fee
    PROVE  BooksInv'
<1>1. StripeOK'
  BY DEF BooksInv, StripeOK
<1>2. EntriesOK'
  BY DEF BooksInv, EntriesOK, HasEntry
<1>3. SumsOK'
  <2>1. \A p, kinds : LedgerSum(p, kinds)' = LedgerSum(p, kinds)
    BY LedgerSumIs
  <2>2. \A p : Moved(p)' = Moved(p)
    BY DEF Moved, HasEntry
  <2> QED BY <2>1, <2>2 DEF BooksInv, SumsOK
<1> QED BY <1>1, <1>2, <1>3 DEF BooksInv

\* What Stripe does to a charge is sent, once, and not recorded yet.
LEMMA StripeMoves ==
    ASSUME Shapes, BooksInv, NEW p \in Payments, StripeRefunds(p) \/ StripeRefundsFee(p) \/ StripeDisputes(p)
    PROVE  BooksInv'
<1>1. UNCHANGED <<order, ledger, wpc, job>>
  BY DEF StripeRefunds, StripeRefundsFee, StripeDisputes, Happens, saleVars, workVars
<1>2. PICK case, kind, n : Happens(p, case, kind, n) /\ <<kind, p, n>> \in Events
        /\ case \in Cases
        /\ case.refunded >= stripe[p].refunded /\ case.fee >= stripe[p].fee
        /\ \/ /\ kind = "refund" /\ case.refunded = n
              /\ case.fee = stripe[p].fee /\ case.dispute = stripe[p].dispute
           \/ /\ kind = "fee" /\ case.fee = n
              /\ case.refunded = stripe[p].refunded /\ case.dispute = stripe[p].dispute
           \/ /\ kind \in DisputeKinds /\ n = Total /\ case.dispute = kind
              /\ case.refunded = stripe[p].refunded /\ case.fee = stripe[p].fee
              /\ <<stripe[p].dispute, kind>> \in {<<"none", "withdrawn">>, <<"withdrawn", "won">>,
                                                 <<"withdrawn", "lost">>, <<"won", "reinstated">>}
  <2>1. stripe[p] \in Cases /\ Total \in Nat /\ Fee \in Nat
    BY AfterSaleAssumption DEF BooksInv, StripeOK
  <2>2. CASE StripeRefunds(p)
    BY <2>1, <2>2 DEF StripeRefunds, Events, Cases
  <2>3. CASE StripeRefundsFee(p)
    BY <2>1, <2>3 DEF StripeRefundsFee, Events, Cases
  <2>4. CASE StripeDisputes(p)
    BY <2>1, <2>4 DEF StripeDisputes, Events, DisputeKinds, Cases
  <2> QED BY <2>2, <2>3, <2>4
<1>3. sent' = sent \cup {<<kind, p, n>>} /\ stripe' = [stripe EXCEPT ![p] = case]
  BY <1>2 DEF Happens
<1>4. SentOK'
  BY <1>1, <1>2, <1>3 DEF BooksInv, SentOK
<1>5. StripeOK'
  <2>1. stripe' \in [Payments -> Cases] /\ stripe'[p] = case
    BY <1>2, <1>3 DEF BooksInv, StripeOK
  <2>2. case.refunded \in Int /\ case.fee \in Int /\ stripe[p].refunded \in Int /\ stripe[p].fee \in Int
    BY <1>2, AfterSaleAssumption DEF BooksInv, StripeOK, Cases
  <2>3. ASSUME NEW q \in Payments \ {p}, NEW k, NEW m
        PROVE  stripe'[q] = stripe[q] /\ (<<k, q, m>> \in sent' <=> <<k, q, m>> \in sent)
    BY <1>3 DEF BooksInv, StripeOK
  <2>4. ASSUME NEW k, NEW m
        PROVE  <<k, p, m>> \in sent' <=> <<k, p, m>> \in sent \/ (k = kind /\ m = n)
    BY <1>3
  <2>a. /\ \A m \in 1..Total : <<"refund", p, m>> \in sent => m <= stripe[p].refunded
        /\ \A m \in 1..Fee : <<"fee", p, m>> \in sent => m <= stripe[p].fee
        /\ stripe[p].refunded # 0 => <<"refund", p, stripe[p].refunded>> \in sent
        /\ stripe[p].fee # 0 => <<"fee", p, stripe[p].fee>> \in sent
        /\ <<"withdrawn", p, Total>> \in sent <=> stripe[p].dispute # "none"
        /\ <<"reinstated", p, Total>> \in sent <=> stripe[p].dispute = "reinstated"
    BY DEF BooksInv, StripeOK
  <2>5. \A m \in 1..Total : <<"refund", p, m>> \in sent' => m <= case.refunded
    BY <1>2, <2>2, <2>4, <2>a DEF DisputeKinds
  <2>b. case.refunded # 0 => <<"refund", p, case.refunded>> \in sent'
    BY <1>2, <2>2, <2>4, <2>a
  <2>6. \A m \in 1..Fee : <<"fee", p, m>> \in sent' => m <= case.fee
    BY <1>2, <2>2, <2>4, <2>a DEF DisputeKinds
  <2>c. case.fee # 0 => <<"fee", p, case.fee>> \in sent'
    BY <1>2, <2>2, <2>4, <2>a
  <2>7. /\ <<"withdrawn", p, Total>> \in sent' <=> case.dispute # "none"
        /\ <<"reinstated", p, Total>> \in sent' <=> case.dispute = "reinstated"
    BY <1>2, <2>4, <2>a DEF DisputeKinds
  <2>8. \A q \in Payments \ {p} :
            /\ \A m \in 1..Total : <<"refund", q, m>> \in sent' => m <= stripe'[q].refunded
            /\ \A m \in 1..Fee : <<"fee", q, m>> \in sent' => m <= stripe'[q].fee
            /\ stripe'[q].refunded # 0 => <<"refund", q, stripe'[q].refunded>> \in sent'
            /\ stripe'[q].fee # 0 => <<"fee", q, stripe'[q].fee>> \in sent'
            /\ <<"withdrawn", q, Total>> \in sent' <=> stripe'[q].dispute # "none"
            /\ <<"reinstated", q, Total>> \in sent' <=> stripe'[q].dispute = "reinstated"
    BY <2>3 DEF BooksInv, StripeOK
  <2>d. \A q \in Payments : q = p \/ q \in Payments \ {p}
    OBVIOUS
  <2> QED BY <2>1, <2>5, <2>6, <2>7, <2>8, <2>b, <2>c, <2>d DEF StripeOK
<1>6. EntriesOK'
  BY <1>1, <1>3 DEF BooksInv, EntriesOK, HasEntry
<1>7. SumsOK'
  <2>1. \A q, kinds : LedgerSum(q, kinds)' = LedgerSum(q, kinds)
    BY <1>1, LedgerSumIs
  <2>2. \A q : Moved(q)' = Moved(q)
    BY <1>1 DEF Moved, HasEntry
  <2>3. /\ \A q \in Payments \ {p} : stripe'[q] = stripe[q]
        /\ stripe'[p] = case
    BY <1>3 DEF BooksInv, StripeOK
  <2>a. /\ order[p].refunded \in Int /\ order[p].fee \in Int
        /\ stripe[p].refunded \in Int /\ stripe[p].fee \in Int
        /\ case.refunded \in Int /\ case.fee \in Int
    BY <1>2, AfterSaleAssumption DEF Shapes, Orders, BooksInv, StripeOK, Cases
  <2>b. order[p].refunded <= stripe[p].refunded /\ order[p].fee <= stripe[p].fee
    BY DEF BooksInv, SumsOK
  <2>4. order[p].refunded <= case.refunded /\ order[p].fee <= case.fee
    BY <1>2, <2>a, <2>b
  <2> QED BY <1>1, <2>1, <2>2, <2>3, <2>4 DEF BooksInv, SumsOK
<1> QED BY <1>4, <1>5, <1>6, <1>7 DEF BooksInv
\* An entry moves the balances of one payment, by what it moves its figures.
LEMMA SumsMove ==
    ASSUME Shapes, BooksInv, UNCHANGED stripe, NEW p \in Payments,
           NEW r \in Int, NEW f \in Int, NEW m \in Int,
           order'[p].refunded = order[p].refunded + r, order'[p].fee = order[p].fee + f,
           Moved(p)' = Moved(p) + m,
           order'[p].refunded <= stripe[p].refunded, order'[p].fee <= stripe[p].fee,
           LedgerSum(p, {"refund"})' = LedgerSum(p, {"refund"}) - r,
           LedgerSum(p, {"fee"})' = LedgerSum(p, {"fee"}) + f,
           LedgerSum(p, AllKinds)' = LedgerSum(p, AllKinds) + f - r + m,
           \A q \in Payments \ {p} :
               /\ order'[q].refunded = order[q].refunded /\ order'[q].fee = order[q].fee
               /\ Moved(q)' = Moved(q)
               /\ \A kinds : LedgerSum(q, kinds)' = LedgerSum(q, kinds)
    PROVE  SumsOK'
<1>1. /\ order[p].refunded \in Int /\ order[p].fee \in Int /\ Moved(p) \in Int
  BY AfterSaleAssumption DEF Shapes, Orders, Moved
<1>2. /\ LedgerSum(p, {"refund"}) = -order[p].refunded
      /\ LedgerSum(p, {"fee"}) = order[p].fee
      /\ LedgerSum(p, AllKinds) = order[p].fee - order[p].refunded + Moved(p)
  BY DEF BooksInv, SumsOK
<1>3. /\ LedgerSum(p, {"refund"})' = -order'[p].refunded
      /\ LedgerSum(p, {"fee"})' = order'[p].fee
  BY <1>1, <1>2
<1>4. LedgerSum(p, AllKinds)' = order'[p].fee - order'[p].refunded + Moved(p)'
  BY <1>1, <1>2
<1>5. \A q \in Payments \ {p} :
          /\ order'[q].refunded <= stripe'[q].refunded /\ order'[q].fee <= stripe'[q].fee
          /\ LedgerSum(q, {"refund"})' = -order'[q].refunded
          /\ LedgerSum(q, {"fee"})' = order'[q].fee
          /\ LedgerSum(q, AllKinds)' = order'[q].fee - order'[q].refunded + Moved(q)'
  BY DEF BooksInv, SumsOK
<1>6. \A q \in Payments : q = p \/ q \in Payments \ {p}
  OBVIOUS
<1> QED BY <1>3, <1>4, <1>5, <1>6 DEF SumsOK

\* What a handler records of an event that Stripe sent, under the order's lock.
LEMMA EventMoves ==
    ASSUME Shapes, BooksInv, SentOK', UNCHANGED <<stripe, sent>>,
           NEW e \in sent, KindOf(e) # "completed", RecordEvent(e)
    PROVE  BooksInv'
<1> DEFINE n == AmountOf(e)
<1>1. e \in Events
  BY DEF BooksInv, SentOK
<1>2. PICK p \in Payments : p = PaymentOf(e)
  BY <1>1, EventFacts
<1>3. /\ order[p] \in Orders /\ order[p].refunded \in Nat /\ order[p].fee \in Nat
      /\ Total \in Nat /\ Fee \in Nat /\ order \in [Payments -> Orders]
  BY AfterSaleAssumption DEF Shapes, Orders
<1>4. StripeOK' /\ order[p].refunded <= stripe[p].refunded /\ order[p].fee <= stripe[p].fee
  BY DEF BooksInv, StripeOK, SumsOK
<1>5. IsFiniteSet(ledger) /\ Amounts(ledger)
  BY DEF BooksInv, EntriesOK
<1>6. \A q \in Payments : Moved(q) \in Int /\ \A kinds : LedgerSum(q, kinds) \in Int
  <2>1. \A q, kinds : LedgerSum(q, kinds) \in Int
    <3> SUFFICES ASSUME NEW q, NEW kinds PROVE LedgerSum(q, kinds) \in Int
      OBVIOUS
    <3> DEFINE S == {x \in ledger : x.key[1] \in kinds /\ x.key[2] = q}
    <3>1. IsFiniteSet(S) /\ Amounts(S)
      BY <1>5, FS_Subset DEF Amounts
    <3> QED BY <3>1, SumIsInt, LedgerSumIs DEF Balance
  <2> QED BY <1>3, <2>1 DEF Moved
<1>7. CASE KindOf(e) = "refund"
  <2>1. RecordRefund(p, n) /\ n \in 1..Total
    BY <1>1, <1>2, <1>7, EventFacts DEF RecordEvent
  <2>2. n <= stripe[p].refunded
    <3>1. e = <<"refund", p, n>>
      BY <1>1, <1>2, <1>7 DEF Events, KindOf, PaymentOf, AmountOf, DisputeKinds
    <3> QED BY <2>1, <3>1 DEF BooksInv, StripeOK
  <2>3. CASE n <= order[p].refunded
    BY <2>1, <2>3, BooksStay DEF RecordRefund
  <2>4. CASE ~ (n <= order[p].refunded)
    <3> DEFINE key == <<"refund", p, n>>
    <3> DEFINE r == n - order[p].refunded
    <3>1. order' = [order EXCEPT ![p].refunded = n] /\ ledger' = WithEntry(key, -r)
      BY <1>3, <2>1, <2>4 DEF RecordRefund, Owed
    <3>2. order'[p].refunded = n /\ order'[p].fee = order[p].fee
          /\ \A q \in Payments \ {p} : order'[q] = order[q]
      BY <1>3, <3>1 DEF Orders
    <3>a. n > order[p].refunded /\ r \in Int /\ -r \in Int
      BY <1>3, <2>1, <2>4
    <3>3. r \in Int /\ -r \in Int /\ ~ HasEntry(key)
      BY <2>1, <3>a DEF BooksInv, EntriesOK
    <3>4. /\ IsFiniteSet(ledger') /\ Amounts(ledger')
          /\ \A k : HasEntry(k)' <=> k = key \/ HasEntry(k)
          /\ \A q, kinds : LedgerSum(q, kinds)' =
                 LedgerSum(q, kinds) + (IF key[1] \in kinds /\ key[2] = q THEN -r ELSE 0)
      BY <1>5, <3>1, <3>3, EntryCounts
    <3>5. EntriesOK'
      BY <1>3, <2>1, <2>4, <3>2, <3>4 DEF BooksInv, EntriesOK
    <3>6. \A q \in Payments : Moved(q)' = Moved(q)
      BY <3>4 DEF Moved
    <3>7. \A q \in Payments \ {p} : \A kinds : LedgerSum(q, kinds)' = LedgerSum(q, kinds)
      BY <1>6, <3>4
    <3>8. /\ LedgerSum(p, {"refund"})' = LedgerSum(p, {"refund"}) - r
          /\ LedgerSum(p, {"fee"})' = LedgerSum(p, {"fee"}) + 0
          /\ LedgerSum(p, AllKinds)' = LedgerSum(p, AllKinds) + 0 - r + 0
      BY <1>6, <3>3, <3>4 DEF AllKinds
    <3>9. /\ order'[p].refunded = order[p].refunded + r /\ order'[p].fee = order[p].fee + 0
          /\ Moved(p)' = Moved(p) + 0
      BY <1>3, <1>6, <2>1, <3>2, <3>6
    <3>10. SumsOK'
      BY <1>4, <2>2, <3>2, <3>3, <3>6, <3>7, <3>8, <3>9, SumsMove
    <3> QED BY <1>4, <3>5, <3>10 DEF BooksInv
  <2> QED BY <2>3, <2>4
<1>8. CASE KindOf(e) = "fee"
  <2>1. RecordFeeRefund(p, n) /\ n \in 1..Fee
    BY <1>1, <1>2, <1>8, EventFacts DEF RecordEvent
  <2>2. n <= stripe[p].fee
    <3>1. e = <<"fee", p, n>>
      BY <1>1, <1>2, <1>8 DEF Events, KindOf, PaymentOf, AmountOf, DisputeKinds
    <3> QED BY <2>1, <3>1 DEF BooksInv, StripeOK
  <2>3. CASE n <= order[p].fee
    BY <2>1, <2>3, BooksStay DEF RecordFeeRefund
  <2>4. CASE ~ (n <= order[p].fee)
    <3> DEFINE key == <<"fee", p, n>>
    <3> DEFINE f == n - order[p].fee
    <3>1. order' = [order EXCEPT ![p].fee = n] /\ ledger' = WithEntry(key, f)
      BY <1>3, <2>1, <2>4 DEF RecordFeeRefund, Owed
    <3>2. order'[p].fee = n /\ order'[p].refunded = order[p].refunded
          /\ \A q \in Payments \ {p} : order'[q] = order[q]
      BY <1>3, <3>1 DEF Orders
    <3>a. n > order[p].fee /\ f \in Int
      BY <1>3, <2>1, <2>4
    <3>3. f \in Int /\ ~ HasEntry(key)
      BY <2>1, <3>a DEF BooksInv, EntriesOK
    <3>4. /\ IsFiniteSet(ledger') /\ Amounts(ledger')
          /\ \A k : HasEntry(k)' <=> k = key \/ HasEntry(k)
          /\ \A q, kinds : LedgerSum(q, kinds)' =
                 LedgerSum(q, kinds) + (IF key[1] \in kinds /\ key[2] = q THEN f ELSE 0)
      BY <1>5, <3>1, <3>3, EntryCounts
    <3>5. EntriesOK'
      BY <1>3, <2>1, <2>4, <3>2, <3>4 DEF BooksInv, EntriesOK
    <3>6. \A q \in Payments : Moved(q)' = Moved(q)
      BY <3>4 DEF Moved
    <3>7. \A q \in Payments \ {p} : \A kinds : LedgerSum(q, kinds)' = LedgerSum(q, kinds)
      BY <1>6, <3>4
    <3>8. /\ LedgerSum(p, {"refund"})' = LedgerSum(p, {"refund"}) - 0
          /\ LedgerSum(p, {"fee"})' = LedgerSum(p, {"fee"}) + f
          /\ LedgerSum(p, AllKinds)' = LedgerSum(p, AllKinds) + f - 0 + 0
      BY <1>6, <3>3, <3>4 DEF AllKinds
    <3>9. /\ order'[p].fee = order[p].fee + f /\ order'[p].refunded = order[p].refunded + 0
          /\ Moved(p)' = Moved(p) + 0
      BY <1>3, <1>6, <2>1, <3>2, <3>6
    <3>10. SumsOK'
      BY <1>4, <2>2, <3>2, <3>3, <3>6, <3>7, <3>8, <3>9, SumsMove
    <3> QED BY <1>4, <3>5, <3>10 DEF BooksInv
  <2> QED BY <2>3, <2>4
<1>9. CASE KindOf(e) \in DisputeKinds
  <2>1. UNCHANGED order /\ ledger' = Movement(KindOf(e), p, Total) /\ e = <<KindOf(e), p, Total>>
    <3>1. n = Total
      BY <1>1, <1>9, EventFacts DEF AmountOf
    <3> QED BY <1>1, <1>2, <1>9, <3>1, EventFacts DEF RecordEvent, RecordDispute, DisputeKinds
  <2>2. CASE KindOf(e) \notin {"withdrawn", "reinstated"} \/ HasEntry(<<KindOf(e), p, 0>>)
    <3>1. UNCHANGED ledger
      BY <2>1, <2>2 DEF Movement, WithEntry, HasEntry
    <3> QED BY <2>1, <3>1, BooksStay
  <2>3. CASE KindOf(e) \in {"withdrawn", "reinstated"} /\ ~ HasEntry(<<KindOf(e), p, 0>>)
    <3> DEFINE key == <<KindOf(e), p, 0>>
    <3> DEFINE m == IF KindOf(e) = "withdrawn" THEN -Total ELSE Total
    <3>1. m \in Int /\ ledger' = WithEntry(key, m) /\ ~ HasEntry(key)
      BY <1>3, <2>1, <2>3 DEF Movement
    <3>2. /\ IsFiniteSet(ledger') /\ Amounts(ledger')
          /\ \A k : HasEntry(k)' <=> k = key \/ HasEntry(k)
          /\ \A q, kinds : LedgerSum(q, kinds)' =
                 LedgerSum(q, kinds) + (IF key[1] \in kinds /\ key[2] = q THEN m ELSE 0)
      BY <1>5, <3>1, EntryCounts
    <3>3. EntriesOK'
      BY <2>1, <2>3, <3>2 DEF BooksInv, EntriesOK
    <3>4. \A q \in Payments \ {p} : Moved(q)' = Moved(q)
      BY <3>2 DEF Moved
    <3>5. Moved(p)' = Moved(p) + m
      BY <1>3, <2>3, <3>2 DEF Moved
    <3>6. \A q \in Payments \ {p} : \A kinds : LedgerSum(q, kinds)' = LedgerSum(q, kinds)
      BY <1>6, <3>2
    <3>7. /\ LedgerSum(p, {"refund"})' = LedgerSum(p, {"refund"}) - 0
          /\ LedgerSum(p, {"fee"})' = LedgerSum(p, {"fee"}) + 0
          /\ LedgerSum(p, AllKinds)' = LedgerSum(p, AllKinds) + 0 - 0 + m
      BY <1>6, <2>3, <3>1, <3>2 DEF AllKinds, DisputeKinds
    <3>8. /\ order'[p].fee = order[p].fee + 0 /\ order'[p].refunded = order[p].refunded + 0
      BY <1>3, <2>1
    <3>9. /\ order'[p].refunded <= stripe[p].refunded /\ order'[p].fee <= stripe[p].fee
          /\ \A q \in Payments : order'[q].refunded = order[q].refunded /\ order'[q].fee = order[q].fee
      BY <1>4, <2>1
    <3> HIDE DEF m
    <3>10. SumsOK'
      BY <3>1, <3>4, <3>5, <3>6, <3>7, <3>8, <3>9, SumsMove
    <3> QED BY <1>4, <3>3, <3>10 DEF BooksInv
  <2> QED BY <2>2, <2>3
<1> QED BY <1>1, <1>7, <1>8, <1>9, EventFacts

\* Handlers only ever have events that were sent.
LEMMA SentKept ==
    ASSUME SentOK, UNCHANGED sent,
           \A w \in Workers : wpc'[w] # "idle" =>
               (wpc[w] # "idle" /\ job'[w].event = job[w].event) \/ job'[w].event \in sent
    PROVE  SentOK'
BY DEF SentOK

LEMMA BooksStep == AnsweredInv /\ BooksInv /\ [Next]_vars => BooksInv'
<1> SUFFICES ASSUME AnsweredInv, BooksInv, [Next]_vars PROVE BooksInv'
  OBVIOUS
<1>a. Shapes /\ HandlersOK /\ SentOK
  BY DEF AnsweredInv, Base, BooksInv
<1>b. ASSUME SentOK', UNCHANGED <<order, ledger, stripe, sent>> PROVE BooksInv'
  BY <1>b, BooksStay
<1>c. ASSUME NEW w \in Workers, wpc[w] # "idle", NEW label, NEW result, Goto(w, label, result), UNCHANGED sent
      PROVE  SentOK'
  <2>1. \A v \in Workers : job[v] \in [event : Events \cup {NoJob.event}, result : Results]
    BY <1>a DEF Shapes
  <2>2. \A v \in Workers : job'[v].event = job[v].event
    BY <1>c, <1>a, <2>1 DEF Goto, Shapes
  <2>3. \A v \in Workers : wpc'[v] # "idle" => wpc[v] # "idle"
    BY <1>c, <1>a DEF Goto, Shapes
  <2> QED BY <1>a, <1>c, <2>2, <2>3, SentKept
<1>d. \A w \in Workers : Free(w) =>
          \A v \in Workers : wpc'[v] # "idle" => wpc[v] # "idle" /\ job'[v] = job[v]
  BY <1>a DEF Free, Shapes
<1>1. ASSUME NEW p \in Payments, StripeRefunds(p) \/ StripeRefundsFee(p) \/ StripeDisputes(p)
      PROVE BooksInv'
  BY <1>a, <1>1, StripeMoves
<1>2. ASSUME NEW p \in Payments, HoldEnds(p) PROVE BooksInv'
  BY <1>2, <1>a, <1>b, SentKept DEF HoldEnds, stripeVars, workVars
<1>3. ASSUME NEW t \in Tickets, CheckIn(t) \/ UndoCheckIn(t) PROVE BooksInv'
  BY <1>3, <1>a, <1>b, SentKept DEF CheckIn, UndoCheckIn, stripeVars, workVars
<1>4. ASSUME NEW w \in Workers, NEW d \in Events, Deliver(w, d) PROVE BooksInv'
  <2>1. UNCHANGED <<order, ledger, stripe, sent>> /\ d \in sent
    BY <1>4 DEF Deliver, saleVars, stripeVars
  <2>2. UNCHANGED <<wpc, job>> \/ (/\ job' = [job EXCEPT ![w].event = d]
                                   /\ \A v \in Workers \ {w} : wpc'[v] = wpc[v])
    BY <1>4, <1>a DEF Deliver, workVars, Shapes
  <2>3. \A v \in Workers : wpc'[v] # "idle" =>
            (wpc[v] # "idle" /\ job'[v].event = job[v].event) \/ job'[v].event \in sent
    <3>1. \A v \in Workers : job[v] \in [event : Events \cup {NoJob.event}, result : Results]
      BY <1>a DEF Shapes
    <3> QED BY <1>a, <2>1, <2>2, <3>1 DEF Shapes
  <2> QED BY <1>a, <1>b, <2>1, <2>3, SentKept
<1>5. ASSUME NEW w \in Workers, Record(w) PROVE BooksInv'
  <2>1. wpc[w] = "record" /\ UNCHANGED <<stripe, sent>>
    BY <1>5 DEF Record, OnlyWorked, stripeVars
  <2>2. PICK d \in sent : d = job[w].event /\ KindOf(d) # "completed"
    BY <1>a, <2>1 DEF HandlersOK, SentOK
  <2>3. SentOK'
    <3>1. Goto(w, "mark", "clean") \/ Goto(w, OrderMissing, "ORDER_NOT_FOUND")
      BY <1>5 DEF Record
    <3> QED BY <1>c, <2>1, <3>1
  <2>4. CASE order[PaymentOf(d)].exists
    BY <1>5, <1>a, <2>1, <2>2, <2>3, <2>4, EventMoves DEF Record
  <2>5. CASE ~ order[PaymentOf(d)].exists
    BY <1>5, <1>b, <2>1, <2>2, <2>3, <2>5 DEF Record
  <2> QED BY <2>4, <2>5
<1>e. ASSUME NEW w \in Workers, Fulfil(w) \/ Quote(w) PROVE BooksInv'
  <2>1. wpc[w] # "idle" /\ UNCHANGED <<order, ledger, stripe, sent>>
    BY <1>e DEF Fulfil, Quote, OnlyWorked, stripeVars, saleVars
  <2>2. PICK label, result : Goto(w, label, result)
    BY <1>e DEF Fulfil, Quote
  <2> QED BY <1>b, <1>c, <2>1, <2>2
<1>6. ASSUME NEW w \in Workers, Convert(w) PROVE BooksInv'
  <2>1. wpc[w] = "convert" /\ UNCHANGED <<stripe, sent, ledger>>
    BY <1>6 DEF Convert, OnlyWorked, stripeVars, saleVars
  <2>2. SentOK'
    <3>1. PICK label, result : Goto(w, label, result)
      BY <1>6 DEF Convert
    <3> QED BY <1>c, <2>1, <3>1
  <2>3. UNCHANGED order \/ \E p : order' = [order EXCEPT ![p].exists = TRUE]
    BY <1>6 DEF Convert, saleVars
  <2>4. \A q \in Payments : order'[q].refunded = order[q].refunded /\ order'[q].fee = order[q].fee
    <3>1. \A q \in Payments : order[q] \in Orders
      BY <1>a DEF Shapes
    <3> QED BY <1>a, <2>3, <3>1 DEF Shapes, Orders
  <2> QED BY <2>1, <2>2, <2>4, BooksStay
<1>7. ASSUME NEW w \in Workers, CallFails(w) PROVE BooksInv'
  <2>1. wpc[w] # "idle" /\ Goto(w, "mark", "threw") /\ UNCHANGED <<order, ledger, stripe, sent>>
    BY <1>7 DEF CallFails, saleVars, stripeVars
  <2> QED BY <1>b, <1>c, <2>1
<1>8. ASSUME NEW w \in Workers, WorkerDies(w) \/ Answer(w) PROVE BooksInv'
  <2>1. Free(w) /\ UNCHANGED <<order, ledger, stripe, sent>>
    BY <1>8 DEF WorkerDies, Answer, saleVars, stripeVars
  <2> QED BY <1>a, <1>b, <1>d, <2>1, SentKept
<1>9. CASE UNCHANGED vars
  BY <1>9, <1>a, <1>b, SentKept DEF vars, saleVars, stripeVars, workVars
<1> QED BY <1>1, <1>2, <1>3, <1>4, <1>5, <1>e, <1>6, <1>7, <1>8, <1>9 DEF Next, WorkerStep

LEMMA BooksAlways == Spec => [](AnsweredInv /\ BooksInv)
<1>1. Init => AnsweredInv /\ BooksInv
  BY InitAnswered, InitBooks
<1>2. (AnsweredInv /\ BooksInv) /\ [Next]_vars => (AnsweredInv /\ BooksInv)'
  BY AnsweredStep, BooksStep
<1> QED BY <1>1, <1>2, PTL DEF Spec

\* The ledger's refund entries of an order add up to what the order says was
\* refunded, and its fee entries too, and neither is more than Stripe's figure
\* (record_stripe_refund, record_application_fee_refund), for any amounts, and
\* however often and in whatever order the cumulative events come.
THEOREM RefundsAddUpHolds == Spec => []RefundsAddUp
<1>1. BooksInv => RefundsAddUp
  BY DEF BooksInv, SumsOK, RefundsAddUp
<1> QED BY <1>1, BooksAlways, PTL

\* "A redelivered or out-of-order event can only ever move the order forward"
\* (record_stripe_refund's early return, ledger_write's key): no step of anybody
\* takes back what an order or the ledger has recorded.
THEOREM BooksOnlyMoveForwardHolds == Spec => BooksOnlyMoveForward
<1>1. AnsweredInv /\ [Next]_vars => [Forward]_vars
  <2> SUFFICES ASSUME AnsweredInv, Next, ~ UNCHANGED <<order, ledger>> PROVE Forward
    BY SameBooks DEF vars, saleVars, AnsweredInv, Base
  <2>1. Shapes /\ HandlersOK
    BY DEF AnsweredInv, Base
  <2>2. PICK w \in Workers : Record(w) \/ Convert(w)
    BY DEF Next, WorkerStep, StripeRefunds, StripeRefundsFee, StripeDisputes, Happens, HoldEnds, CheckIn,
           UndoCheckIn, Deliver, CallFails, WorkerDies, Answer, Fulfil, Quote, saleVars
  <2>3. CASE Record(w)
    <3>1. job[w].event \in Events /\ KindOf(job[w].event) # "completed"
      BY <2>1, <2>3 DEF Record, HandlersOK
    <3>2. order[PaymentOf(job[w].event)].exists /\ RecordEvent(job[w].event)
      BY <2>3 DEF Record
    <3> QED BY <2>1, <3>1, <3>2, EventIsRecorded
  <2>4. CASE Convert(w)
    <3> DEFINE p == PaymentOf(job[w].event)
    <3>1. order' = [order EXCEPT ![p].exists = TRUE] /\ UNCHANGED ledger
      BY <2>4 DEF Convert, saleVars
    <3> QED BY <2>1, <3>1, AfterSaleAssumption DEF Shapes, Orders, Forward
  <2> QED BY <2>2, <2>3, <2>4
<1> QED BY <1>1, AnsweredAlways, PTL DEF Spec, BooksOnlyMoveForward

\* Once every event Stripe sent is handled without an error, the ledger's balance
\* of a payment is what Stripe moved: nothing is recorded twice, in part or under
\* another event's key (withOrder, recordAfterSale, ledger_write).
THEOREM SettledBooksAgreeHolds == Spec => []SettledBooksAgree
<1>1. AnsweredInv /\ BooksInv => SettledBooksAgree
  <2> SUFFICES ASSUME AnsweredInv, BooksInv, \A e \in sent : hook[e] = "clean", NEW p \in Payments
               PROVE  LedgerSum(p, {"refund", "fee"} \cup DisputeKinds) =
                          stripe[p].fee - stripe[p].refunded
                          - (IF stripe[p].dispute \in {"none", "reinstated"} THEN 0 ELSE Total)
    BY DEF SettledBooksAgree
  <2>1. \A e \in sent : IsRecorded(e)
    BY DEF AnsweredInv, FiledAsDone, BooksInv, SentOK
  <2>2. /\ order[p].refunded \in Nat /\ order[p].fee \in Nat
        /\ stripe[p].refunded \in Nat /\ stripe[p].fee \in Nat
        /\ stripe[p].dispute \in DisputeKinds \cup {"none"}
        /\ Total \in Nat
    BY AfterSaleAssumption DEF AnsweredInv, Base, Shapes, Orders, BooksInv, StripeOK, Cases
  <2>3. /\ stripe[p].refunded # 0 => <<"refund", p, stripe[p].refunded>> \in sent
        /\ stripe[p].fee # 0 => <<"fee", p, stripe[p].fee>> \in sent
        /\ <<"withdrawn", p, Total>> \in sent <=> stripe[p].dispute # "none"
        /\ <<"reinstated", p, Total>> \in sent <=> stripe[p].dispute = "reinstated"
    BY DEF BooksInv, StripeOK
  <2>4. order[p].refunded <= stripe[p].refunded /\ order[p].fee <= stripe[p].fee
    BY DEF BooksInv, SumsOK
  <2>5. order[p].refunded = stripe[p].refunded
    <3>1. stripe[p].refunded # 0 => order[p].refunded >= stripe[p].refunded
      BY <2>1, <2>3 DEF IsRecorded, KindOf, PaymentOf, AmountOf
    <3> QED BY <2>2, <2>4, <3>1
  <2>6. order[p].fee = stripe[p].fee
    <3>1. stripe[p].fee # 0 => order[p].fee >= stripe[p].fee
      BY <2>1, <2>3 DEF IsRecorded, KindOf, PaymentOf, AmountOf
    <3> QED BY <2>2, <2>4, <3>1
  <2>7. \A kind \in {"withdrawn", "reinstated"} : HasEntry(<<kind, p, 0>>) <=> <<kind, p, Total>> \in sent
    <3>1. \A kind \in {"withdrawn", "reinstated"} : HasEntry(<<kind, p, 0>>) => <<kind, p, Total>> \in sent
      BY DEF BooksInv, EntriesOK
    <3>2. \A kind \in {"withdrawn", "reinstated"} : <<kind, p, Total>> \in sent => HasEntry(<<kind, p, 0>>)
      BY <2>1 DEF IsRecorded, KindOf, PaymentOf, HasEntry
    <3> QED BY <3>1, <3>2
  <2>8. Moved(p) = - (IF stripe[p].dispute \in {"none", "reinstated"} THEN 0 ELSE Total)
    BY <2>2, <2>3, <2>7 DEF Moved
  <2>9. LedgerSum(p, AllKinds) = order[p].fee - order[p].refunded + Moved(p)
    BY DEF BooksInv, SumsOK
  <2>10. LedgerSum(p, {"refund", "fee"} \cup DisputeKinds) = order[p].fee - order[p].refunded + Moved(p)
    BY <2>9 DEF AllKinds
  <2> QED BY <2>2, <2>5, <2>6, <2>8, <2>10
<1> QED BY <1>1, BooksAlways, PTL
=============================================================================
