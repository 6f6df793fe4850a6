------------------------------ MODULE AfterSale ------------------------------
(***************************************************************************)
(* What happens to an order after its payment: refunds, fee refunds and    *)
(* disputes, which the organizer starts at Stripe and the webhook records  *)
(* in the order, its tickets and the ledger.  Stripe sends the events of a *)
(* payment in any order, the payment's own among them, repeats them until  *)
(* they are answered with a 2xx, and at times after that.                  *)
(*                                                                         *)
(* Every session here is the recorded one on the recorded account (what    *)
(* becomes of the others is Checkout's matter).  An event taken off sale   *)
(* has its holds released, so it is a hold that is gone.  A payment has at *)
(* most one dispute, of the whole charge.  dispute_status is written and   *)
(* read by nothing here: left out, with the events that only change it.    *)
(***************************************************************************)
EXTENDS Integers, FiniteSets, FiniteSetsExt

CONSTANTS
    Payments,   \* paid checkout sessions, one hold each
    Tickets,    \* ticket ids
    SeatsOf,    \* the tickets a payment is for
    Total,      \* orders.buyer_total_cents
    Fee,        \* orders.commission_cents + commission_tax_cents
    Workers,    \* webhook deliveries being handled at a time
    MaxEvents,  \* bound: events Stripe creates
    MaxFaults   \* bound: deaths, failed calls and unprovoked repeats

ASSUME AfterSaleAssumption ==
    /\ SeatsOf \in [Payments -> SUBSET Tickets]
    /\ \A p, q \in Payments : p # q => SeatsOf[p] \cap SeatsOf[q] = {}
    /\ Total \in Nat \ {0} /\ Fee \in 0..Total
    /\ MaxEvents \in Nat /\ MaxFaults \in Nat

DisputeKinds == {"withdrawn", "won", "lost", "reinstated"}

\* An event: its kind, its payment, and the amount it carries.
Events ==
    ({"completed"} \X Payments \X {0})
    \cup ({"refund"} \X Payments \X (1..Total))
    \cup ({"fee"} \X Payments \X (1..Fee))
    \cup (DisputeKinds \X Payments \X {Total})

KindOf(e) == e[1]
PaymentOf(e) == e[2]
AmountOf(e) == e[3]

\* Results that are answered with a 200 and left on the row for the operator.
Permanent == {"RESERVATION_EXPIRED"}
\* Results that make Stripe send the event again.
Transient == {"threw"}

NoOrder == [exists |-> FALSE, refunded |-> 0, fee |-> 0]
NoCase == [refunded |-> 0, fee |-> 0, dispute |-> "none"]
NoJob == [event |-> <<"none", "none", 0>>, result |-> "none"]

VARIABLES
    hold,       \* reservations.state: active, converted, or gone
    order,      \* the order of each payment
    ticket,     \* tickets.status; "none": not issued
    undone,     \* tickets whose check-in was reversed some time
    ledger,     \* ledger_entries after the sale: key and amount, credits positive
    stripe,     \* what really happened at Stripe
    sent,       \* events Stripe has created
    hook,       \* webhook_events: none, claimed, clean or the error
    acked,      \* events answered with a 2xx
    unmarked,   \* events last answered with a 2xx for a refusal that mark did not write
    wpc, job,   \* where each delivery is, and what it is for
    faults      \* faults so far

saleVars == <<hold, order, ticket, ledger>>
stripeVars == <<stripe, sent>>
hookVars == <<hook, acked, unmarked>>
workVars == <<wpc, job>>
vars == <<saleVars, undone, stripeVars, hookVars, workVars, faults>>

Init ==
    /\ hold = [p \in Payments |-> "active"]
    /\ order = [p \in Payments |-> NoOrder]
    /\ ticket = [t \in Tickets |-> "none"] /\ undone = {}
    /\ ledger = {}
    /\ stripe = [p \in Payments |-> NoCase]
    /\ sent = {"completed"} \X Payments \X {0}
    /\ hook = [e \in Events |-> "none"] /\ acked = {} /\ unmarked = {}
    /\ wpc = [w \in Workers |-> "idle"] /\ job = [w \in Workers |-> NoJob]
    /\ faults = 0

-----------------------------------------------------------------------------
(* Stripe, and the organizer in their Stripe Dashboard (external) *)

Happens(p, case, kind, n) ==
    /\ Cardinality(sent) < MaxEvents
    /\ stripe' = [stripe EXCEPT ![p] = case]
    /\ sent' = sent \cup {<<kind, p, n>>}
    /\ UNCHANGED <<saleVars, undone, hookVars, workVars, faults>>

\* A refund, of which Stripe reports the sum of all refunds of the charge.
StripeRefunds(p) ==
    \E n \in (stripe[p].refunded + 1)..Total :
        Happens(p, [stripe[p] EXCEPT !.refunded = n], "refund", n)

StripeRefundsFee(p) ==
    \E n \in (stripe[p].fee + 1)..Fee : Happens(p, [stripe[p] EXCEPT !.fee = n], "fee", n)

\* The buyer's bank disputes the charge; Stripe takes the amount, and gives it
\* back if the organizer wins.
StripeDisputes(p) ==
    \E before, after \in DisputeKinds \cup {"none"} :
        /\ <<before, after>> \in {<<"none", "withdrawn">>, <<"withdrawn", "won">>,
                                 <<"withdrawn", "lost">>, <<"won", "reinstated">>}
        /\ stripe[p].dispute = before
        /\ Happens(p, [stripe[p] EXCEPT !.dispute = after], after, Total)

-----------------------------------------------------------------------------
(* The hold and the door *)

\* The hold lapses or is released before any handler got to it.
HoldEnds(p) ==
    /\ hold[p] = "active"
    /\ hold' = [hold EXCEPT ![p] = "gone"]
    /\ UNCHANGED <<order, ticket, ledger, undone, stripeVars, hookVars, workVars, faults>>

\* check_in_ticket and undo_check_in, of which only the status matters here.
CheckIn(t) ==
    /\ ticket[t] = "valid"
    /\ ticket' = [ticket EXCEPT ![t] = "scanned"]
    /\ UNCHANGED <<hold, order, ledger, undone, stripeVars, hookVars, workVars, faults>>

UndoCheckIn(t) ==
    /\ ticket[t] = "scanned" /\ t \notin undone
    /\ ticket' = [ticket EXCEPT ![t] = "valid"]
    /\ undone' = undone \cup {t}
    /\ UNCHANGED <<hold, order, ledger, stripeVars, hookVars, workVars, faults>>

-----------------------------------------------------------------------------
(* The database functions *)

\* Mutation: the cumulative amount is written as if it were the new refund.
Owed_Cumulative(n, before) == n

\* What a cumulative figure adds to what is recorded.
Owed(n, before) == n - before

\* ledger_write: the idempotency key makes a second write of an entry nothing.
WithEntry(key, amount) ==
    IF \E x \in ledger : x.key = key THEN ledger ELSE ledger \cup {[key |-> key, amount |-> amount]}

\* UPDATE tickets SET status = 'void' of the tickets that are valid.
Voided(p) == [t \in Tickets |-> IF t \in SeatsOf[p] /\ ticket[t] = "valid" THEN "void" ELSE ticket[t]]

\* Mutation: only a refund of everything at once is a full one.
IsFull_AtOnce(n, before) == n - before = Total

IsFull(n, before) == n = Total

\* record_stripe_refund, under the order's row lock.
RecordRefund(p, n) ==
    LET before == order[p].refunded IN
    IF n <= before THEN UNCHANGED <<order, ticket, ledger>>
    ELSE /\ order' = [order EXCEPT ![p].refunded = n]
         /\ ledger' = WithEntry(<<"refund", p, n>>, -Owed(n, before))
         /\ ticket' = IF IsFull(n, before) THEN Voided(p) ELSE ticket

\* record_application_fee_refund.
RecordFeeRefund(p, n) ==
    LET before == order[p].fee IN
    /\ IF n <= before THEN UNCHANGED <<order, ledger>>
       ELSE /\ order' = [order EXCEPT ![p].fee = n]
            /\ ledger' = WithEntry(<<"fee", p, n>>, Owed(n, before))
    /\ UNCHANGED ticket

\* Mutation: money that comes back is told by the status, not the movement.
Movement_ByStatus(kind, p, n) ==
    CASE kind = "withdrawn" -> WithEntry(<<"withdrawn", p, 0>>, -n)
      [] kind \in {"won", "reinstated"} -> WithEntry(<<kind, p, 0>>, n)
      [] OTHER -> ledger

\* DISPUTE_MOVEMENT and the adjustment it makes, one of each per dispute.
Movement(kind, p, n) ==
    CASE kind = "withdrawn"  -> WithEntry(<<"withdrawn", p, 0>>, -n)
      [] kind = "reinstated" -> WithEntry(<<"reinstated", p, 0>>, n)
      [] OTHER -> ledger

\* record_stripe_dispute.
RecordDispute(kind, p, n) ==
    /\ ledger' = Movement(kind, p, n)
    /\ ticket' = IF kind = "lost" THEN Voided(p) ELSE ticket
    /\ UNCHANGED order

RecordEvent(e) ==
    LET p == PaymentOf(e)
        n == AmountOf(e)
    IN  CASE KindOf(e) = "refund" -> RecordRefund(p, n)
          [] KindOf(e) = "fee"    -> RecordFeeRefund(p, n)
          [] OTHER                -> RecordDispute(KindOf(e), p, n)

-----------------------------------------------------------------------------
(* The webhook *)

Free(w) == wpc' = [wpc EXCEPT ![w] = "idle"] /\ job' = [job EXCEPT ![w] = NoJob]

Goto(w, label, result) ==
    /\ wpc' = [wpc EXCEPT ![w] = label]
    /\ job' = [job EXCEPT ![w].result = result]

\* A delivery: only an event that finished cleanly is a duplicate.
Deliver(w, e) ==
    /\ wpc[w] = "idle" /\ e \in sent
    /\ e \in acked => faults < MaxFaults
    /\ faults' = IF e \in acked THEN faults + 1 ELSE faults
    /\ IF hook[e] = "clean" THEN acked' = acked \cup {e} /\ UNCHANGED <<hook, unmarked, workVars>>
       ELSE /\ hook' = [hook EXCEPT ![e] = IF @ = "none" THEN "claimed" ELSE @]
            /\ wpc' = [wpc EXCEPT ![w] = IF KindOf(e) = "completed" THEN "fulfil" ELSE "record"]
            /\ job' = [job EXCEPT ![w].event = e]
            /\ UNCHANGED <<acked, unmarked>>
    /\ UNCHANGED <<saleVars, undone, stripeVars>>

OnlyWorked == UNCHANGED <<undone, stripeVars, hookVars, faults>>

\* Mutation: an event without an order is not one of ours (T-075).
OrderMissing_NotOurs == "mark"

\* withOrder: an event that finds no order fulfils its payment first.
OrderMissing == "fulfil"

\* recordAfterSale: the event is recorded, if there is an order.
Record(w) ==
    LET e == job[w].event IN
    /\ wpc[w] = "record"
    /\ IF order[PaymentOf(e)].exists
       THEN RecordEvent(e) /\ Goto(w, "mark", "clean")
       ELSE Goto(w, OrderMissing, "ORDER_NOT_FOUND") /\ UNCHANGED <<order, ticket, ledger>>
    /\ UNCHANGED hold /\ OnlyWorked

\* After a fulfilment that worked the event is recorded, or it was the payment's.
AfterFulfil(w) == IF KindOf(job[w].event) = "completed" THEN "mark" ELSE "record"

\* fulfillFromSession (for withOrder, of the session Stripe names for the charge)
\* reads the hold: only an active one is quoted.
Fulfil(w) ==
    /\ wpc[w] = "fulfil"
    /\ Goto(w, IF hold[PaymentOf(job[w].event)] = "active" THEN "quote" ELSE "convert", "none")
    /\ UNCHANGED saleVars /\ OnlyWorked

\* quoteReservation refuses a hold that is not active any more, be it that another
\* delivery has just converted it.
Quote(w) ==
    /\ wpc[w] = "quote"
    /\ IF hold[PaymentOf(job[w].event)] = "active" THEN Goto(w, "convert", "none")
       ELSE Goto(w, "mark", "RESERVATION_EXPIRED")
    /\ UNCHANGED saleVars /\ OnlyWorked

\* fulfill_checkout, under the lock of the reservation.
Convert(w) ==
    LET p == PaymentOf(job[w].event) IN
    /\ wpc[w] = "convert"
    /\ CASE hold[p] = "converted" ->
               Goto(w, AfterFulfil(w), "clean") /\ UNCHANGED saleVars
         [] hold[p] = "gone" ->
               Goto(w, "mark", "RESERVATION_EXPIRED") /\ UNCHANGED saleVars
         [] OTHER ->
               /\ Goto(w, AfterFulfil(w), "clean")
               /\ hold' = [hold EXCEPT ![p] = "converted"]
               /\ order' = [order EXCEPT ![p].exists = TRUE]
               /\ ticket' = [t \in Tickets |-> IF t \in SeatsOf[p] THEN "valid" ELSE ticket[t]]
               /\ UNCHANGED ledger
    /\ OnlyWorked

\* Stripe or the database does not answer: the handler throws.
CallFails(w) ==
    /\ wpc[w] \in {"record", "fulfil", "quote", "convert"} /\ faults < MaxFaults
    /\ faults' = faults + 1
    /\ Goto(w, "mark", "threw")
    /\ UNCHANGED <<saleVars, undone, stripeVars, hookVars>>

\* Mutation: every outcome is answered with a 200.
AnsweredOk_Always(result) == TRUE

\* 2xx means stop retrying.
AnsweredOk(result) == result \notin Transient

\* mark: that its UPDATE fails is not looked at, and the row stays as it is.
Mark(e, result) ==
    \/ /\ hook' = [hook EXCEPT ![e] = result]
       /\ unmarked' = unmarked \ {e}
       /\ UNCHANGED faults
    \/ /\ faults < MaxFaults /\ faults' = faults + 1
       /\ unmarked' = IF result \in Permanent THEN unmarked \cup {e} ELSE unmarked \ {e}
       /\ UNCHANGED hook

\* mark, and the answer, which is the same whether or not the row was written.
Answer(w) ==
    LET e == job[w].event IN
    /\ wpc[w] = "mark"
    /\ Mark(e, job[w].result)
    /\ acked' = IF AnsweredOk(job[w].result) THEN acked \cup {e} ELSE acked \ {e}
    /\ Free(w)
    /\ UNCHANGED <<saleVars, undone, stripeVars>>

WorkerDies(w) ==
    /\ wpc[w] # "idle" /\ faults < MaxFaults
    /\ faults' = faults + 1
    /\ Free(w)
    /\ UNCHANGED <<saleVars, undone, stripeVars, hookVars>>

-----------------------------------------------------------------------------
WorkerStep(w) == Record(w) \/ Fulfil(w) \/ Quote(w) \/ Convert(w) \/ Answer(w)

Next ==
    \/ \E p \in Payments : StripeRefunds(p) \/ StripeRefundsFee(p) \/ StripeDisputes(p) \/ HoldEnds(p)
    \/ \E t \in Tickets : CheckIn(t) \/ UndoCheckIn(t)
    \/ \E w \in Workers, e \in Events : Deliver(w, e)
    \/ \E w \in Workers : WorkerStep(w) \/ CallFails(w) \/ WorkerDies(w)

Spec == Init /\ [][Next]_vars

\* As long as something is unanswered Stripe sends something of it, and as long
\* as a handler runs one of them goes on.
Fairness ==
    /\ WF_vars(\E w \in Workers, e \in Events \ acked : Deliver(w, e))
    /\ WF_vars(\E w \in Workers : WorkerStep(w))

FairSpec == Spec /\ Fairness

-----------------------------------------------------------------------------
(* Properties *)

TypeOK ==
    /\ faults \in 0..MaxFaults
    /\ hold \in [Payments -> {"active", "converted", "gone"}]
    /\ \A p \in Payments : order[p].refunded \in 0..Total /\ order[p].fee \in 0..Fee
    /\ ticket \in [Tickets -> {"none", "valid", "scanned", "void"}]
    /\ undone \subseteq Tickets
    /\ unmarked \subseteq acked /\ acked \subseteq sent /\ sent \subseteq Events
    /\ hook \in [Events -> {"none", "claimed", "clean"} \cup Permanent \cup Transient]
    /\ wpc \in [Workers -> {"idle", "record", "fulfil", "quote", "convert", "mark"}]

\* What the ledger adds up to for a payment, of the given kinds of entry.
LedgerSum(p, kinds) ==
    MapThenSumSet(LAMBDA x : x.amount, {x \in ledger : x.key[1] \in kinds /\ x.key[2] = p})

\* "A redelivered or out-of-order event can only ever move the order forward to
\* Stripe's figure, never past it": the ledger's refund entries add up to what
\* the order says was refunded, and that is never more than Stripe refunded.
RefundsAddUp ==
    \A p \in Payments :
        /\ LedgerSum(p, {"refund"}) = -order[p].refunded /\ order[p].refunded <= stripe[p].refunded
        /\ LedgerSum(p, {"fee"}) = order[p].fee /\ order[p].fee <= stripe[p].fee

\* What is recorded stays so: orders go forward, the ledger grows.
Forward ==
    /\ \A q \in Payments : /\ order[q].exists => order'[q].exists
                           /\ order[q].refunded <= order'[q].refunded
                           /\ order[q].fee <= order'[q].fee
    /\ ledger \subseteq ledger'

\* The first half of that sentence: no step takes back what an order or the ledger
\* has recorded, whichever events come late or again.
BooksOnlyMoveForward == [][Forward]_vars

\* What recording an event has to leave behind.
IsRecorded(e) ==
    LET o == order[PaymentOf(e)] IN
    /\ o.exists
    /\ KindOf(e) = "refund" => o.refunded >= AmountOf(e)
    /\ KindOf(e) = "fee" => o.fee >= AmountOf(e)
    /\ KindOf(e) \in {"withdrawn", "reinstated"} =>
          \E x \in ledger : x.key = <<KindOf(e), PaymentOf(e), 0>>

\* "2xx means stop retrying", and T-075: an event of an order, its payment's own
\* included, is acknowledged only when it is recorded or on its row as an error
\* for the operator, however early it came and whichever handlers died.  There is
\* one way past that: mark could not write a refusal, and nobody noticed.
AnsweredMeansRecorded ==
    \A e \in acked : IsRecorded(e) \/ hook[e] \in Permanent \/ e \in unmarked

\* "These record what happened so the order, its tickets and the ledger agree
\* with Stripe": once every event has been handled without an error, the ledger's
\* balance of each payment is what Stripe moved, in whatever order it was told.
SettledBooksAgree ==
    (\A e \in sent : hook[e] = "clean") =>
        \A p \in Payments :
            LedgerSum(p, {"refund", "fee"} \cup DisputeKinds) =
                stripe[p].fee - stripe[p].refunded
                - (IF stripe[p].dispute \in {"none", "reinstated"} THEN 0 ELSE Total)

\* "A full refund voids the tickets not yet used", and a lost dispute does: no
\* ticket of such an order can be used, unless the door reversed a check-in.
RefundedTicketsAreVoid ==
    \A p \in Payments :
        order[p].refunded = Total \/ hook[<<"lost", p, Total>>] = "clean" =>
            \A t \in SeatsOf[p] : ticket[t] = "valid" => t \in undone

\* What Stripe refunds does get recorded, or becomes an operator's case; but for a
\* refusal that mark could not write.
RefundsAreRecorded ==
    \A e \in {"refund"} \X Payments \X (1..Total) :
        e \in sent ~> IsRecorded(e) \/ hook[e] \in Permanent \/ e \in unmarked
=============================================================================
