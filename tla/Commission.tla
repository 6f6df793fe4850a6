----------------------------- MODULE Commission -----------------------------
(***************************************************************************)
(* The commission on the sales an organizer takes the money for, and the   *)
(* invoices it becomes, for one event.  The ledger's manual channel is     *)
(* kept as two sums: what sales have credited and settlements debited.     *)
(* Every statement of raise_commission_invoice sees what is committed by   *)
(* then, and nothing locks the event: a raise is four steps.  The manual   *)
(* lock of the scanner, its override and waived invoices are left out.     *)
(***************************************************************************)
EXTENDS Integers, FiniteSets

CONSTANTS
    Sales,       \* manual orders
    Fee,         \* the commission and its tax on each
    Raises,      \* calls of raise_commission_invoice; an invoice is named by its call
    MaxDays      \* bound: the dates seen

ASSUME CommissionAssumption == Fee \in [Sales -> Nat] /\ MaxDays \in Nat

VARIABLES
    day,        \* the date
    sold,       \* recorded manual orders
    earned,     \* the sum of their credits in the ledger
    settled,    \* the sum of the settlements' debits
    raising,    \* where each raise is
    bill,       \* manual_commission_owed as that raise read it: invoices.amount_cents
    covers,     \* what was earned when it read it: the sales of its invoice
    number,     \* the date and the sequence number of its invoice
    invoice,    \* invoices.status; none: there is no such invoice
    due,        \* invoices whose due_at has passed
    overlapped  \* two raises have overlapped

saleVars == <<sold, earned>>
raiseVars == <<raising, bill, covers, number, overlapped>>
officeVars == <<day, saleVars, settled, raiseVars, invoice, due>>

CommissionInit ==
    /\ day = 1
    /\ sold = {} /\ earned = 0 /\ settled = 0
    /\ raising = [r \in Raises |-> "no"]
    /\ bill = [r \in Raises |-> 0]
    /\ covers = [r \in Raises |-> 0]
    /\ number = [r \in Raises |-> <<0, 0>>]
    /\ invoice = [r \in Raises |-> "none"]
    /\ due = {}
    /\ overlapped = FALSE

Invoices == {r \in Raises : invoice[r] # "none"}
Unpaid == {r \in Raises : invoice[r] \in {"open", "submitted", "overdue"}}

\* manual_commission_owed.
Owed == earned - settled

\* Mutation: the labelled invoices do not lock the gate.
ScannerIsLocked_NoOverdue == \E i \in due : invoice[i] \in {"open", "submitted"}

\* scanner_is_locked.
ScannerIsLocked == \E i \in due : i \in Unpaid

-----------------------------------------------------------------------------
(* Sales and raising an invoice *)

\* record_manual_sale's ledger rows: credits, one commit.
RecordSale(s) ==
    /\ s \notin sold
    /\ sold' = sold \cup {s}
    /\ earned' = earned + Fee[s]
    /\ UNCHANGED <<day, settled, raiseVars, invoice, due>>

Busy(r) == raising[r] \in {"checked", "billed", "numbered"}

\* Mutation: an invoice with a receipt is not taken for open.
Outstanding_NoReceipts == {r \in Raises : invoice[r] \in {"open", "overdue"}}

\* The invoices raise_commission_invoice takes for open.
Outstanding == Unpaid

RaiseCheck(r) ==
    /\ raising[r] = "no"
    /\ raising' = [raising EXCEPT ![r] = IF Outstanding = {} THEN "checked" ELSE "done"]
    /\ number' = [number EXCEPT ![r] = <<day, 0>>]
    /\ overlapped' = (overlapped \/ \E o \in Raises : Busy(o))
    /\ UNCHANGED <<day, saleVars, settled, bill, covers, invoice, due>>

RaiseOwed(r) ==
    /\ raising[r] = "checked"
    /\ bill' = [bill EXCEPT ![r] = Owed]
    /\ covers' = [covers EXCEPT ![r] = earned]
    /\ raising' = [raising EXCEPT ![r] = IF Owed > 0 THEN "billed" ELSE "done"]
    /\ UNCHANGED <<day, saleVars, settled, number, invoice, due, overlapped>>

RaiseNumber(r) ==
    /\ raising[r] = "billed"
    /\ number' = [number EXCEPT ![r] = <<@[1], Cardinality(Invoices) + 1>>]
    /\ raising' = [raising EXCEPT ![r] = "numbered"]
    /\ UNCHANGED <<day, saleVars, settled, bill, covers, invoice, due, overlapped>>

\* The INSERT: a number that is taken rolls the call back.
RaiseInsert(r) ==
    /\ raising[r] = "numbered"
    /\ raising' = [raising EXCEPT ![r] = "done"]
    /\ invoice' = IF \E i \in Invoices : number[i] = number[r] THEN invoice
                ELSE [invoice EXCEPT ![r] = "open"]
    /\ UNCHANGED <<day, saleVars, settled, bill, covers, number, due, overlapped>>

-----------------------------------------------------------------------------
(* What becomes of an invoice *)

\* submitProof: a receipt settles nothing.
SubmitProof(i) ==
    /\ invoice[i] \in {"open", "overdue"}
    /\ invoice' = [invoice EXCEPT ![i] = "submitted"]
    /\ UNCHANGED <<day, saleVars, settled, raiseVars, due>>

\* settle_invoice has something to do: a second call answers already_settled.
SettleOnce(i) == i \in Unpaid

\* Mutation: the settlement clears the balance.
Debit_Balance(i) == IF i \in Unpaid THEN Owed ELSE 0

\* The settlement's debit: the invoice's amount.
Debit(i) == bill[i]

\* settle_invoice: the label and the debit, one commit.
Settle(i) ==
    /\ SettleOnce(i)
    /\ invoice' = [invoice EXCEPT ![i] = "paid"]
    /\ settled' = settled + Debit(i)
    /\ UNCHANGED <<day, saleVars, raiseVars, due>>

\* mark_overdue_invoices.
MarkOverdue ==
    /\ invoice' = [i \in Raises |-> IF invoice[i] \in {"open", "submitted"} /\ i \in due
                                   THEN "overdue" ELSE invoice[i]]
    /\ UNCHANGED <<day, saleVars, settled, raiseVars, due>>

\* due_at passes: at the earliest two hours after the invoice is raised.
FallDue(i) ==
    /\ i \in Invoices \ due
    /\ due' = due \cup {i}
    /\ UNCHANGED <<day, saleVars, settled, raiseVars, invoice>>

NextDay ==
    /\ day < MaxDays
    /\ day' = day + 1
    /\ UNCHANGED <<saleVars, settled, raiseVars, invoice, due>>

CommissionNext ==
    \/ \E s \in Sales : RecordSale(s)
    \/ \E r \in Raises : \/ RaiseCheck(r) \/ RaiseOwed(r) \/ RaiseNumber(r) \/ RaiseInsert(r)
                         \/ SubmitProof(r) \/ Settle(r) \/ FallDue(r)
    \/ MarkOverdue \/ NextDay

CommissionSpec == CommissionInit /\ [][CommissionNext]_officeVars

-----------------------------------------------------------------------------
(* Properties *)

CommissionTypeOK ==
    /\ day \in Nat /\ sold \subseteq Sales /\ earned \in Nat /\ settled \in Int
    /\ raising \in [Raises -> {"no", "checked", "billed", "numbered", "done"}]
    /\ bill \in [Raises -> Int] /\ covers \in [Raises -> Nat]
    /\ number \in [Raises -> Nat \X Nat]
    /\ invoice \in [Raises -> {"none", "open", "submitted", "overdue", "paid"}]
    /\ due \subseteq Invoices
    /\ overlapped \in BOOLEAN

\* No commission is billed twice: what is settled and what the unpaid invoices
\* ask for is together never more than the sales have earned, whatever is sold
\* while an invoice is raised or unpaid, and there is "one open invoice at a time".
\* As long as no two raises overlap.
BilledOnce ==
    ~ overlapped => /\ settled <= earned
                    /\ \A i \in Unpaid : settled + bill[i] <= earned
                    /\ \A i, j \in Unpaid : i = j

\* "A sale recorded afterwards lands on the NEXT invoice": a settlement pays for
\* the sales its invoice was raised on and for all of those, so what was sold while
\* it was raised, unpaid or settled is still owed.  As long as no two raises overlap.
NoSaleIsForgiven ==
    ~ overlapped =>
        /\ settled \in {0} \cup {covers[i] : i \in {r \in Raises : invoice[r] = "paid"}}
        /\ \A i \in Unpaid : settled + bill[i] = covers[i]

\* "Without it the labelling job reopens the gate": a locked gate only opens
\* when an invoice is settled, never on a receipt, a label or another sale.
OnlyPaymentReopensTheGate ==
    [][ScannerIsLocked /\ ~ ScannerIsLocked' =>
          \E i \in due : invoice[i] # "paid" /\ invoice'[i] = "paid"]_officeVars
=============================================================================
