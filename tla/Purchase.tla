------------------------------ MODULE Purchase ------------------------------
(***************************************************************************)
(* What checkout promises the buyer of one hold, with no requests,         *)
(* records, webhooks or handlers: pages are made out and paid, by a buyer  *)
(* who waits for each answer one at most.  The hold becomes the order of   *)
(* one paid page, for what that page said, or it is over; and either is    *)
(* for good.                                                               *)
(***************************************************************************)
EXTENDS Naturals

CONSTANTS
    Sessions,   \* pages
    NoOrder

VARIABLES
    standing,   \* the hold: active, over, or sold
    page,       \* what each page says is to be paid
    charged,    \* the pages that were paid
    order,
    tabs        \* the buyer has two tabs

purchaseVars == <<standing, page, charged, order, tabs>>

Init ==
    /\ standing = "active" /\ order = NoOrder
    /\ page = [s \in Sessions |-> 0] /\ charged = {}
    /\ tabs \in BOOLEAN

\* A page that was paid still says what was paid.
MakeOut ==
    /\ UNCHANGED <<order, tabs, standing, charged>>
    /\ page' \in [Sessions -> Nat] /\ \A s \in charged : page'[s] = page[s]

Pay(s) ==
    /\ s \notin charged /\ (~ tabs => charged = {})
    /\ charged' = charged \cup {s}
    /\ UNCHANGED <<standing, page, order, tabs>>

Sell(s) ==
    /\ standing = "active" /\ s \in charged
    /\ standing' = "sold"
    /\ order' = [session |-> s, amount |-> page[s]]
    /\ UNCHANGED <<page, charged, tabs>>

Lapse ==
    /\ standing = "active"
    /\ standing' = "over"
    /\ UNCHANGED <<page, charged, order, tabs>>

Next == MakeOut \/ Lapse \/ \E s \in Sessions : Pay(s) \/ Sell(s)

Spec == Init /\ [][Next]_purchaseVars
=============================================================================
