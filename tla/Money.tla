------------------------------- MODULE Money --------------------------------
(***************************************************************************)
(* The price of an order: what the buyer pays, what is Eventsli's, what is *)
(* Stripe's and what the organizer keeps.  Amounts are cents.  A rate is   *)
(* in hundredths of a percent, two decimals being what its column holds;   *)
(* the code multiplies by a float, here the product is exact.              *)
(***************************************************************************)
EXTENDS Integers

CONSTANTS
    Subtotals,   \* of the held seats
    Discounts,   \* of the code
    TaxPcts, CommissionPcts, CommissionTaxPcts,
    FeePcts, FeeFixed,         \* the payment fee an admin has entered
    StripePct, StripeFixed     \* Stripe's own: the setting stripe_cost

WholeRate == 10000

ASSUME MoneyAssumption ==
    /\ Subtotals \subseteq Nat /\ Discounts \subseteq Nat
    /\ TaxPcts \subseteq Nat /\ CommissionPcts \subseteq Nat /\ CommissionTaxPcts \subseteq Nat
    /\ FeePcts \subseteq Nat /\ FeeFixed \subseteq Nat
    /\ StripePct \in 0..(WholeRate - 1) /\ StripeFixed \in Nat

VARIABLES
    order,   \* what the order is priced from
    price    \* its breakdown

moneyVars == <<order, price>>

OrderShapes == [gross : Subtotals, discount : Discounts, taxPct : TaxPcts,
                commissionPct : CommissionPcts, commissionTaxPct : CommissionTaxPcts,
                mode : {"auto", "manual"}, feePct : FeePcts, feeFixed : FeeFixed,
                bearer : {"buyer", "organizer"}, model : {"direct", "destination"}]

-----------------------------------------------------------------------------
(* Rounding and Stripe's fee *)

\* The nearest whole of a ratio, halves away from zero; nothing here is negative.
Nearest(n, d) == (2 * n + d) \div (2 * d)

\* pctOf.
PctOf(cents, pct) == Nearest(cents * pct, WholeRate)

\* stripeCostCents.
StripeCostCents(total) == IF total <= 0 THEN 0 ELSE PctOf(total, StripePct) + StripeFixed

\* Mutation: the intuitive reading, Stripe's rate of what the seats cost.
SolvePaymentFeeCents_OfTheSeats(seats, tax) == PctOf(seats + tax, StripePct) + StripeFixed

\* solvePaymentFeeCents: the fee is part of the total Stripe takes its rate of.
SolvePaymentFeeCents(seats, tax) ==
    Nearest((seats + tax + StripeFixed) * WholeRate, WholeRate - StripePct) - (seats + tax)

-----------------------------------------------------------------------------
(* describeOrder and describeDirectOrder, amount by amount *)

Direct(o) == o.model = "direct"

SeatsCents(o) == IF o.discount < o.gross THEN o.gross - o.discount ELSE 0
EventTax(o) == PctOf(SeatsCents(o), o.taxPct)
CommissionCents(o) == PctOf(SeatsCents(o), o.commissionPct)
CommissionTax(o) == PctOf(CommissionCents(o), o.commissionTaxPct)

\* A free order has no fee, nor has a direct charge the organizer bears it of.
PaymentFee(o) ==
    IF SeatsCents(o) = 0 \/ (Direct(o) /\ o.bearer = "organizer") THEN 0
    ELSE IF o.mode = "manual" THEN PctOf(SeatsCents(o), o.feePct) + o.feeFixed
    ELSE IF o.bearer = "buyer" THEN SolvePaymentFeeCents(SeatsCents(o), EventTax(o))
    ELSE StripeCostCents(SeatsCents(o) + EventTax(o))

BuyerTotal(o) ==
    SeatsCents(o) + EventTax(o) + (IF o.bearer = "buyer" THEN PaymentFee(o) ELSE 0)

ApplicationFee(o) ==
    IF SeatsCents(o) = 0 THEN 0
    ELSE CommissionCents(o) + CommissionTax(o) + (IF Direct(o) THEN 0 ELSE PaymentFee(o))

StripeCost(o) == IF SeatsCents(o) = 0 THEN 0 ELSE StripeCostCents(BuyerTotal(o))

OrganizerNet(o) ==
    LET left == BuyerTotal(o) - ApplicationFee(o) - (IF Direct(o) THEN StripeCost(o) ELSE 0)
    IN  IF Direct(o) /\ left < 0 THEN 0 ELSE left

\* What Eventsli keeps: the tax on its commission is owed onward.
PlatformNet(o) ==
    ApplicationFee(o) - CommissionTax(o) - (IF Direct(o) THEN 0 ELSE StripeCost(o))

BelowCost(o) == ~ Direct(o) /\ SeatsCents(o) # 0 /\ PlatformNet(o) < CommissionCents(o)

DescribeOrder(o) ==
    [seats |-> SeatsCents(o), fee |-> PaymentFee(o), total |-> BuyerTotal(o),
     app |-> ApplicationFee(o), cost |-> StripeCost(o), organizerNet |-> OrganizerNet(o),
     platformNet |-> PlatformNet(o), belowCost |-> BelowCost(o)]

NoPrice == [seats |-> 0, fee |-> 0, total |-> 0, app |-> 0, cost |-> 0, organizerNet |-> 0,
            platformNet |-> 0, belowCost |-> FALSE]

MoneyInit == order \in OrderShapes /\ price = NoPrice

\* quoteReservation, of what the hold and the event's settings say now.
QuoteOrder ==
    /\ price' = DescribeOrder(order)
    /\ UNCHANGED order

MoneySpec == MoneyInit /\ [][QuoteOrder]_moneyVars

-----------------------------------------------------------------------------
(* Properties *)

\* "The fee is always exactly what Stripe bills", to the cent, although it is
\* solved for the total and Stripe's fee is rounded from it: at every price,
\* tax and rate, whoever bears it.
AutoFeeIsTheCost ==
    order.mode = "auto" /\ ~ (Direct(order) /\ order.bearer = "organizer") =>
        price.fee = price.cost

\* "Under-charging must be flagged": a fee that does not cover Stripe's is, and
\* no other, whatever is taxed on the commission.
ShortfallIsShown ==
    ~ Direct(order) => (price.belowCost <=> price.fee < price.cost)
=============================================================================
