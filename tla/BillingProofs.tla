--------------------------- MODULE BillingProofs ----------------------------
(***************************************************************************)
(* What a buyer is charged, what a discount code may be used for and what an *)
(* organizer is billed: the proofs of Money, PromoCodes and Commission, which *)
(* share no state.                                                         *)
(***************************************************************************)
EXTENDS Money, PromoCodes, Commission, FiniteSetTheorems, TLAPS

-----------------------------------------------------------------------------
(* Money: the payment fee *)

-----------------------------------------------------------------------------
(* Whole divisions *)

LEMMA DivBounds ==
    ASSUME NEW n \in Int, NEW d \in Nat \ {0}
    PROVE  /\ n \div d \in Int
           /\ d * (n \div d) <= n
           /\ n < d * (n \div d) + d
BY SMT

\* The bounds determine the quotient.
LEMMA DivIs ==
    ASSUME NEW n \in Int, NEW d \in Nat \ {0}, NEW q \in Int, d * q <= n, n < d * q + d
    PROVE  n \div d = q
BY SMT

\* The nearest whole of n/d is half of the divisor away at most.
LEMMA NearestBounds ==
    ASSUME NEW n \in Nat, NEW d \in Nat \ {0}
    PROVE  /\ Nearest(n, d) \in Nat
           /\ (2 * d) * Nearest(n, d) <= 2 * n + d
           /\ 2 * n + d < (2 * d) * Nearest(n, d) + 2 * d
<1> DEFINE m == 2 * n + d
<1> DEFINE k == 2 * d
<1>1. m \in Nat /\ k \in Nat \ {0}
  OBVIOUS
<1>2. /\ m \div k \in Int
      /\ k * (m \div k) <= m
      /\ m < k * (m \div k) + k
  <2> HIDE DEF m, k
  <2> QED BY <1>1, DivBounds
<1>3. m \div k >= 0
  <2> HIDE DEF m, k
  <2> DEFINE q == m \div k
  <2>1. q \in Int /\ 0 < k * q + k /\ k \in Nat \ {0}
    BY <1>1, <1>2
  <2> HIDE DEF q
  <2>2. k * q + k = k * (q + 1)
    BY <2>1, SMT
  <2>3. q + 1 > 0
    BY <2>1, <2>2, SMT
  <2> QED BY <2>1, <2>3 DEF q
<1> QED BY <1>2, <1>3 DEF Nearest

\* A rate of 0.01% steps, rounded.
LEMMA PctOfIsNat == ASSUME NEW c \in Nat, NEW p \in Nat PROVE PctOf(c, p) \in Nat
BY NearestBounds DEF PctOf, WholeRate

-----------------------------------------------------------------------------
(* The solved fee *)

\* The fee that is solved for the total is the fee of that total.
LEMMA SolvedIsTheCost ==
    ASSUME NEW seats \in Nat \ {0}, NEW tax \in Nat
    PROVE  /\ SolvePaymentFeeCents(seats, tax) \in Int
           /\ SolvePaymentFeeCents(seats, tax) =
                StripeCostCents(seats + tax + SolvePaymentFeeCents(seats, tax))
<1> DEFINE n == seats + tax + StripeFixed
<1> DEFINE D == WholeRate - StripePct
<1> DEFINE T == Nearest(n * WholeRate, D)
<1>1. n \in Nat \ {0} /\ n >= StripeFixed /\ StripeFixed \in Nat
  BY MoneyAssumption
<1>2. D \in Nat \ {0} /\ D <= 10000 /\ StripePct = 10000 - D /\ StripePct \in Nat
  BY MoneyAssumption DEF WholeRate
<1>3. /\ T \in Nat
      /\ (2 * D) * T <= 20000 * n + D
      /\ 20000 * n + D < (2 * D) * T + 2 * D
  <2> HIDE DEF n, D
  <2>1. n * WholeRate \in Nat
    BY <1>1 DEF WholeRate
  <2> QED BY <1>1, <1>2, <2>1, NearestBounds DEF WholeRate
<1>4. T * StripePct = 10000 * T - D * T
  <2> HIDE DEF T, D
  <2> QED BY <1>2, <1>3, SMT
<1>5. T > 0
  <2> HIDE DEF T, D, n
  <2> SUFFICES ASSUME T = 0 PROVE FALSE
    BY <1>3
  <2> QED BY <1>1, <1>2, <1>3, SMT
<1>6. Nearest(T * StripePct, 10000) = T - n
  <2> DEFINE a == 2 * (T * StripePct) + 10000
  <2>1. a \in Int /\ T - n \in Int /\ D * T \in Int /\ T * StripePct \in Int
    BY <1>1, <1>2, <1>3
  <2>2. (2 * D) * T = 2 * (D * T)
    <3> HIDE DEF T, D
    <3> QED BY <1>2, <1>3, SMT
  <2>3. 20000 * (T - n) <= a /\ a < 20000 * (T - n) + 20000
    <3> HIDE DEF T, D, n
    <3> QED BY <1>1, <1>2, <1>3, <1>4, <2>1, <2>2
  <2>4. a \div 20000 = T - n
    <3> HIDE DEF a, T, n
    <3> QED BY <2>1, <2>3, DivIs
  <2> QED BY <2>4 DEF Nearest
<1>7. SolvePaymentFeeCents(seats, tax) = T - (seats + tax)
  BY DEF SolvePaymentFeeCents
<1>8. seats + tax + SolvePaymentFeeCents(seats, tax) = T
  <2> HIDE DEF T
  <2> QED BY <1>3, <1>7
<1>9. StripeCostCents(T) = (T - n) + StripeFixed
  <2> HIDE DEF T, n
  <2> QED BY <1>3, <1>5, <1>6 DEF StripeCostCents, PctOf, WholeRate
<1> HIDE DEF T
<1> QED BY <1>1, <1>3, <1>7, <1>8, <1>9

LEMMA CostIsInt == ASSUME NEW total \in Int PROVE StripeCostCents(total) \in Int
<1>1. StripePct \in Nat /\ StripeFixed \in Nat
  BY MoneyAssumption DEF WholeRate
<1>2. total > 0 => PctOf(total, StripePct) \in Nat
  BY <1>1, PctOfIsNat
<1> QED BY <1>1, <1>2 DEF StripeCostCents

-----------------------------------------------------------------------------
(* Every breakdown *)

\* The amounts a breakdown is made of are whole cents.
LEMMA AmountsAreCents ==
    ASSUME NEW o \in OrderShapes
    PROVE  /\ SeatsCents(o) \in Nat /\ EventTax(o) \in Nat
           /\ CommissionCents(o) \in Nat /\ CommissionTax(o) \in Nat
           /\ PaymentFee(o) \in Int
           /\ BuyerTotal(o) \in Int
           /\ StripeCost(o) \in Int
<1>1. /\ o.gross \in Nat /\ o.discount \in Nat /\ o.taxPct \in Nat
      /\ o.commissionPct \in Nat /\ o.commissionTaxPct \in Nat
      /\ o.feePct \in Nat /\ o.feeFixed \in Nat
  BY MoneyAssumption DEF OrderShapes
<1>2. SeatsCents(o) \in Nat
  BY <1>1 DEF SeatsCents
<1>3. EventTax(o) \in Nat /\ CommissionCents(o) \in Nat
  BY <1>1, <1>2, PctOfIsNat DEF EventTax, CommissionCents
<1>4. CommissionTax(o) \in Nat
  BY <1>1, <1>3, PctOfIsNat DEF CommissionTax
<1>5. PaymentFee(o) \in Int
  <2>1. PctOf(SeatsCents(o), o.feePct) + o.feeFixed \in Int
    <3>1. PctOf(SeatsCents(o), o.feePct) \in Nat
      BY <1>1, <1>2, PctOfIsNat
    <3> QED BY <1>1, <3>1
  <2>2. StripeCostCents(SeatsCents(o) + EventTax(o)) \in Int
    BY <1>2, <1>3, CostIsInt
  <2>3. SeatsCents(o) # 0 => SolvePaymentFeeCents(SeatsCents(o), EventTax(o)) \in Int
    BY <1>2, <1>3, SolvedIsTheCost
  <2> QED BY <2>1, <2>2, <2>3 DEF PaymentFee
<1>6. BuyerTotal(o) \in Int
  BY <1>2, <1>3, <1>5 DEF BuyerTotal
<1>7. StripeCost(o) \in Int
  BY <1>6, CostIsInt DEF StripeCost
<1> QED BY <1>2, <1>3, <1>4, <1>5, <1>6, <1>7

LEMMA AutoFee ==
    ASSUME NEW o \in OrderShapes, o.mode = "auto", ~ (Direct(o) /\ o.bearer = "organizer")
    PROVE  PaymentFee(o) = StripeCost(o)
<1>1. CASE SeatsCents(o) = 0
  BY <1>1 DEF PaymentFee, StripeCost
<1>2. CASE SeatsCents(o) # 0 /\ o.bearer = "buyer"
  <2>1. PaymentFee(o) = SolvePaymentFeeCents(SeatsCents(o), EventTax(o))
    BY <1>2 DEF PaymentFee
  <2>2. StripeCost(o) = StripeCostCents(SeatsCents(o) + EventTax(o) + PaymentFee(o))
    BY <1>2 DEF StripeCost, BuyerTotal
  <2> QED BY <1>2, <2>1, <2>2, AmountsAreCents, SolvedIsTheCost
<1>3. CASE SeatsCents(o) # 0 /\ o.bearer = "organizer"
  <2>1. PaymentFee(o) = StripeCostCents(SeatsCents(o) + EventTax(o))
    BY <1>3 DEF PaymentFee
  <2>2. BuyerTotal(o) = SeatsCents(o) + EventTax(o) + 0
    BY <1>3 DEF BuyerTotal
  <2> QED BY <1>3, <2>1, <2>2, AmountsAreCents DEF StripeCost
<1>4. o.bearer \in {"buyer", "organizer"}
  BY DEF OrderShapes
<1> QED BY <1>1, <1>2, <1>3, <1>4

LEMMA Shortfall ==
    ASSUME NEW o \in OrderShapes, ~ Direct(o)
    PROVE  BelowCost(o) <=> PaymentFee(o) < StripeCost(o)
<1>1. CASE SeatsCents(o) = 0
  BY <1>1 DEF BelowCost, PaymentFee, StripeCost
<1>2. CASE SeatsCents(o) # 0
  <2>1. ApplicationFee(o) = CommissionCents(o) + CommissionTax(o) + PaymentFee(o)
    BY <1>2 DEF ApplicationFee
  <2>2. PlatformNet(o) = ApplicationFee(o) - CommissionTax(o) - StripeCost(o)
    BY <1>2 DEF PlatformNet
  <2> QED BY <1>2, <2>1, <2>2, AmountsAreCents DEF BelowCost
<1> QED BY <1>1, <1>2

-----------------------------------------------------------------------------
(* The theorems *)

PriceIsOfTheOrder == order \in OrderShapes /\ price \in {NoPrice, DescribeOrder(order)}

LEMMA QuotesKeepThePrice == MoneySpec => []PriceIsOfTheOrder
<1>1. MoneyInit => PriceIsOfTheOrder
  BY DEF MoneyInit, PriceIsOfTheOrder
<1>2. PriceIsOfTheOrder /\ [QuoteOrder]_moneyVars => PriceIsOfTheOrder'
  BY DEF PriceIsOfTheOrder, QuoteOrder, moneyVars
<1> QED BY <1>1, <1>2, PTL DEF MoneySpec

\* The automatic fee covers Stripe's to the cent, at every price, tax and rate:
\* solvePaymentFeeCents needs no search for the right total.
THEOREM AutoFeeHolds == MoneySpec => []AutoFeeIsTheCost
<1>1. PriceIsOfTheOrder => AutoFeeIsTheCost
  BY AutoFee DEF PriceIsOfTheOrder, AutoFeeIsTheCost, NoPrice, DescribeOrder
<1> QED BY <1>1, QuotesKeepThePrice, PTL

\* An order is flagged exactly when the fee an admin entered does not cover what
\* Stripe takes.
THEOREM ShortfallHolds == MoneySpec => []ShortfallIsShown
<1>1. PriceIsOfTheOrder => ShortfallIsShown
  BY Shortfall DEF PriceIsOfTheOrder, ShortfallIsShown, NoPrice, DescribeOrder
<1> QED BY <1>1, QuotesKeepThePrice, PTL

-----------------------------------------------------------------------------
(* PromoCodes: claims and uses *)

\* The holds whose claim counts against c and whose time has not run out.
Live(c) == {o \in Holds : claim[o] = c /\ state[o] # "ended" /\ o \notin lapsed}

\* A claim with an order is a paid hold's.  Unless an edit overlaps, what a
\* checkout was priced at is what the hold claims.
ClaimInv ==
    /\ PromoTypeOK
    /\ \A h \in Holds :
          /\ h \in linked => state[h] = "converted" /\ claim[h] # NoCode
          /\ bought[h] # NoCode => state[h] = "converted"
          /\ bought[h] # NoCode /\ h \notin mixed => claim[h] = bought[h] /\ h \in linked
          /\ state[h] = "active" /\ h \notin mixed /\ priced[h] # NoCode => claim[h] = priced[h]
          /\ buying[h] = "no" => priced[h] = NoCode
          /\ h \in editing /\ h \notin mixed => buying[h] = "no" /\ state[h] # "converted"

LEMMA InitClaim == PromoInit => ClaimInv
BY DEF PromoInit, ClaimInv, PromoTypeOK

LEMMA ClaimStep == ClaimInv /\ [PromoNext]_promoVars => ClaimInv'
<1> SUFFICES ASSUME ClaimInv, [PromoNext]_promoVars PROVE ClaimInv'
  OBVIOUS
<1> USE PromoAssumption DEF ClaimInv, PromoTypeOK
<1>1. ASSUME NEW h \in Holds, StartEdit(h) PROVE ClaimInv'
  BY <1>1 DEF StartEdit, claimVars
<1>2. ASSUME NEW h \in Holds, Apply(h) PROVE ClaimInv'
  BY <1>2 DEF Apply
<1>3. ASSUME NEW h \in Holds, Remove(h) PROVE ClaimInv'
  BY <1>3 DEF Remove, MayFree
<1>4. ASSUME NEW h \in Holds, FailEdit(h) PROVE ClaimInv'
  BY <1>4 DEF FailEdit, claimVars
<1>5. ASSUME NEW h \in Holds, Quote(h) PROVE ClaimInv'
  BY <1>5 DEF Quote, claimVars
<1>6. ASSUME NEW h \in Holds, OpenPage(h) \/ Charge(h) \/ LeaveCheckout(h) PROVE ClaimInv'
  BY <1>6 DEF OpenPage, Charge, LeaveCheckout, claimVars
<1>7. ASSUME NEW h \in Holds, DeliverPayment(h) \/ ClaimFree(h) PROVE ClaimInv'
  BY <1>7 DEF DeliverPayment, ClaimFree, Fulfil, Linked
<1>8. ASSUME NEW h \in Holds, Lapse(h) PROVE ClaimInv'
  BY <1>8 DEF Lapse, claimVars
<1>9. ASSUME NEW h \in Holds, SweepHold(h) \/ ReleaseHold(h) PROVE ClaimInv'
  BY <1>9 DEF SweepHold, ReleaseHold, EndHoldOf
<1>10. CASE UNCHANGED promoVars
  BY <1>10 DEF promoVars, claimVars
<1> QED BY <1>1, <1>2, <1>3, <1>4, <1>5, <1>6, <1>7, <1>8, <1>9, <1>10 DEF PromoNext

\* A claim's order, and the discount it was paid with, stay together
\* (release_promo_claim, fulfill_checkout), for any number of holds and codes.
THEOREM OrderKeepsItsClaimHolds == PromoSpec => []OrderKeepsItsClaim
<1>1. ClaimInv => OrderKeepsItsClaim
  BY DEF ClaimInv, OrderKeepsItsClaim
<1> QED BY <1>1, InitClaim, ClaimStep, PTL DEF PromoSpec

-----------------------------------------------------------------------------
(* The count *)

\* No more claims are alive than the code has uses.
CountInv == \A c \in Codes : Cardinality(Live(c)) <= MaxUses

LEMMA LiveIsFinite == \A c : IsFiniteSet(Live(c)) /\ Cardinality(Live(c)) \in Nat
<1> TAKE c
<1>1. Live(c) \subseteq Holds
  BY DEF Live
<1> QED BY <1>1, PromoAssumption, FS_Subset, FS_CardinalityType

LEMMA InitCount == PromoInit => CountInv
<1> SUFFICES ASSUME PromoInit, NEW c \in Codes PROVE Cardinality(Live(c)) <= MaxUses
  BY DEF CountInv
<1>1. Live(c) = {}
  BY PromoAssumption DEF PromoInit, Live
<1> QED BY <1>1, FS_EmptySet, PromoAssumption

LEMMA CountStep == ClaimInv /\ ClaimInv' /\ CountInv /\ [PromoNext]_promoVars => CountInv'
<1> SUFFICES ASSUME ClaimInv, ClaimInv', CountInv, [PromoNext]_promoVars, NEW c \in Codes
             PROVE Cardinality(Live(c)') <= MaxUses
  BY DEF CountInv
<1>a. IsFiniteSet(Live(c)) /\ Cardinality(Live(c)) \in Nat /\ Cardinality(Live(c)) <= MaxUses
  BY LiveIsFinite DEF CountInv
<1>b. IsFiniteSet(Live(c)') /\ Cardinality(Live(c)') \in Nat
  <2>1. Live(c)' \subseteq Holds
    BY DEF Live
  <2> QED BY <2>1, PromoAssumption, FS_Subset, FS_CardinalityType
<1>c. ASSUME Live(c)' \subseteq Live(c) PROVE Cardinality(Live(c)') <= MaxUses
  <2>1. Cardinality(Live(c)') <= Cardinality(Live(c))
    BY <1>a, <1>c, FS_Subset
  <2> QED BY <2>1, <1>a, <1>b, PromoAssumption
<1>1. ASSUME NEW h \in Holds, Apply(h), claim'[h] = c PROVE Cardinality(Live(c)') <= MaxUses
  <2>1. claim[h] \in Codes \cup {NoCode} /\ claim' = [claim EXCEPT ![h] = c]
        /\ Cardinality(UsedByOthers(c, h)) < MaxUses /\ UNCHANGED <<state, lapsed, linked>>
    BY <1>1, PromoAssumption DEF Apply, ClaimInv, PromoTypeOK
  <2>2. Live(c)' \subseteq UsedByOthers(c, h) \cup {h}
    BY <2>1 DEF Live, UsedByOthers, Stands, ClaimInv, PromoTypeOK
  <2>3. IsFiniteSet(UsedByOthers(c, h)) /\ h \notin UsedByOthers(c, h)
    <3>1. UsedByOthers(c, h) \subseteq Holds
      BY DEF UsedByOthers
    <3> QED BY <3>1, PromoAssumption, FS_Subset DEF UsedByOthers
  <2>4. /\ IsFiniteSet(UsedByOthers(c, h) \cup {h})
        /\ Cardinality(UsedByOthers(c, h) \cup {h}) = Cardinality(UsedByOthers(c, h)) + 1
    BY <2>3, FS_AddElement
  <2>5. Cardinality(Live(c)') <= Cardinality(UsedByOthers(c, h) \cup {h})
    BY <2>2, <2>4, FS_Subset
  <2>6. Cardinality(UsedByOthers(c, h)) \in Nat
    BY <2>3, FS_CardinalityType
  <2> QED BY <2>1, <2>4, <2>5, <2>6, <1>b, PromoAssumption
<1>2. ASSUME NEW h \in Holds, Apply(h), claim'[h] # c PROVE Cardinality(Live(c)') <= MaxUses
  <2>1. Live(c)' \subseteq Live(c)
    BY <1>2 DEF Apply, Live, ClaimInv, PromoTypeOK
  <2> QED BY <2>1, <1>c
<1>3. ASSUME ~ \E h \in Holds : Apply(h) PROVE Cardinality(Live(c)') <= MaxUses
  <2> SUFFICES Live(c)' \subseteq Live(c)
    BY <1>c
  <2> USE PromoAssumption DEF Live, ClaimInv, PromoTypeOK
  <2>1. ASSUME NEW h \in Holds, StartEdit(h) \/ FailEdit(h) \/ Quote(h) \/ OpenPage(h) \/ Charge(h)
                                \/ LeaveCheckout(h) \/ Lapse(h)
        PROVE Live(c)' \subseteq Live(c)
    BY <2>1 DEF StartEdit, FailEdit, Quote, OpenPage, Charge, LeaveCheckout, Lapse, claimVars
  <2>2. ASSUME NEW h \in Holds, Remove(h) PROVE Live(c)' \subseteq Live(c)
    BY <2>2 DEF Remove
  <2>3. ASSUME NEW h \in Holds, DeliverPayment(h) \/ ClaimFree(h) PROVE Live(c)' \subseteq Live(c)
    BY <2>3 DEF DeliverPayment, ClaimFree, Fulfil
  <2>4. ASSUME NEW h \in Holds, SweepHold(h) \/ ReleaseHold(h) PROVE Live(c)' \subseteq Live(c)
    BY <2>4 DEF SweepHold, ReleaseHold, EndHoldOf
  <2>5. CASE UNCHANGED promoVars
    BY <2>5 DEF promoVars, claimVars
  <2> QED BY <1>3, <2>1, <2>2, <2>3, <2>4, <2>5 DEF PromoNext
<1> QED BY <1>1, <1>2, <1>3

LEMMA LimitFollows == ClaimInv /\ CountInv => UsesWithinLimit
<1> SUFFICES ASSUME ClaimInv, CountInv, mixed = {}, NEW c \in Codes, Buyers(c) \cap lapsed = {}
             PROVE Cardinality(Buyers(c)) <= MaxUses
  BY DEF UsesWithinLimit
<1>1. Buyers(c) \subseteq Live(c)
  BY PromoAssumption DEF Buyers, Live, ClaimInv
<1>2. IsFiniteSet(Live(c)) /\ Cardinality(Live(c)) \in Nat /\ Cardinality(Live(c)) <= MaxUses
  BY LiveIsFinite DEF CountInv
<1>3. IsFiniteSet(Buyers(c)) /\ Cardinality(Buyers(c)) <= Cardinality(Live(c))
  BY <1>1, <1>2, FS_Subset
<1>4. Cardinality(Buyers(c)) \in Nat
  BY <1>3, FS_CardinalityType
<1> QED BY <1>2, <1>3, <1>4, PromoAssumption

\* A code with a limit is not oversold: claims are counted while the hold is open
\* (claim_promo_code), for any number of holds, codes and uses.
THEOREM UsesWithinLimitHolds == PromoSpec => []UsesWithinLimit
BY InitClaim, ClaimStep, InitCount, CountStep, LimitFollows, PTL DEF PromoSpec

-----------------------------------------------------------------------------
(* Commission: invoices and the gate *)

RaiseStates == {"no", "checked", "billed", "numbered", "done"}
InvoiceStates == {"none", "open", "submitted", "overdue", "paid"}

\* The types that matter to the sums.
SumsOK ==
    /\ earned \in Int /\ settled \in Int
    /\ bill \in [Raises -> Int]
    /\ raising \in [Raises -> RaiseStates]
    /\ invoice \in [Raises -> InvoiceStates]

\* While an invoice is being raised nothing is unpaid, so nothing is settled: the
\* debt it has read is still owed.  An invoice is of a raise that is over.
BilledInv ==
    /\ SumsOK
    /\ \A r \in Raises : invoice[r] # "none" => raising[r] = "done"
    /\ ~ overlapped =>
          /\ \A r, o \in Raises : Busy(r) /\ Busy(o) => r = o
          /\ \A r \in Raises : Busy(r) => Unpaid = {}
          /\ \A r \in Raises : raising[r] \in {"billed", "numbered"} => settled + bill[r] <= earned
    /\ BilledOnce

LEMMA InitBilled == CommissionInit => BilledInv
BY DEF CommissionInit, BilledInv, SumsOK, RaiseStates, InvoiceStates, Busy, Unpaid, BilledOnce

LEMMA BilledStep == BilledInv /\ [CommissionNext]_officeVars => BilledInv'
<1> SUFFICES ASSUME BilledInv, [CommissionNext]_officeVars PROVE BilledInv'
  OBVIOUS
<1> USE CommissionAssumption DEF BilledInv, SumsOK, RaiseStates, InvoiceStates, Busy, Unpaid, BilledOnce
<1>1. ASSUME NEW s \in Sales, RecordSale(s) PROVE BilledInv'
  <2>1. Fee[s] \in Nat /\ earned' = earned + Fee[s]
    BY <1>1 DEF RecordSale
  <2>2. UNCHANGED <<settled, raising, bill, overlapped, invoice>>
    BY <1>1 DEF RecordSale, raiseVars
  <2> QED BY <2>1, <2>2
<1>2. ASSUME NEW r \in Raises, RaiseCheck(r) PROVE BilledInv'
  <2>1. UNCHANGED <<earned, settled, bill, invoice>>
    BY <1>2 DEF RaiseCheck, saleVars
  <2>2. /\ raising[r] = "no"
        /\ raising' = [raising EXCEPT ![r] = IF Unpaid = {} THEN "checked" ELSE "done"]
        /\ overlapped' = (overlapped \/ \E o \in Raises : Busy(o))
    BY <1>2 DEF RaiseCheck, Outstanding
  <2>3. Unpaid' = Unpaid
    BY <2>1
  <2>4. \A o \in Raises : o # r => raising'[o] = raising[o]
    BY <2>2
  <2>5. raising'[r] \in {"checked", "done"} /\ (raising'[r] = "checked" => Unpaid = {})
    BY <2>2
  <2>6. ~ overlapped' => ~ overlapped /\ \A o \in Raises : ~ Busy(o)
    BY <2>2
  <2> QED BY <2>1, <2>2, <2>3, <2>4, <2>5, <2>6
<1>3. ASSUME NEW r \in Raises, RaiseOwed(r) PROVE BilledInv'
  <2>1. UNCHANGED <<earned, settled, invoice, overlapped>>
    BY <1>3 DEF RaiseOwed, saleVars
  <2>2. /\ raising[r] = "checked" /\ bill' = [bill EXCEPT ![r] = earned - settled]
        /\ raising' = [raising EXCEPT ![r] = IF Owed > 0 THEN "billed" ELSE "done"]
    BY <1>3 DEF RaiseOwed, Owed
  <2>3. \A o \in Raises : o # r => raising'[o] = raising[o] /\ bill'[o] = bill[o]
    BY <2>2
  <2>4. raising'[r] \in {"billed", "done"} /\ bill'[r] = earned - settled
    BY <2>2
  <2>5. invoice[r] = "none"
    BY <2>2
  <2> QED BY <2>1, <2>2, <2>3, <2>4, <2>5
<1>4. ASSUME NEW r \in Raises, RaiseNumber(r) PROVE BilledInv'
  <2>1. UNCHANGED <<earned, settled, bill, invoice, overlapped>>
    BY <1>4 DEF RaiseNumber, saleVars
  <2>2. raising[r] = "billed" /\ raising' = [raising EXCEPT ![r] = "numbered"]
    BY <1>4 DEF RaiseNumber
  <2> QED BY <2>1, <2>2
<1>5. ASSUME NEW r \in Raises, RaiseInsert(r) PROVE BilledInv'
  <2>1. UNCHANGED <<earned, settled, bill, overlapped>>
    BY <1>5 DEF RaiseInsert, saleVars
  <2>2. raising[r] = "numbered" /\ raising' = [raising EXCEPT ![r] = "done"]
    BY <1>5 DEF RaiseInsert
  <2>3. invoice' \in {invoice, [invoice EXCEPT ![r] = "open"]}
    BY <1>5 DEF RaiseInsert
  <2>4. ~ overlapped => Unpaid = {} /\ \A o \in Raises : o # r => ~ Busy(o)
    BY <2>2
  <2>5. ~ overlapped => \A o \in Raises : ~ Busy(o)'
    BY <2>2, <2>4
  <2>6. Unpaid' \subseteq Unpaid \cup {r}
    BY <2>3
  <2> QED BY <2>1, <2>2, <2>3, <2>4, <2>5, <2>6
<1>6. ASSUME NEW i \in Raises, SubmitProof(i) PROVE BilledInv'
  <2>1. UNCHANGED <<earned, settled, raising, bill, overlapped>>
    BY <1>6 DEF SubmitProof, saleVars, raiseVars
  <2>2. invoice[i] \in {"open", "overdue"} /\ invoice' = [invoice EXCEPT ![i] = "submitted"]
    BY <1>6 DEF SubmitProof
  <2>3. Unpaid' = Unpaid
    BY <2>2
  <2> QED BY <2>1, <2>2, <2>3
<1>7. ASSUME NEW i \in Raises, Settle(i) PROVE BilledInv'
  <2>1. UNCHANGED <<earned, raising, bill, overlapped>>
    BY <1>7 DEF Settle, saleVars, raiseVars
  <2>2. /\ i \in Unpaid /\ invoice' = [invoice EXCEPT ![i] = "paid"]
        /\ settled' = settled + bill[i]
    BY <1>7 DEF Settle, SettleOnce, Debit
  <2>3. Unpaid' = Unpaid \ {i}
    BY <2>2
  <2>4. ~ overlapped => Unpaid' = {} /\ settled' <= earned /\ \A r \in Raises : ~ Busy(r)
    BY <2>2, <2>3
  <2>5. SumsOK' /\ \A r \in Raises : invoice'[r] # "none" => raising'[r] = "done"
    BY <2>1, <2>2
  <2> QED BY <2>1, <2>4, <2>5
<1>8. CASE MarkOverdue
  <2>1. UNCHANGED <<earned, settled, raising, bill, overlapped>>
    BY <1>8 DEF MarkOverdue, saleVars, raiseVars
  <2>2. /\ invoice' \in [Raises -> InvoiceStates]
        /\ \A r \in Raises : \/ invoice'[r] = invoice[r]
                             \/ invoice[r] \in {"open", "submitted"} /\ invoice'[r] = "overdue"
    BY <1>8, Zenon DEF MarkOverdue
  <2>3. Unpaid' = Unpaid
    BY <2>2
  <2> QED BY <2>1, <2>2, <2>3
<1>9. ASSUME NEW i \in Raises, FallDue(i) PROVE BilledInv'
  BY <1>9 DEF FallDue, saleVars, raiseVars
<1>10. CASE NextDay
  BY <1>10 DEF NextDay, saleVars, raiseVars
<1>11. CASE UNCHANGED officeVars
  BY <1>11 DEF officeVars, saleVars, raiseVars
<1> QED BY <1>1, <1>2, <1>3, <1>4, <1>5, <1>6, <1>7, <1>8, <1>9, <1>10, <1>11 DEF CommissionNext

LEMMA BilledAlways == CommissionSpec => []BilledInv
BY InitBilled, BilledStep, PTL DEF CommissionSpec

\* No commission is billed or settled twice, whatever is sold, settled or labelled
\* while an invoice is raised, as long as no two raises overlap.
THEOREM BilledOnceHolds == CommissionSpec => []BilledOnce
<1>1. BilledInv => BilledOnce
  BY DEF BilledInv
<1> QED BY <1>1, BilledAlways, PTL

\* The sums that are settled are those of the sales an invoice was raised on, and
\* so is the one a raise is about to ask for.
CoversInv ==
    /\ covers \in [Raises -> Int]
    /\ ~ overlapped =>
          \A r \in Raises : raising[r] \in {"billed", "numbered"} => settled + bill[r] = covers[r]
    /\ NoSaleIsForgiven

PaidInvoices == {r \in Raises : invoice[r] = "paid"}

LEMMA InitCovers == CommissionInit => CoversInv
BY DEF CommissionInit, CoversInv, NoSaleIsForgiven, Unpaid

\* A step that changes neither what is settled or paid nor the sums of an invoice.
LEMMA SumsStay ==
    ASSUME BilledInv, CoversInv, UNCHANGED <<settled, bill, covers>>, overlapped => overlapped',
           \A r \in Raises : invoice'[r] = "paid" <=> invoice[r] = "paid",
           Unpaid' \subseteq Unpaid,
           \A r \in Raises : raising'[r] \in {"billed", "numbered"} =>
                                raising[r] \in {"billed", "numbered"}
    PROVE  CoversInv'
<1>1. PaidInvoices' = PaidInvoices
  BY DEF PaidInvoices
<1>2. ~ overlapped => settled \in {0} \cup {covers[i] : i \in PaidInvoices}
  BY DEF CoversInv, NoSaleIsForgiven, PaidInvoices
<1>3. ~ overlapped' => settled' \in {0} \cup {covers'[i] : i \in PaidInvoices'}
  BY <1>1, <1>2
<1>4. ~ overlapped' => \A i \in Unpaid' : settled' + bill'[i] = covers'[i]
  BY DEF CoversInv, NoSaleIsForgiven
<1>5. NoSaleIsForgiven'
  BY <1>3, <1>4 DEF NoSaleIsForgiven, PaidInvoices
<1> QED BY <1>5 DEF CoversInv

LEMMA CoversStep == BilledInv /\ BilledInv' /\ CoversInv /\ [CommissionNext]_officeVars => CoversInv'
<1> SUFFICES ASSUME BilledInv, BilledInv', CoversInv, [CommissionNext]_officeVars PROVE CoversInv'
  OBVIOUS
<1>0. SumsOK
  BY DEF BilledInv
<1>1. ASSUME NEW r \in Raises, RaiseOwed(r) PROVE CoversInv'
  <2>1. /\ raising[r] = "checked" /\ UNCHANGED <<earned, settled, invoice, overlapped>>
        /\ bill' = [bill EXCEPT ![r] = earned - settled] /\ covers' = [covers EXCEPT ![r] = earned]
        /\ \A o \in Raises : o # r => raising'[o] = raising[o]
    BY <1>0, <1>1 DEF RaiseOwed, saleVars, Owed, SumsOK
  <2>2. /\ covers' \in [Raises -> Int]
        /\ bill'[r] = earned - settled /\ covers'[r] = earned
        /\ \A o \in Raises : o # r => bill'[o] = bill[o] /\ covers'[o] = covers[o]
    BY <1>0, <2>1 DEF SumsOK, CoversInv
  <2>3. settled' + bill'[r] = covers'[r]
    BY <1>0, <2>1, <2>2 DEF SumsOK
  <2>4. invoice[r] = "none"
    BY <2>1 DEF BilledInv
  <2>5. {covers'[i] : i \in PaidInvoices'} = {covers[i] : i \in PaidInvoices}
    <3>1. PaidInvoices' = PaidInvoices /\ r \notin PaidInvoices
      BY <2>1, <2>4 DEF PaidInvoices
    <3>2. \A i \in PaidInvoices : covers'[i] = covers[i]
      BY <2>2, <3>1 DEF PaidInvoices
    <3> QED BY <3>1, <3>2
  <2>6. ~ overlapped' => settled' \in {0} \cup {covers'[i] : i \in PaidInvoices'}
    BY <2>1, <2>5 DEF CoversInv, NoSaleIsForgiven, PaidInvoices
  <2>7. ~ overlapped' => \A i \in Unpaid' : settled' + bill'[i] = covers'[i]
    BY <2>1, <2>2, <2>4 DEF CoversInv, NoSaleIsForgiven, Unpaid
  <2>8. NoSaleIsForgiven'
    BY <2>6, <2>7 DEF NoSaleIsForgiven, PaidInvoices
  <2>9. ~ overlapped' => \A o \in Raises : raising'[o] \in {"billed", "numbered"} =>
                                              settled' + bill'[o] = covers'[o]
    <3> SUFFICES ASSUME ~ overlapped', NEW o \in Raises, raising'[o] \in {"billed", "numbered"}
                 PROVE  settled' + bill'[o] = covers'[o]
      OBVIOUS
    <3>1. CASE o = r
      BY <2>3, <3>1
    <3>2. CASE o # r
      BY <2>1, <2>2, <3>2 DEF CoversInv
    <3> QED BY <3>1, <3>2
  <2> QED BY <2>2, <2>8, <2>9 DEF CoversInv
\* The bill that was read is the invoice's.
<1>2. ASSUME NEW r \in Raises, RaiseInsert(r) PROVE CoversInv'
  <2>1. /\ raising[r] = "numbered" /\ UNCHANGED <<settled, bill, covers, overlapped>>
        /\ \A o \in Raises : raising'[o] \in {"billed", "numbered"} =>
                                  raising[o] \in {"billed", "numbered"}
        /\ invoice' \in {invoice, [invoice EXCEPT ![r] = "open"]}
    BY <1>0, <1>2 DEF RaiseInsert, saleVars, SumsOK
  <2>2. invoice[r] = "none"
    BY <2>1 DEF BilledInv
  <2>3. PaidInvoices' = PaidInvoices /\ Unpaid' \subseteq Unpaid \cup {r}
    BY <1>0, <2>1, <2>2 DEF PaidInvoices, Unpaid, SumsOK
  <2>4. ~ overlapped' => settled' \in {0} \cup {covers'[i] : i \in PaidInvoices'}
    BY <2>1, <2>3 DEF CoversInv, NoSaleIsForgiven, PaidInvoices
  <2>5. ~ overlapped' => \A i \in Unpaid' : settled' + bill'[i] = covers'[i]
    BY <2>1, <2>3 DEF CoversInv, NoSaleIsForgiven
  <2>6. NoSaleIsForgiven'
    BY <2>4, <2>5 DEF NoSaleIsForgiven, PaidInvoices
  <2> QED BY <2>1, <2>6 DEF CoversInv
\* What it debits is what its sales had left to pay, and no raise is under way.
<1>3. ASSUME NEW i \in Raises, Settle(i) PROVE CoversInv'
  <2>1. /\ i \in Unpaid /\ UNCHANGED <<raising, bill, covers, overlapped>>
        /\ invoice' = [invoice EXCEPT ![i] = "paid"] /\ settled' = settled + bill[i]
    BY <1>3 DEF Settle, SettleOnce, Debit, raiseVars
  <2>2. i \in PaidInvoices'
    BY <1>0, <2>1 DEF PaidInvoices, SumsOK
  <2>3. ~ overlapped => settled' = covers'[i]
    BY <2>1 DEF CoversInv, NoSaleIsForgiven
  <2>4. ~ overlapped => Unpaid' = {}
    BY <1>0, <2>1 DEF BilledInv, BilledOnce, Unpaid, SumsOK
  <2>5. ~ overlapped => \A r \in Raises : raising[r] \notin {"billed", "numbered"}
    BY <2>1 DEF BilledInv, Busy
  <2>6. NoSaleIsForgiven'
    BY <2>1, <2>2, <2>3, <2>4 DEF NoSaleIsForgiven, PaidInvoices
  <2> QED BY <2>1, <2>5, <2>6 DEF CoversInv
\* The others read, label or sell.
<1>4. ASSUME NEW s \in Sales, RecordSale(s) PROVE CoversInv'
  BY <1>4, SumsStay DEF RecordSale, raiseVars, Unpaid
<1>5. ASSUME NEW r \in Raises, RaiseCheck(r) \/ RaiseNumber(r) PROVE CoversInv'
  <2>1. UNCHANGED <<settled, bill, covers, invoice>> /\ Unpaid' = Unpaid
    BY <1>5, Zenon DEF RaiseCheck, RaiseNumber, Unpaid
  <2>3. overlapped => overlapped'
    BY <1>5, Zenon DEF RaiseCheck, RaiseNumber
  <2>2. \A o \in Raises : raising'[o] \in {"billed", "numbered"} =>
                            raising[o] \in {"billed", "numbered"}
    BY <1>0, <1>5 DEF RaiseCheck, RaiseNumber, SumsOK
  <2> QED BY <2>1, <2>2, <2>3, SumsStay
<1>6. ASSUME NEW i \in Raises, SubmitProof(i) \/ FallDue(i) PROVE CoversInv'
  BY <1>0, <1>6, SumsStay DEF SubmitProof, FallDue, SumsOK, Unpaid, raiseVars
<1>7. CASE MarkOverdue
  <2>1. /\ UNCHANGED <<settled, raising, bill, covers, overlapped>>
        /\ \A r \in Raises : \/ invoice'[r] = invoice[r]
                             \/ invoice[r] \in {"open", "submitted"} /\ invoice'[r] = "overdue"
    BY <1>7, Zenon DEF MarkOverdue, raiseVars
  <2>2. /\ \A r \in Raises : invoice'[r] = "paid" <=> invoice[r] = "paid"
        /\ Unpaid' \subseteq Unpaid
    BY <2>1 DEF Unpaid
  <2> QED BY <2>1, <2>2, SumsStay
<1>8. CASE NextDay \/ UNCHANGED officeVars
  BY <1>8, SumsStay DEF NextDay, officeVars, saleVars, raiseVars, Unpaid
<1> QED BY <1>1, <1>2, <1>3, <1>4, <1>5, <1>6, <1>7, <1>8 DEF CommissionNext

\* A settlement pays for the sales its invoice was raised on and for no later one,
\* for any number of sales, raises and days.
THEOREM NoSaleIsForgivenHolds == CommissionSpec => []NoSaleIsForgiven
<1>1. CoversInv => NoSaleIsForgiven
  BY DEF CoversInv
<1> QED BY <1>1, InitCovers, CoversStep, BilledAlways, PTL DEF CommissionSpec

\* A locked gate opens by a settled invoice alone.
THEOREM OnlyPaymentReopens == CommissionSpec => OnlyPaymentReopensTheGate
<1> DEFINE Reopens == ScannerIsLocked /\ ~ ScannerIsLocked' =>
                         \E i \in due : invoice[i] # "paid" /\ invoice'[i] = "paid"
<1>1. BilledInv /\ [CommissionNext]_officeVars => [Reopens]_officeVars
  <2> SUFFICES ASSUME BilledInv, [CommissionNext]_officeVars, ScannerIsLocked, ~ ScannerIsLocked'
               PROVE  \E i \in due : invoice[i] # "paid" /\ invoice'[i] = "paid"
    OBVIOUS
  <2>1. PICK i \in due : i \in Unpaid
    BY DEF ScannerIsLocked
  <2>2. due \subseteq due'
    BY DEF CommissionNext, RecordSale, RaiseCheck, RaiseOwed, RaiseNumber, RaiseInsert, SubmitProof,
           Settle, MarkOverdue, FallDue, NextDay, officeVars
  <2>3. i \notin Unpaid'
    BY <2>1, <2>2 DEF ScannerIsLocked
  <2>4. invoice \in [Raises -> InvoiceStates] /\ i \in Raises
        /\ invoice[i] \in {"open", "submitted", "overdue"}
    BY <2>1 DEF BilledInv, SumsOK, Unpaid
  <2>5. invoice'[i] \in {"open", "submitted", "overdue", "paid"}
    BY <2>4 DEF InvoiceStates, CommissionNext, RecordSale, RaiseCheck, RaiseOwed, RaiseNumber,
           RaiseInsert, SubmitProof, Settle, MarkOverdue, FallDue, NextDay, officeVars
  <2> QED BY <2>1, <2>3, <2>4, <2>5 DEF Unpaid
<1> QED BY <1>1, BilledAlways, PTL DEF CommissionSpec, OnlyPaymentReopensTheGate

=============================================================================
