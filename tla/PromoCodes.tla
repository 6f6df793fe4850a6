----------------------------- MODULE PromoCodes -----------------------------
(***************************************************************************)
(* The uses of discount codes.  A use is a row of promo_redemptions: it is *)
(* claimed while the hold is open, kept when the hold is paid and given    *)
(* back when it ends.  claim_promo_code counts the standing claims under   *)
(* the code's row lock; nothing locks the hold.                            *)
(*                                                                         *)
(* A checkout is a quote that is followed by a page to pay on, or at a     *)
(* total of zero by claimFree.  Between the quote and what follows, and    *)
(* between the closing of the page and the claim, the API awaits other     *)
(* calls.  The codes' dates and the amounts are left out.                  *)
(***************************************************************************)
EXTENDS Integers, FiniteSets

CONSTANTS
    Holds,
    Codes,
    NoCode,
    FreeCodes,   \* the codes that bring a hold's total to zero
    MaxUses      \* promo_codes.max_uses, the same for each

ASSUME PromoAssumption ==
    /\ IsFiniteSet(Holds)
    /\ MaxUses \in Nat /\ FreeCodes \subseteq Codes /\ NoCode \notin Codes

VARIABLES
    state,    \* reservations.state: active, converted or ended
    lapsed,   \* holds whose expires_at has passed
    claim,    \* promo_redemptions.promo_id of the hold's row
    linked,   \* holds whose row has an order_id
    buying,   \* its checkout: no, quoted, page (payable) or charged
    priced,   \* the code of that checkout's discount
    editing,  \* holds whose apply or remove request has closed the page
    bought,   \* the code of the discount on the hold's order
    mixed     \* holds of which an edit and a checkout overlapped

promoVars == <<state, lapsed, claim, linked, buying, priced, editing, bought, mixed>>
claimVars == <<claim, linked>>

PromoInit ==
    /\ state = [h \in Holds |-> "active"] /\ lapsed = {}
    /\ claim = [h \in Holds |-> NoCode] /\ linked = {}
    /\ buying = [h \in Holds |-> "no"] /\ priced = [h \in Holds |-> NoCode]
    /\ editing = {}
    /\ bought = [h \in Holds |-> NoCode]
    /\ mixed = {}

-----------------------------------------------------------------------------
(* Applying and removing a code *)

\* Mutation: an open hold does not use the code until it is paid.
Stands_WhenPaid(h) == h \in linked

\* A claim of a paid order, or of a hold that is open and not past its expiry.
Stands(h) ==
    \/ h \in linked
    \/ state[h] = "converted"
    \/ state[h] = "active" /\ h \notin lapsed

\* v_used: this hold's own claim does not compete with itself.
UsedByOthers(c, h) == {o \in Holds \ {h} : claim[o] = c /\ Stands(o)}

\* apply and remove read the hold, and closeOpenSession makes the page it knows
\* unpayable or refuses when it was paid.
StartEdit(h) ==
    /\ h \notin editing /\ state[h] = "active" /\ buying[h] # "charged"
    /\ editing' = editing \cup {h}
    /\ IF buying[h] = "page"
       THEN buying' = [buying EXCEPT ![h] = "no"] /\ priced' = [priced EXCEPT ![h] = NoCode]
       ELSE UNCHANGED <<buying, priced>>
    /\ mixed' = IF buying[h] = "quoted" THEN mixed \cup {h} ELSE mixed
    /\ UNCHANGED <<state, lapsed, claimVars, bought>>

\* claim_promo_code, whatever has become of the hold.
Apply(h) ==
    /\ h \in editing
    /\ \E c \in Codes : /\ Cardinality(UsedByOthers(c, h)) < MaxUses
                        /\ claim' = [claim EXCEPT ![h] = c]
    /\ editing' = editing \ {h}
    /\ UNCHANGED <<state, lapsed, linked, buying, priced, bought, mixed>>

\* Mutation: the claim of a paid order is given back as well.
MayFree_AnyClaim(h) == TRUE

\* release_promo_claim's condition.
MayFree(h) == h \notin linked /\ state[h] = "active"

\* release_promo_claim.
Remove(h) ==
    /\ h \in editing
    /\ claim' = IF MayFree(h) THEN [claim EXCEPT ![h] = NoCode] ELSE claim
    /\ editing' = editing \ {h}
    /\ UNCHANGED <<state, lapsed, linked, buying, priced, bought, mixed>>

\* The code is unknown, used up or off, or the request dies.
FailEdit(h) ==
    /\ h \in editing
    /\ editing' = editing \ {h}
    /\ UNCHANGED <<state, lapsed, claimVars, buying, priced, bought, mixed>>

-----------------------------------------------------------------------------
(* Checkouts *)

\* quoteReservation, for a page or for claimFree.
Quote(h) ==
    /\ buying[h] = "no" /\ state[h] = "active" /\ h \notin lapsed
    /\ buying' = [buying EXCEPT ![h] = "quoted"]
    /\ priced' = [priced EXCEPT ![h] = claim[h]]
    /\ mixed' = IF h \in editing THEN mixed \cup {h} ELSE mixed
    /\ UNCHANGED <<state, lapsed, claimVars, editing, bought>>

\* openSession, for a hold that still covers a page.
OpenPage(h) ==
    /\ buying[h] = "quoted" /\ priced[h] \notin FreeCodes
    /\ state[h] = "active" /\ h \notin lapsed
    /\ buying' = [buying EXCEPT ![h] = "page"]
    /\ UNCHANGED <<state, lapsed, claimVars, priced, editing, bought, mixed>>

\* The buyer pays.
Charge(h) ==
    /\ buying[h] = "page"
    /\ buying' = [buying EXCEPT ![h] = "charged"]
    /\ UNCHANGED <<state, lapsed, claimVars, priced, editing, bought, mixed>>

\* The page ends unpaid, or the request dies before there is one.
LeaveCheckout(h) ==
    /\ buying[h] \in {"quoted", "page"}
    /\ buying' = [buying EXCEPT ![h] = "no"]
    /\ priced' = [priced EXCEPT ![h] = NoCode]
    /\ UNCHANGED <<state, lapsed, claimVars, editing, bought, mixed>>

\* The claim of the hold, if any, gets the order.
Linked(h) == IF claim[h] = NoCode THEN linked ELSE linked \cup {h}

\* fulfill_checkout with the discount of the breakdown it is given.
Fulfil(h) ==
    /\ buying' = [buying EXCEPT ![h] = "no"]
    /\ priced' = [priced EXCEPT ![h] = NoCode]
    /\ IF state[h] = "active"
       THEN /\ state' = [state EXCEPT ![h] = "converted"]
            /\ linked' = Linked(h)
            /\ bought' = [bought EXCEPT ![h] = priced[h]]
       ELSE UNCHANGED <<state, linked, bought>>
    /\ UNCHANGED <<lapsed, claim, editing, mixed>>

\* The webhook or the success page, with the page's own breakdown.
DeliverPayment(h) == buying[h] = "charged" /\ Fulfil(h)

\* claimFree, after the terms are recorded.
ClaimFree(h) == buying[h] = "quoted" /\ priced[h] \in FreeCodes /\ Fulfil(h)

-----------------------------------------------------------------------------
(* Holds end *)

\* A page ends before its hold does: see HoldTiming.
Lapse(h) ==
    /\ state[h] = "active" /\ h \notin lapsed /\ buying[h] # "page"
    /\ lapsed' = lapsed \cup {h}
    /\ UNCHANGED <<state, claimVars, buying, priced, editing, bought, mixed>>

\* The hold ends and gives back the claim that has no order.
EndHoldOf(h) ==
    /\ state' = [state EXCEPT ![h] = "ended"]
    /\ claim' = IF h \in linked THEN claim ELSE [claim EXCEPT ![h] = NoCode]
    /\ UNCHANGED <<lapsed, linked, buying, priced, editing, bought, mixed>>

\* expire_stale_reservations.
SweepHold(h) == state[h] = "active" /\ h \in lapsed /\ EndHoldOf(h)

\* release_reservation, after the caller has closed the page.
ReleaseHold(h) == state[h] = "active" /\ buying[h] \in {"no", "quoted"} /\ EndHoldOf(h)

PromoNext ==
    \E h \in Holds :
        \/ StartEdit(h) \/ Apply(h) \/ Remove(h) \/ FailEdit(h)
        \/ Quote(h) \/ OpenPage(h) \/ Charge(h) \/ LeaveCheckout(h)
        \/ DeliverPayment(h) \/ ClaimFree(h)
        \/ Lapse(h) \/ SweepHold(h) \/ ReleaseHold(h)

PromoSpec == PromoInit /\ [][PromoNext]_promoVars

-----------------------------------------------------------------------------
(* Properties *)

PromoTypeOK ==
    /\ state \in [Holds -> {"active", "converted", "ended"}]
    /\ lapsed \subseteq Holds /\ linked \subseteq Holds
    /\ claim \in [Holds -> Codes \cup {NoCode}]
    /\ buying \in [Holds -> {"no", "quoted", "page", "charged"}]
    /\ priced \in [Holds -> Codes \cup {NoCode}]
    /\ editing \subseteq Holds /\ mixed \subseteq Holds
    /\ bought \in [Holds -> Codes \cup {NoCode}]

Buyers(c) == {h \in Holds : bought[h] = c}

\* "A code with a use limit is stock like a seat is stock": no more orders have
\* its discount than it has uses.  As long as no hold's edit and checkout
\* overlapped and none of its orders was paid with the hold past its expiry.
UsesWithinLimit ==
    mixed = {} => \A c \in Codes :
        Buyers(c) \cap lapsed = {} => Cardinality(Buyers(c)) <= MaxUses

\* "A paid order's claim is part of what was bought": it is not taken away,
\* whatever an edit in flight does, and an order with a discount has the claim
\* of that very code unless an edit overlapped.
OrderKeepsItsClaim ==
    \A h \in Holds :
        /\ h \in linked => claim[h] # NoCode
        /\ bought[h] # NoCode /\ h \notin mixed => claim[h] = bought[h] /\ h \in linked
=============================================================================
