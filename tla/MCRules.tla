------------------------------ MODULE MCRules -------------------------------
(***************************************************************************)
(* Components that share no state with one another, each on its own: the   *)
(* minutes of a hold, the allocation of a tier, the price of an order, the *)
(* commission's invoices, an event's status and the AI allowance.  A       *)
(* behaviour runs one of them, and the others stay as they begin.          *)
(*                                                                         *)
(* The minutes of a hold are scaled down: a session takes 1, the margin    *)
(* and the skew are 2, a new hold lasts 3 and Pay makes it 4.              *)
(***************************************************************************)
EXTENDS HoldTiming, TierStock, Money, Commission, EventLife, Generations, TLC

CONSTANTS p1, p2, p3, tier, o1, o2, o3, s1, s2, r1, r2, c1, c2, q1, q2, ann, ben, d1, d2, d3

VARIABLE part

MCPays == {p1, p2, p3}
OneTier == {tier}
ThreeOrders == {o1, o2, o3}
MCSales == {s1, s2}
MCFee == s1 :> 1 @@ s2 :> 2
MCRaises == {r1, r2}
MCCalls == {c1, c2}
MCRequests == {q1, q2}
MCOrganizers == {ann, ben}
MCDrafts == {d1, d2, d3}

\* A free order, one cent, and prices at which the rounding differs.
MCSubtotals == {0, 1, 2517, 9999}
MCDiscounts == {0, 2517}
NoneOrSome(some) == {0, some}
Gst == NoneOrSome(1300)
Cut == NoneOrSome(150)

Parts == {"hold", "tier", "money", "commission", "event", "drafts"}

\* Of the parts that may begin in several states, only the one that runs does.
AnOrder == CHOOSE o \in OrderShapes : TRUE
NoPlaces == [t \in Tiers |-> 0]

RulesInit ==
    /\ part \in Parts
    /\ Init /\ (part = "hold" \/ createdAt = 0)
    /\ TierInit /\ (part = "tier" \/ quantity = NoPlaces)
    /\ MoneyInit /\ (part = "money" \/ order = AnOrder)
    /\ CommissionInit /\ EventInit /\ GenerationsInit

RulesNext ==
    /\ UNCHANGED part
    /\ \/ part = "hold" /\ Next
          /\ UNCHANGED <<tierVars, moneyVars, officeVars, eventVars, draftVars>>
       \/ part = "tier" /\ TierNext
          /\ UNCHANGED <<vars, moneyVars, officeVars, eventVars, draftVars>>
       \/ part = "money" /\ QuoteOrder
          /\ UNCHANGED <<vars, tierVars, officeVars, eventVars, draftVars>>
       \/ part = "commission" /\ CommissionNext
          /\ UNCHANGED <<vars, tierVars, moneyVars, eventVars, draftVars>>
       \/ part = "event" /\ EventNext
          /\ UNCHANGED <<vars, tierVars, moneyVars, officeVars, draftVars>>
       \/ part = "drafts" /\ GenerationsNext
          /\ UNCHANGED <<vars, tierVars, moneyVars, officeVars, eventVars>>

allVars == <<part, vars, tierVars, moneyVars, officeVars, eventVars, draftVars>>

RulesSpec == RulesInit /\ [][RulesNext]_allVars

\* Only the event's status.
EventAlone == RulesInit /\ part = "event" /\ [][RulesNext]_allVars

Symmetry == Permutations(MCPays)
=============================================================================
