----------------------------- MODULE MCCheckout -----------------------------
(***************************************************************************)
(* One hold, two requests, two sessions, up to two prices and buyers.  A   *)
(* buyer either waits for each answer, and then two handlers race for the  *)
(* payment, or has two tabs and the hold can be lengthened, and then one   *)
(* handler runs at a time and nothing dies.                                *)
(***************************************************************************)
EXTENDS OneTab, TLC

CONSTANTS c1, c2, w1, w2, ann, ben

TwoSessions == {1, 2}
TwoCalls == {c1, c2}
OneWorker == {w1}
TwoWorkers == {w1, w2}
OneBuyer == {ann}
TwoBuyers == {ann, ben}
OwnContact == [b \in TwoBuyers \cup {"none"} |-> b]
OnePrice == {1}
TwoPrices == {1, 2}
PayOnly == {"pay"}
AnyCall == {"pay", "release", "reprice"}

\* Bounds, of the handlers under way, the times a hold is lengthened, and faults.
OneHandler == AtMostOne({w \in Workers : wpc[w] # "idle"})
NeverLengthened == extends = 0
NoFault == faults = 0

BuyerNext == TabNext /\ (IF tabs THEN OneHandler' /\ NoFault' ELSE NeverLengthened')
BuyerSpec == TabInit /\ [][BuyerNext]_tabVars

CallsAlike == Permutations(TwoCalls) \cup Permutations(TwoWorkers)
=============================================================================
