---------------------------- MODULE MCStockLocks ----------------------------
(***************************************************************************)
(* Two tables, the first with two seats, and three or four transactions.   *)
(* Beside them, in behaviours of its own, what nothing but a row lock      *)
(* keeps right as well: the uses of a code.                                *)
(***************************************************************************)
EXTENDS StockTickets, PromoCodes, TLC

CONSTANTS s1, s2, s3, x1, x2, x3, x4, h1, h2, code, freeCode

VARIABLE part

MCTables == {1, 2}
MCSeats == {s1, s2, s3}
MCTableOf == s1 :> 1 @@ s2 :> 1 @@ s3 :> 2
Three == {x1, x2, x3}
Four == {x1, x2, x3, x4}

\* One table with two seats.
OneTable == {1}
OneTableSeats == {s1, s2}
OneTableOf == s1 :> 1 @@ s2 :> 1

TwoHolds == {h1, h2}
MCCodes == {code, freeCode}
MCFreeCodes == {freeCode}

RowsInit == part \in {"stock", "codes"} /\ TicketInit /\ PromoInit

RowsNext ==
    /\ UNCHANGED part
    /\ \/ part = "stock" /\ TicketNext /\ UNCHANGED promoVars
       \/ part = "codes" /\ PromoNext /\ UNCHANGED ticketVars

RowsSpec == RowsInit /\ [][RowsNext]_<<part, ticketVars, promoVars>>

\* Only the stock.
StockAlone == RowsInit /\ part = "stock" /\ [][RowsNext]_<<part, ticketVars, promoVars>>

Symmetry == Permutations({s1, s2}) \cup Permutations(Three)
SymmetryOfFour == Permutations({s1, s2}) \cup Permutations(Four)
=============================================================================
