----------------------------- MODULE MCSeatStock -----------------------------
(* A small room for TLC: table t1 with up to three seats, table t2 with one. *)
EXTENDS SeatStock, TLC

CONSTANTS s1, s2, s3, s4, t1, t2, r1, r2, r3, d1

MCSeats == {s1, s2, s3, s4}
MCTables == {t1, t2}
MCTableOf == s1 :> t1 @@ s2 :> t1 @@ s3 :> t1 @@ s4 :> t2
MCReservations == {r1, r2, r3}
MCDoorSales == {d1}

\* Without symmetry, for liveness: two reservations are enough to compete.
LiveReservations == {r1, r2}

Symmetry == Permutations({s1, s2, s3}) \cup Permutations(MCReservations)
=============================================================================
