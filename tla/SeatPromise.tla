----------------------------- MODULE SeatPromise -----------------------------
(***************************************************************************)
(* What the seat stock promises its buyers, with no tables, items, statuses *)
(* or clocks: a seat is free, held by one buyer or sold to one buyer.  A    *)
(* buyer takes all the seats asked for or none, later owns exactly those or *)
(* gives back exactly those, and a sold seat never changes hands again.     *)
(***************************************************************************)
CONSTANTS Seats, Buyers, Door, Nobody

VARIABLES state, owner

promiseVars == <<state, owner>>

Owned(b) == {s \in Seats : owner[s] = b}

Init ==
    /\ state \in [Seats -> {"absent", "free"}]
    /\ owner = [s \in Seats |-> Nobody]

\* The seats S of one owner change hands or state together.
Move(S, to, b) ==
    /\ state' = [s \in Seats |-> IF s \in S THEN to ELSE state[s]]
    /\ owner' = [s \in Seats |-> IF s \in S THEN b ELSE owner[s]]

Take(b, S) ==
    /\ Owned(b) = {} /\ S # {}
    /\ \A s \in S : state[s] = "free"
    /\ Move(S, "held", b)

Buy(b) ==
    /\ \A s \in Owned(b) : state[s] = "held"
    /\ Move(Owned(b), "sold", b)

GiveBack(B) ==
    LET S == {s \in Seats : owner[s] \in B} IN
    /\ \A s \in S : state[s] = "held"
    /\ Move(S, "free", Nobody)

SellAtDoor(d, S) ==
    /\ Owned(d) = {} /\ S # {}
    /\ \A s \in S : state[s] = "free"
    /\ Move(S, "sold", d)

Redraw(A, D) ==
    /\ \A s \in A : state[s] = "absent"
    /\ \A s \in D : state[s] = "free"
    /\ state' = [s \in Seats |-> IF s \in A THEN "free" ELSE IF s \in D THEN "absent" ELSE state[s]]
    /\ UNCHANGED owner

Next ==
    \/ \E b \in Buyers, S \in SUBSET Seats : Take(b, S)
    \/ \E b \in Buyers : Buy(b)
    \/ \E B \in SUBSET Buyers : GiveBack(B)
    \/ \E d \in Door, S \in SUBSET Seats : SellAtDoor(d, S)
    \/ \E A, D \in SUBSET Seats : Redraw(A, D)

Spec == Init /\ [][Next]_promiseVars
=============================================================================
