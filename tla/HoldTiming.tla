----------------------------- MODULE HoldTiming -----------------------------
(***************************************************************************)
(* The minutes of one hold: how Pay requests lengthen it, when the Stripe  *)
(* sessions opened for it end, and when the sweeper may take it.  Checkout *)
(* relies on what this module shows: no session can be paid when its hold  *)
(* lapses.                                                                 *)
(*                                                                         *)
(* Three clocks are involved: the API's Date.now(), Postgres' now() in the *)
(* sweep, and Stripe's.  Stripe's is `now`; the others may be Skew off.    *)
(* Closing a session early only makes fewer of them payable: left out.     *)
(***************************************************************************)
EXTENDS Integers

CONSTANTS
    Pays,            \* Pay requests; a session is named by the one that made it
    MinSession,      \* STRIPE_MIN_SESSION_MIN
    Margin,          \* SESSION_MARGIN_MIN
    HoldAtCheckout,  \* HOLD_AT_CHECKOUT_MIN
    Ttl,             \* RESERVATION_TTL_MINUTES: a new hold's life
    MaxLife,         \* maxHoldLifeMinutes()
    Skew,            \* how far two clocks may be apart
    MaxTime          \* bound of the clock

\* What an open session needs of the hold, and a minute more.
Needed == MinSession + Margin + 1

ASSUME TimingAssumption ==
    /\ MinSession \in Nat \ {0} /\ Margin \in Nat /\ Skew \in Nat /\ MaxTime \in Nat
    /\ Ttl \in Nat /\ MaxLife \in Nat /\ HoldAtCheckout \in Nat
    /\ Ttl <= MaxLife
    /\ Needed <= HoldAtCheckout
    /\ Skew <= Margin

VARIABLES
    now,         \* Stripe's clock, in minutes
    createdAt,   \* reservations.created_at, by Postgres' clock
    hold,        \* reservations.state: active, expired, or gone (released, paid)
    expiresAt,   \* reservations.expires_at
    pc,          \* where each Pay request is
    seen,        \* the expires_at it has read
    at,          \* the Date.now() it plans with
    until,       \* the expires_at its session is made for
    sessionEnd,  \* expires_at of the session it made; 0: none
    paid         \* sessions that were paid

vars == <<now, createdAt, hold, expiresAt, pc, seen, at, until, sessionEnd, paid>>
rowVars == <<now, createdAt, hold, expiresAt>>
sessionVars == <<sessionEnd, paid>>

\* What another clock than Stripe's may show.
Clocks == (now - Skew)..(now + Skew)

Init ==
    /\ now = 0 /\ createdAt \in Clocks
    /\ hold = "active" /\ expiresAt = createdAt + Ttl
    /\ pc = [c \in Pays |-> "new"]
    /\ seen = [c \in Pays |-> 0] /\ at = [c \in Pays |-> 0] /\ until = [c \in Pays |-> 0]
    /\ sessionEnd = [c \in Pays |-> 0]
    /\ paid = {}

Goto(c, label) == pc' = [pc EXCEPT ![c] = label]

-----------------------------------------------------------------------------
(* openSession *)

\* readReservation.
Read(c) ==
    /\ pc[c] = "new" /\ hold = "active"
    /\ seen' = [seen EXCEPT ![c] = expiresAt]
    /\ Goto(c, "plan")
    /\ UNCHANGED <<rowVars, at, until, sessionVars>>

\* Mutation: the cap on a hold's life is forgotten.
MayExtend_NoCap(clock) == TRUE

\* planHold: a hold may not be kept alive past its cap.
MayExtend(clock) == clock + HoldAtCheckout <= createdAt + MaxLife

\* planHold, with the request's own clock.
Plan(c) ==
    /\ pc[c] = "plan"
    /\ \E clock \in Clocks :
          /\ at' = [at EXCEPT ![c] = clock]
          /\ IF seen[c] > clock /\ seen[c] >= clock + Needed
             THEN until' = [until EXCEPT ![c] = seen[c]] /\ Goto(c, "create")
             ELSE /\ Goto(c, IF seen[c] > clock /\ MayExtend(clock) THEN "extend" ELSE "done")
                  /\ UNCHANGED until
    /\ UNCHANGED <<rowVars, seen, sessionVars>>

\* Mutation: the UPDATE does not ask whether the hold is still too short.
StillTooShort_NotAsked(c) == expiresAt > at[c]

\* The UPDATE's conditions on expires_at.
StillTooShort(c) == expiresAt > at[c] /\ expiresAt < at[c] + Needed

\* The conditional UPDATE.
Extend(c) ==
    /\ pc[c] = "extend"
    /\ IF hold = "active" /\ StillTooShort(c)
       THEN /\ expiresAt' = at[c] + HoldAtCheckout
            /\ until' = [until EXCEPT ![c] = at[c] + HoldAtCheckout]
            /\ Goto(c, "create")
       ELSE Goto(c, "reread") /\ UNCHANGED <<expiresAt, until>>
    /\ UNCHANGED <<now, createdAt, hold, seen, at, sessionVars>>

\* It matched no row: another request may have lengthened the hold.
Reread(c) ==
    /\ pc[c] = "reread"
    /\ IF hold = "active" /\ expiresAt >= at[c] + Needed
       THEN until' = [until EXCEPT ![c] = expiresAt] /\ Goto(c, "create")
       ELSE Goto(c, "done") /\ UNCHANGED until
    /\ UNCHANGED <<rowVars, seen, at, sessionVars>>

\* Mutation: the session may be paid as long as the hold lasts.
SessionExpiryFor_NoMargin(holdExpiresAt) == holdExpiresAt

SessionExpiryFor(holdExpiresAt) == holdExpiresAt - Margin

\* createCheckoutSession: Stripe refuses a session that is too short.
Create(c) ==
    /\ pc[c] = "create"
    /\ sessionEnd' = IF SessionExpiryFor(until[c]) >= now + MinSession
                     THEN [sessionEnd EXCEPT ![c] = SessionExpiryFor(until[c])] ELSE sessionEnd
    /\ Goto(c, "done")
    /\ UNCHANGED <<rowVars, seen, at, until, paid>>

-----------------------------------------------------------------------------
(* Time, the buyer and the sweeper *)

Payable(c) == sessionEnd[c] # 0 /\ c \notin paid /\ now < sessionEnd[c]

Pay(c) ==
    /\ Payable(c)
    /\ paid' = paid \cup {c}
    /\ UNCHANGED <<rowVars, pc, seen, at, until, sessionEnd>>

\* expire_stale_reservations.
Sweep ==
    /\ hold = "active"
    /\ \E clock \in Clocks : expiresAt < clock
    /\ hold' = "expired"
    /\ UNCHANGED <<now, createdAt, expiresAt, pc, seen, at, until, sessionVars>>

\* The hold is paid for or released.
EndHold ==
    /\ hold = "active"
    /\ hold' = "gone"
    /\ UNCHANGED <<now, createdAt, expiresAt, pc, seen, at, until, sessionVars>>

Tick ==
    /\ now < MaxTime
    /\ now' = now + 1
    /\ UNCHANGED <<createdAt, hold, expiresAt, pc, seen, at, until, sessionVars>>

Step(c) == Read(c) \/ Plan(c) \/ Extend(c) \/ Reread(c) \/ Create(c) \/ Pay(c)

Next == (\E c \in Pays : Step(c)) \/ Sweep \/ EndHold \/ Tick

Spec == Init /\ [][Next]_vars

-----------------------------------------------------------------------------
(* Properties *)

TypeOK ==
    /\ now \in Nat /\ createdAt \in Int /\ expiresAt \in Int
    /\ hold \in {"active", "expired", "gone"}
    /\ pc \in [Pays -> {"new", "plan", "extend", "reread", "create", "done"}]
    /\ seen \in [Pays -> Int] /\ at \in [Pays -> Int] /\ until \in [Pays -> Int]
    /\ sessionEnd \in [Pays -> Int]
    /\ paid \subseteq Pays

\* "A session made under it can never outlive it": every session that was ever
\* opened leaves the webhook its margin before the hold may lapse, whichever of
\* several requests lengthened the hold with whichever stale reading of it.
SessionsEndFirst ==
    \A c \in Pays : sessionEnd[c] # 0 => sessionEnd[c] + Margin <= expiresAt

\* No buyer pays for seats the sweeper has given back, even with clocks apart.
NoPayableSessionOnSweptHold ==
    hold = "expired" => \A c \in Pays : ~ Payable(c)

\* "Pay is not a way to keep seats off sale indefinitely".
HoldLifeIsBounded == expiresAt <= createdAt + MaxLife

\* "A hold is only ever lengthened, never shortened".
HoldsAreOnlyLengthened == [][expiresAt' >= expiresAt]_vars

\* What makes them inductive: a session is only made for an expiry the hold had,
\* an extension fits under the cap, and a swept hold is over.
TimingInv ==
    /\ TypeOK
    /\ SessionsEndFirst
    /\ HoldLifeIsBounded
    /\ \A c \in Pays : pc[c] = "plan" => seen[c] <= expiresAt
    /\ \A c \in Pays : pc[c] = "extend" => at[c] + HoldAtCheckout <= createdAt + MaxLife
    /\ \A c \in Pays : pc[c] = "create" => until[c] <= expiresAt
    /\ hold = "expired" => expiresAt < now + Skew
=============================================================================
