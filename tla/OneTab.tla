------------------------------- MODULE OneTab -------------------------------
(***************************************************************************)
(* Checkout for two kinds of buyer: one with two tabs, whose requests      *)
(* overlap, and one who waits for each answer before sending the next      *)
(* request.  The server keeps nothing apart for the first: openSession     *)
(* reads, asks Stripe and records in separate steps without a lock.  What  *)
(* it promises of its sessions it promises the second, while webhooks,     *)
(* success pages, the admin and lapsing holds go on all the same.          *)
(***************************************************************************)
EXTENDS Checkout

VARIABLE tabs   \* the buyer has two tabs

tabVars == <<vars, tabs>>

AtMostOne(S) == \A a, b \in S : a = b

\* The buyer's browser has one request under way at a time.
InTurn == AtMostOne({c \in Calls : pc[c] \notin {"new", "done"}})

TabInit == Init /\ tabs \in BOOLEAN
TabNext == Next /\ UNCHANGED tabs /\ (~ tabs => InTurn')
TabSpec == TabInit /\ [][TabNext]_tabVars

\* "ONE Stripe Checkout Session per hold": for a buyer who waits for each answer,
\* PaymentsAreRecognised.
OneTabIsRecognised == ~ tabs => PaymentsAreRecognised

\* A payment filed as done is what the tickets were issued for: for a buyer who
\* waits for each answer, FiledMeansFulfilled.
OneTabIsFulfilled == ~ tabs => FiledMeansFulfilled

\* "2xx MEANS STOP RETRYING": for a buyer who waits for each answer,
\* PaymentsAreAnswered, the refusals that mark could not write excepted.
OneTabIsAnswered == ~ tabs => PaymentsAreAnswered

-----------------------------------------------------------------------------
(* What it all comes to *)

Standing == CASE hold = "active" -> "active" [] hold = "converted" -> "sold" [] OTHER -> "over"
Pages == [s \in Sessions |-> stripe[s].amount]
Charged == {s \in Sessions : Status(s) = "complete"}

\* "ONE Stripe Checkout Session per hold", and so one charge: a buyer who waits for
\* each answer pays a hold once.
OneTabIsChargedOnce == ~ tabs => AtMostOne(Charged)

Promise == INSTANCE Purchase WITH standing <- Standing, page <- Pages, charged <- Charged

\* "ONE Stripe Checkout Session per hold" and "fulfilment records that snapshot":
\* all that requests, Stripe, webhooks, success pages, the sweep and the admin do
\* to a hold comes to one purchase, whichever of the buyers it is.
EachHoldIsOnePurchase == Promise!Spec
=============================================================================
