------------------------------ MODULE Checkout ------------------------------
(***************************************************************************)
(* One hold on its way to being paid: the buyer's requests, the Stripe     *)
(* Checkout Sessions opened for it, the webhook and the success page that  *)
(* fulfil it, and the admin who stops the event.                           *)
(*                                                                         *)
(* Every handler is asynchronous: each action below is what happens        *)
(* between two of its awaits, so any other handler may run in between, and *)
(* a handler may die (a timeout, a restart) at any await.                  *)
(*                                                                         *)
(* Time is abstract: a hold may lapse when no session of it is open, which *)
(* is what HoldTiming shows of the real minutes.                           *)
(***************************************************************************)
EXTENDS Naturals, FiniteSets

CONSTANTS
    Sessions,    \* Stripe session ids, in the order they are created
    Calls,       \* requests the buyer's browser sends
    Buyers,      \* name, e-mail, phone and account, as one value
    Contact,     \* the first three of them, which is all an idempotency key has
    Workers,     \* handlers of webhook deliveries and success pages
    Prices,      \* totals the hold may be quoted at
    MaxExtends,  \* bound: times the hold is lengthened
    MaxFaults,   \* bound: handlers that die and database calls that fail
    CallKinds    \* the kinds of request the buyer sends

NoSession == 0
NoOrder == [session |-> NoSession, amount |-> 0]
NoData == [session |-> NoSession, amount |-> 0, buyer |-> "none"]

ASSUME CheckoutAssumption ==
    /\ Sessions \subseteq Nat \ {0} /\ IsFiniteSet(Sessions)
    /\ Prices \subseteq Nat
    /\ MaxExtends \in Nat /\ MaxFaults \in Nat
    /\ CallKinds \subseteq {"pay", "release", "reprice"}

\* Webhook events, by kind and session.
Events == {"completed", "expired"} \X Sessions

\* What fulfilment refuses for good, and what it asks Stripe to send again for.
Permanent == {"FORBIDDEN", "RESERVATION_EXPIRED", "EVENT_NOT_PUBLISHED"}
Transient == {"CONFLICT"}

VARIABLES
    published,  \* events.status = 'published'
    price,      \* what quoteReservation computes at this moment
    hold,       \* reservations.state
    lapsed,     \* reservations.expires_at has passed
    extends,    \* how often expires_at was moved
    data,       \* reservations.attendee_data: recorded session, snapshot, buyer
    order,      \* the order of the hold: its session and total
    stripe,     \* Stripe's sessions: status, amount_total, idempotency key
    handed,     \* sessions whose page the buyer has been sent to
    pc, my,     \* where each request is, and what it has read
    hook,       \* webhook_events: none, claimed, clean or the error
    sent,       \* events Stripe has created
    acked,      \* events answered with a 2xx
    unmarked,   \* events last answered with a 2xx for a refusal that mark did not write
    wpc, job,   \* where each worker is, and what it is working on
    closer,     \* closeOpenCheckouts: where it is, and the session it read
    faults      \* deaths and failed calls so far

holdVars == <<hold, lapsed, extends, data>>
callVars == <<pc, my>>
hookVars == <<hook, acked, unmarked>>
workVars == <<wpc, job>>
vars == <<published, price, holdVars, order, stripe, handed, callVars,
          hookVars, sent, workVars, closer, faults>>

NoCall == [kind |-> "none", amount |-> 0, buyer |-> "none", data |-> NoData,
           alive |-> FALSE, extends |-> 0, session |-> NoSession]
NoJob == [event |-> <<"none", NoSession>>, snapshot |-> 0, amount |-> 0, result |-> "none"]

Init ==
    /\ published = TRUE
    /\ price \in Prices
    /\ hold = "active" /\ lapsed = FALSE /\ extends = 0
    /\ data = NoData
    /\ order = NoOrder
    /\ stripe = [s \in Sessions |-> [status |-> "none", amount |-> 0, key |-> <<>>]]
    /\ handed = {}
    /\ pc = [c \in Calls |-> "new"] /\ my = [c \in Calls |-> NoCall]
    /\ hook = [e \in Events |-> "none"] /\ sent = {} /\ acked = {} /\ unmarked = {}
    /\ wpc = [w \in Workers |-> "idle"] /\ job = [w \in Workers |-> NoJob]
    /\ closer = [at |-> "off", session |-> NoSession]
    /\ faults = 0

Payable == hold = "active" /\ ~lapsed

\* quoteReservation answers.
Quoted == Payable /\ published

Status(s) == stripe[s].status

-----------------------------------------------------------------------------
(* Stripe and the buyer's browser (external) *)

\* Stripe ends session s and tells the webhook.
EndSession(s, status, kind) ==
    /\ stripe' = [stripe EXCEPT ![s].status = status]
    /\ sent' = sent \cup {<<kind, s>>}

\* The buyer pays on a page they were sent to.
BuyerPays(s) ==
    /\ s \in handed /\ Status(s) = "open"
    /\ EndSession(s, "complete", "completed")
    /\ UNCHANGED <<published, price, holdVars, order, handed, callVars, hookVars, workVars, closer, faults>>

\* Nobody paid by the session's expires_at.
SessionTimesOut(s) ==
    /\ Status(s) = "open"
    /\ EndSession(s, "timedOut", "expired")
    /\ UNCHANGED <<published, price, holdVars, order, handed, callVars, hookVars, workVars, closer, faults>>

-----------------------------------------------------------------------------
(* The hold's own life *)

\* expires_at passes; a request that has lengthened the hold opens its session
\* long before that.
Lapse ==
    /\ hold = "active" /\ ~lapsed
    /\ \A s \in Sessions : Status(s) # "open"
    /\ \A c \in Calls : pc[c] # "create"
    /\ lapsed' = TRUE
    /\ UNCHANGED <<published, price, hold, extends, data, order, stripe, handed, callVars, hookVars, sent, workVars, closer, faults>>

\* expire_stale_reservations, of this hold.
Sweep ==
    /\ hold = "active" /\ lapsed
    /\ hold' = "expired"
    /\ UNCHANGED <<published, price, lapsed, extends, data, order, stripe, handed, callVars, hookVars, sent, workVars, closer, faults>>

\* A fee, a tax or the organizer's price changes while the buyer is paying, or a
\* release that died half-way has given up the promo code.
PriceMoves ==
    /\ price' \in Prices \ {price}
    /\ UNCHANGED <<published, holdVars, order, stripe, handed, callVars, hookVars, sent, workVars, closer, faults>>

-----------------------------------------------------------------------------
(* The buyer's requests *)

Goto(c, label) == pc' = [pc EXCEPT ![c] = label]

\* The request is answered, or dead.
Finish(c) == Goto(c, "done") /\ my' = [my EXCEPT ![c] = NoCall]

\* A request that only moves on, or ends.
StepTo(c, label) ==
    /\ IF label = "done" THEN Finish(c) ELSE Goto(c, label) /\ UNCHANGED my
    /\ UNCHANGED <<published, price, holdVars, order, stripe, handed, hookVars, sent, workVars, closer, faults>>

\* createSession up to openSession (the price is quoted first), release, and
\* apply or remove of a promo code.
BeginCall(c) ==
    /\ pc[c] = "new"
    /\ \E kind \in CallKinds, b \in Buyers :
          /\ kind = "pay" => Quoted
          /\ kind = "reprice" => hold = "active"
          /\ my' = [my EXCEPT ![c] = [NoCall EXCEPT !.kind = kind, !.buyer = b, !.amount = price]]
          /\ Goto(c, IF kind = "pay" THEN "read" ELSE "peek")
    /\ UNCHANGED <<published, price, holdVars, order, stripe, handed, hookVars, sent, workVars, closer, faults>>

\* readReservation: the row as this request will see it from here on.
ReadHold(c, next) ==
    /\ my' = [my EXCEPT ![c].data = data, ![c].alive = Payable, ![c].extends = extends]
    /\ Goto(c, next)
    /\ UNCHANGED <<published, price, holdVars, order, stripe, handed, hookVars, sent, workVars, closer, faults>>

\* Where closeOpenSession returns to.
AfterClose(c) ==
    CASE my[c].kind = "pay" -> "reread" [] my[c].kind = "release" -> "release" [] OTHER -> "reprice"

OpenReads(c) ==
    \/ pc[c] = "read"   /\ ReadHold(c, IF data.session = NoSession THEN "cover" ELSE "ask")
    \/ pc[c] = "reread" /\ ReadHold(c, "cover")

CloseReads(c) ==
    pc[c] = "peek" /\ ReadHold(c, IF data.session = NoSession THEN AfterClose(c) ELSE "look")

\* Mutation: a session that no longer matches is left open.
Unmatched_LeftOpen(c) == "cover"

\* openSession closes a session that no longer matches before it opens another.
Unmatched(c) == "peek"

\* openSession asks Stripe for the recorded session: a paid one goes to its
\* receipt, one that still matches is handed out again.
OpenAsks(c) ==
    LET s == my[c].data.session
        same == my[c].data.buyer = my[c].buyer /\ stripe[s].amount = my[c].amount
    IN
    /\ pc[c] = "ask"
    /\ \/ Status(s) = "complete" /\ StepTo(c, "done")
       \/ Status(s) = "open" /\ same /\ StepTo(c, "done")
       \/ Status(s) # "complete" /\ ~(Status(s) = "open" /\ same) /\ StepTo(c, Unmatched(c))

\* closeOpenSession asks Stripe: a paid session refuses the change.
CloseAsks(c) ==
    LET s == my[c].data.session IN
    /\ pc[c] = "look"
    /\ StepTo(c, CASE Status(s) = "complete" -> "done" [] Status(s) = "open" -> "expire" [] OTHER -> "forget")

\* closeOpenSession makes the session unpayable; it looks again if it cannot.
CloseExpires(c) ==
    LET s == my[c].data.session IN
    /\ pc[c] = "expire"
    /\ IF Status(s) = "open"
       THEN /\ EndSession(s, "closed", "expired")
            /\ Goto(c, "forget")
            /\ UNCHANGED <<published, price, holdVars, order, handed, my, hookVars, workVars, closer, faults>>
       ELSE StepTo(c, IF Status(s) = "complete" THEN "done" ELSE "forget")

\* ... and forgets it, writing back the rest of what it read before.  That the
\* UPDATE fails is logged, and the request goes on.
CloseForgets(c) ==
    /\ pc[c] = "forget"
    /\ \/ data' = [NoData EXCEPT !.buyer = my[c].data.buyer] /\ UNCHANGED faults
       \/ faults < MaxFaults /\ faults' = faults + 1 /\ UNCHANGED data
    /\ Goto(c, AfterClose(c))
    /\ UNCHANGED <<published, price, hold, lapsed, extends, order, stripe, handed, my, hookVars, sent, workVars, closer>>

\* ensureHoldCoversSession: the hold as read is long enough, or an UPDATE that
\* checks the row again lengthens it, or another request just did.
OpenCovers(c) ==
    /\ pc[c] = "cover"
    /\ \/ ~my[c].alive /\ StepTo(c, "done")
       \/ my[c].alive /\ ~lapsed /\ StepTo(c, "create")
       \/ /\ my[c].alive /\ Payable /\ extends = my[c].extends /\ extends < MaxExtends
          /\ extends' = extends + 1
          /\ my' = [my EXCEPT ![c].extends = extends + 1]
          /\ Goto(c, "create")
          /\ UNCHANGED <<published, price, hold, lapsed, data, order, stripe, handed, hookVars, sent, workVars, closer, faults>>
       \/ /\ my[c].alive /\ hold = "active" /\ extends > my[c].extends
          /\ my' = [my EXCEPT ![c].extends = extends]
          /\ Goto(c, "create")
          /\ UNCHANGED <<published, price, holdVars, order, stripe, handed, hookVars, sent, workVars, closer, faults>>
       \/ my[c].alive /\ ~Payable /\ StepTo(c, "done")

\* idempotencyKey: the account the buyer has with us is no part of it.
Key(c) == <<my[c].amount, Contact[my[c].buyer], my[c].extends>>

\* createCheckoutSession: Stripe answers a key it knows with the session it made
\* for it, whatever became of that session.
OpenCreates(c) ==
    LET known == {s \in Sessions : Status(s) # "none" /\ stripe[s].key = Key(c)}
        fresh == {s \in Sessions : Status(s) = "none"}
        s     == CHOOSE x \in IF known # {} THEN known ELSE fresh :
                    \A y \in IF known # {} THEN known ELSE fresh : x <= y
    IN
    /\ pc[c] = "create"
    /\ known # {} \/ fresh # {}
    /\ my' = [my EXCEPT ![c].session = s]
    /\ stripe' = IF known # {} THEN stripe
                 ELSE [stripe EXCEPT ![s] = [status |-> "open", amount |-> my[c].amount, key |-> Key(c)]]
    /\ Goto(c, "record")
    /\ UNCHANGED <<published, price, holdVars, order, handed, hookVars, sent, workVars, closer, faults>>

\* The session, its snapshot and the buyer are recorded, and the page handed out.
OpenRecords(c) ==
    LET s == my[c].session IN
    /\ pc[c] = "record"
    /\ data' = [session |-> s, amount |-> my[c].amount, buyer |-> my[c].buyer]
    /\ handed' = handed \cup {s}
    /\ Finish(c)
    /\ UNCHANGED <<published, price, hold, lapsed, extends, order, stripe, hookVars, sent, workVars, closer, faults>>

\* The record could not be written: the session is expired, best effort.
RecordFails(c) ==
    LET s == my[c].session IN
    /\ pc[c] = "record" /\ faults < MaxFaults
    /\ faults' = faults + 1
    /\ Finish(c)
    /\ IF Status(s) = "open" THEN EndSession(s, "closed", "expired") ELSE UNCHANGED <<stripe, sent>>
    /\ UNCHANGED <<published, price, holdVars, order, handed, hookVars, workVars, closer>>

\* release_reservation: only a paid hold is refused.
Released == IF hold = "converted" THEN "converted" ELSE "released"

ReleaseCall(c) ==
    /\ pc[c] = "release"
    /\ hold' = Released
    /\ Finish(c)
    /\ UNCHANGED <<published, price, lapsed, extends, data, order, stripe, handed, hookVars, sent, workVars, closer, faults>>

\* apply and remove: the code is claimed or given up, and the total changes.
RepriceCall(c) ==
    /\ pc[c] = "reprice"
    /\ price' \in IF hold = "active" THEN Prices ELSE {price}
    /\ Finish(c)
    /\ UNCHANGED <<published, holdVars, order, stripe, handed, hookVars, sent, workVars, closer, faults>>

\* A request dies at an await: Stripe or the database failed, or a restart.
CallDies(c) ==
    /\ pc[c] \notin {"new", "done"} /\ faults < MaxFaults
    /\ faults' = faults + 1
    /\ Finish(c)
    /\ UNCHANGED <<published, price, holdVars, order, stripe, handed, hookVars, sent, workVars, closer>>

-----------------------------------------------------------------------------
(* The webhook and the success page *)

\* Mutation: an event seen before is taken for an event done before.
Seen_IsDone(e) == hook[e] # "none"

\* Only a delivery that finished cleanly makes the next one a duplicate.
Seen(e) == hook[e] = "clean"

\* Worker w is done with its job.
Free(w) == wpc' = [wpc EXCEPT ![w] = "idle"] /\ job' = [job EXCEPT ![w] = NoJob]

Take(w, e) == wpc' = [wpc EXCEPT ![w] = "match"] /\ job' = [job EXCEPT ![w] = [NoJob EXCEPT !.event = e]]

\* Stripe delivers an event, again if it was not answered with a 2xx, and now
\* and then without a reason.
Deliver(w, e) ==
    /\ wpc[w] = "idle" /\ e \in sent
    /\ IF Seen(e) THEN acked' = acked \cup {e} /\ UNCHANGED <<hook, unmarked, workVars>>
       ELSE /\ hook' = [hook EXCEPT ![e] = IF @ = "none" THEN "claimed" ELSE @]
            /\ Take(w, e)
            /\ UNCHANGED <<acked, unmarked>>
    /\ UNCHANGED <<published, price, holdVars, order, stripe, handed, callVars, sent, closer, faults>>

\* checkoutResult: the buyer comes back from Stripe.  The session is looked up
\* in our own records, and an order that exists is shown as it is.
OpenSuccessPage(w, s) ==
    /\ wpc[w] = "idle" /\ s \in handed /\ Status(s) = "complete"
    /\ order = NoOrder /\ data.session = s
    /\ Take(w, <<"page", s>>)
    /\ UNCHANGED <<published, price, holdVars, order, stripe, handed, callVars, hookVars, sent, closer, faults>>

IsFor(w, kind) == job[w].event[1] \in kind
JobSession(w) == job[w].event[2]

Working(w, label, result) ==
    /\ wpc' = [wpc EXCEPT ![w] = label]
    /\ job' = [job EXCEPT ![w].result = result]

OnlyWorked == UNCHANGED <<published, price, holdVars, order, stripe, handed, callVars, hookVars, sent, closer, faults>>

\* fulfillFromSession: the payment counts only if it is the recorded session.
MatchPayment(w) ==
    /\ wpc[w] = "match" /\ IsFor(w, {"completed", "page"})
    /\ IF data.session # JobSession(w) THEN Working(w, "mark", "FORBIDDEN")
       ELSE /\ wpc' = [wpc EXCEPT ![w] = IF hold = "active" THEN "quote" ELSE "fulfil"]
            /\ job' = [job EXCEPT ![w].snapshot = data.amount]
    /\ OnlyWorked

\* Mutation: the order records a fresh quote (T-012).
Breakdown_Requoted(charged, snapshot) == price

\* breakdownForFulfilment: the snapshot if Stripe charged it, else a new quote.
Breakdown(charged, snapshot) == IF charged = snapshot THEN snapshot ELSE price

\* quoteReservation, for a hold that was active.
QuotePayment(w) ==
    /\ wpc[w] = "quote"
    /\ IF Quoted
       THEN /\ wpc' = [wpc EXCEPT ![w] = "fulfil"]
            /\ job' = [job EXCEPT ![w].amount = Breakdown(stripe[JobSession(w)].amount, job[w].snapshot)]
       ELSE Working(w, "mark", IF Payable THEN "EVENT_NOT_PUBLISHED" ELSE "RESERVATION_EXPIRED")
    /\ OnlyWorked

\* fulfill_checkout, under the lock of the reservation's row.
Fulfil(w) ==
    /\ wpc[w] = "fulfil"
    /\ IF hold = "active" /\ published
       THEN /\ hold' = "converted"
            /\ order' = [session |-> JobSession(w), amount |-> job[w].amount]
            /\ Working(w, "mark", "clean")
       ELSE /\ Working(w, "mark", IF hold = "converted" THEN "clean"
                                  ELSE IF hold = "active" THEN "EVENT_NOT_PUBLISHED" ELSE "RESERVATION_EXPIRED")
            /\ UNCHANGED <<hold, order>>
    /\ UNCHANGED <<published, price, lapsed, extends, data, stripe, handed, callVars, hookVars, sent, closer, faults>>

\* The database call fails, which a retry may get over.
FulfilFails(w) ==
    /\ wpc[w] = "fulfil" /\ faults < MaxFaults
    /\ faults' = faults + 1
    /\ Working(w, "mark", "CONFLICT")
    /\ UNCHANGED <<published, price, holdVars, order, stripe, handed, callVars, hookVars, sent, closer>>

\* sessionIsOurs, for an expired session: is it the one recorded?
MatchExpired(w) ==
    /\ wpc[w] = "match" /\ IsFor(w, {"expired"})
    /\ Working(w, IF data.session = JobSession(w) THEN "giveBack" ELSE "mark", "clean")
    /\ OnlyWorked

\* "The buyer walked away": the webhook releases the hold.
GiveBack(w) ==
    /\ wpc[w] = "giveBack"
    /\ hold' = Released
    /\ Working(w, "mark", "clean")
    /\ UNCHANGED <<published, price, lapsed, extends, data, order, stripe, handed, callVars, hookVars, sent, closer, faults>>

\* Mutation: what cannot be fulfilled is filed as handled.
Filed_Clean(result) == IF result \in Permanent THEN "clean" ELSE result

\* What the row keeps of the result: an error is the operator's queue.
Filed(result) == result

\* mark: that its UPDATE fails is not looked at, and the row stays as it is.
Mark(e, result) ==
    \/ /\ hook' = [hook EXCEPT ![e] = Filed(result)]
       /\ unmarked' = unmarked \ {e}
       /\ UNCHANGED faults
    \/ /\ faults < MaxFaults /\ faults' = faults + 1
       /\ unmarked' = IF result \in Permanent THEN unmarked \cup {e} ELSE unmarked \ {e}
       /\ UNCHANGED hook

\* mark and the answer: 200 stops the retries, 500 asks for another, whether or
\* not the row was written.
Answer(w) ==
    LET e == job[w].event IN
    /\ wpc[w] = "mark"
    /\ IF IsFor(w, {"page"}) THEN UNCHANGED <<hookVars, faults>>
       ELSE /\ Mark(e, job[w].result)
            /\ acked' = IF job[w].result \in Transient THEN acked \ {e} ELSE acked \cup {e}
    /\ Free(w)
    /\ UNCHANGED <<published, price, holdVars, order, stripe, handed, callVars, sent, closer>>

\* The server dies in the middle of a delivery.
WorkerDies(w) ==
    /\ wpc[w] # "idle" /\ faults < MaxFaults
    /\ faults' = faults + 1
    /\ Free(w)
    /\ UNCHANGED <<published, price, holdVars, order, stripe, handed, callVars, hookVars, sent, closer>>

-----------------------------------------------------------------------------
(* The admin stops the event: closeOpenCheckouts, best effort *)

CloserAt(label, s) == closer' = [at |-> label, session |-> s]

StopEvent ==
    /\ published /\ closer.at = "off"
    /\ published' = FALSE
    /\ CloserAt("list", NoSession)
    /\ UNCHANGED <<price, holdVars, order, stripe, handed, callVars, hookVars, sent, workVars, faults>>

CloserLists ==
    /\ closer.at = "list"
    /\ IF hold # "active" THEN CloserAt("off", NoSession)
       ELSE CloserAt(IF data.session = NoSession THEN "release" ELSE "expire", data.session)
    /\ UNCHANGED <<published, price, holdVars, order, stripe, handed, callVars, hookVars, sent, workVars, faults>>

\* A session that cannot be expired is only logged.
CloserExpires ==
    /\ closer.at = "expire"
    /\ IF Status(closer.session) = "open" THEN EndSession(closer.session, "closed", "expired")
       ELSE UNCHANGED <<stripe, sent>>
    /\ CloserAt("release", closer.session)
    /\ UNCHANGED <<published, price, holdVars, order, handed, callVars, hookVars, workVars, faults>>

CloserReleases ==
    /\ closer.at = "release"
    /\ hold' = Released
    /\ CloserAt("off", NoSession)
    /\ UNCHANGED <<published, price, lapsed, extends, data, order, stripe, handed, callVars, hookVars, sent, workVars, faults>>

-----------------------------------------------------------------------------
CallStep(c) ==
    \/ OpenReads(c) \/ OpenAsks(c) \/ CloseReads(c) \/ CloseAsks(c) \/ CloseExpires(c)
    \/ CloseForgets(c) \/ OpenCovers(c) \/ OpenCreates(c) \/ OpenRecords(c)
    \/ ReleaseCall(c) \/ RepriceCall(c)

WorkerStep(w) ==
    \/ MatchPayment(w) \/ QuotePayment(w) \/ Fulfil(w)
    \/ MatchExpired(w) \/ GiveBack(w) \/ Answer(w)

CloserStep == CloserLists \/ CloserExpires \/ CloserReleases

Next ==
    \/ \E s \in Sessions : BuyerPays(s) \/ SessionTimesOut(s)
    \/ Lapse \/ Sweep \/ PriceMoves
    \/ \E c \in Calls : BeginCall(c) \/ CallStep(c) \/ RecordFails(c) \/ CallDies(c)
    \/ \E w \in Workers, e \in Events : Deliver(w, e)
    \/ \E w \in Workers, s \in Sessions : OpenSuccessPage(w, s)
    \/ \E w \in Workers : WorkerStep(w) \/ FulfilFails(w) \/ WorkerDies(w)
    \/ StopEvent \/ CloserStep

Spec == Init /\ [][Next]_vars

-----------------------------------------------------------------------------
(* Properties *)

TypeOK ==
    /\ published \in BOOLEAN /\ lapsed \in BOOLEAN /\ price \in Prices
    /\ hold \in {"active", "released", "expired", "converted"}
    /\ extends \in 0..MaxExtends /\ faults \in 0..MaxFaults
    /\ data.session \in Sessions \cup {NoSession} /\ data.buyer \in Buyers \cup {"none"}
    /\ order = NoOrder \/ (order.session \in Sessions /\ order.amount \in Prices)
    /\ \A s \in Sessions : Status(s) \in {"none", "open", "complete", "timedOut", "closed"}
    /\ handed \subseteq Sessions
    /\ unmarked \subseteq acked /\ acked \subseteq sent /\ sent \subseteq Events
    /\ pc \in [Calls -> {"new", "read", "ask", "peek", "look", "expire", "forget", "reread",
                         "cover", "create", "record", "release", "reprice", "done"}]
    /\ hook \in [Events -> {"none", "claimed", "clean"} \cup Permanent \cup Transient]
    /\ wpc \in [Workers -> {"idle", "match", "quote", "fulfil", "giveBack", "mark"}]
    /\ closer.at \in {"off", "list", "expire", "release"}

\* "Fulfilment records that snapshot, so the ledger matches what Stripe took":
\* whatever moved the price while the buyer paid, and whichever of the webhook
\* and the success page issued the tickets, the order is for a session that was
\* paid and for the amount that session charged.
OrderRecordsTheCharge ==
    order # NoOrder =>
        /\ Status(order.session) = "complete"
        /\ order.amount = stripe[order.session].amount

\* "ONE Stripe Checkout Session per hold": a page the buyer can pay, or has
\* paid, is the one our records name, so its payment is recognised.
PaymentsAreRecognised ==
    \A s \in handed : Status(s) \in {"open", "complete"} => data.session = s

\* A payment's webhook row is only filed as done when this very payment is what
\* the tickets were issued for; everything else stays in the operator's queue.
FiledMeansFulfilled ==
    \A s \in Sessions : hook[<<"completed", s>>] = "clean" => order.session = s

\* "2xx MEANS STOP RETRYING": in spite of deaths, retries and duplicates, no
\* payment's event is acknowledged before the payment has become an order or an
\* error somebody looks at.  There is one way past that: mark could not write the
\* error, and nobody noticed.
PaymentsAreAnswered ==
    \A s \in Sessions : <<"completed", s>> \in acked =>
        \/ order.session = s
        \/ hook[<<"completed", s>>] \in Permanent
        \/ <<"completed", s>> \in unmarked
=============================================================================
