--------------------------- MODULE CheckoutProofs ---------------------------
(***************************************************************************)
(* The order records what Stripe charged, a buyer who waits for each       *)
(* answer pays one session of a hold, the recorded one, and all that       *)
(* happens to a hold is one purchase, for any number of requests,          *)
(* sessions, handlers, prices, extensions and deaths.                      *)
(***************************************************************************)
EXTENDS OneTab, WellFoundedInduction, TLAPS

Labels == {"new", "read", "ask", "peek", "look", "expire", "forget", "reread",
           "cover", "create", "record", "release", "reprice", "done"}
WorkLabels == {"idle", "match", "quote", "fulfil", "giveBack", "mark"}
Results == {"none", "clean"} \cup Permanent \cup Transient

Parties == Buyers \cup {"none"}
Records == [session : Nat, amount : Nat, buyer : Parties]
Requests == [kind : CallKinds \cup {"none"}, amount : Nat, buyer : Parties, data : Records,
             alive : BOOLEAN, extends : Nat, session : Nat]
Keys == {<<>>} \cup (Nat \X {Contact[b] : b \in Parties} \X Nat)
StripeSessions == [status : {"none", "open", "complete", "timedOut", "closed"}, amount : Nat, key : Keys]
Jobs == [event : {"none", "completed", "expired", "page"} \X Nat, snapshot : Nat, amount : Nat, result : Results]

\* The shapes of what the handlers share, and of what each has read.
Shapes ==
    /\ price \in Prices /\ extends \in Nat
    /\ data \in Records
    /\ stripe \in [Sessions -> StripeSessions]
    /\ pc \in [Calls -> Labels] /\ my \in [Calls -> Requests]
    /\ wpc \in [Workers -> WorkLabels] /\ job \in [Workers -> Jobs]

\* A session that exists charges the amount its idempotency key was made of.
KeysOK == \A s \in Sessions : Status(s) # "none" => stripe[s].key[1] = stripe[s].amount

\* Stripe reports a payment that was made.
PaidOK == \A s \in Sessions : <<"completed", s>> \in sent => Status(s) = "complete"

\* The amount is what session s charges.
IsCharge(s, amount) == s \in Sessions /\ Status(s) # "none" /\ amount = stripe[s].amount

\* The recorded snapshot is the recorded session's.
RecordOK == data.session # NoSession => IsCharge(data.session, data.amount)

\* A request is about to record the session Stripe made for its own amount.
CallsOK == \A c \in Calls : pc[c] = "record" => IsCharge(my[c].session, my[c].amount)

\* A handler of a payment has a paid session, took its snapshot while it was the
\* recorded one, and fulfils an active hold with nothing but that.
HandlerOK(w) ==
    /\ wpc[w] # "idle" => JobSession(w) \in Sessions
    /\ wpc[w] # "idle" /\ IsFor(w, {"completed", "page"}) => Status(JobSession(w)) = "complete"
    /\ wpc[w] \in {"quote", "fulfil"} => IsFor(w, {"completed", "page"})
    /\ wpc[w] = "quote" => job[w].snapshot = stripe[JobSession(w)].amount
    /\ wpc[w] = "fulfil" /\ hold = "active" => job[w].amount = stripe[JobSession(w)].amount

OrderOK ==
    order # NoOrder =>
        /\ order.session \in Sessions /\ Status(order.session) = "complete"
        /\ order.amount = stripe[order.session].amount

ChargeInv ==
    /\ Shapes /\ KeysOK /\ PaidOK /\ RecordOK /\ CallsOK /\ OrderOK
    /\ \A w \in Workers : HandlerOK(w)

LEMMA InitCharge == Init => ChargeInv
<1> SUFFICES ASSUME Init PROVE ChargeInv
  OBVIOUS
<1>1. NoData \in Records /\ NoCall \in Requests /\ NoJob \in Jobs /\ 0 \in Nat
  BY DEF NoData, NoCall, NoJob, Records, Requests, Jobs, Parties, NoSession, Results
<1>2. [status |-> "none", amount |-> 0, key |-> <<>>] \in StripeSessions
  BY DEF StripeSessions, Keys
<1>3. Shapes
  BY <1>1, <1>2 DEF Init, Shapes, Labels, WorkLabels
<1>4. KeysOK /\ PaidOK /\ RecordOK /\ OrderOK
  BY DEF Init, KeysOK, PaidOK, RecordOK, OrderOK, Status, NoData
<1>5. CallsOK /\ \A w \in Workers : HandlerOK(w)
  BY DEF Init, CallsOK, HandlerOK
<1> QED BY <1>3, <1>4, <1>5 DEF ChargeInv

-----------------------------------------------------------------------------
(* What Stripe does to its sessions *)

\* A session once made keeps its amount and its key, and a paid one stays paid.
Forward ==
    \A s \in Sessions : Status(s) # "none" =>
        /\ stripe'[s].status # "none" /\ stripe'[s].amount = stripe[s].amount
        /\ Status(s) = "complete" => stripe'[s].status = "complete"

StripeOK == stripe' \in [Sessions -> StripeSessions] /\ Forward /\ KeysOK' /\ PaidOK'

LEMMA StripeStays ==
    ASSUME ChargeInv, UNCHANGED <<stripe, sent>>
    PROVE  StripeOK
BY DEF ChargeInv, Shapes, KeysOK, PaidOK, StripeOK, Forward, Status

LEMMA SessionEnds ==
    ASSUME ChargeInv, NEW s, Status(s) = "open",
           NEW status \in {"complete", "timedOut", "closed"}, NEW kind,
           EndSession(s, status, kind), kind = "completed" => status = "complete"
    PROVE  StripeOK
<1>1. stripe' = [stripe EXCEPT ![s].status = status] /\ sent' = sent \cup {<<kind, s>>}
  BY DEF EndSession
<1>2. stripe \in [Sessions -> StripeSessions]
  BY DEF ChargeInv, Shapes
<1>3. \A x \in Sessions : /\ stripe'[x] \in StripeSessions
                          /\ stripe'[x].amount = stripe[x].amount /\ stripe'[x].key = stripe[x].key
                          /\ stripe'[x].status = IF x = s THEN status ELSE stripe[x].status
  BY <1>1, <1>2 DEF StripeSessions
<1>4. stripe' \in [Sessions -> StripeSessions]
  BY <1>1, <1>2, <1>3
<1>5. Forward /\ KeysOK'
  BY <1>3 DEF ChargeInv, KeysOK, Forward, Status
<1>6. PaidOK'
  <2> SUFFICES ASSUME NEW x \in Sessions, <<"completed", x>> \in sent' PROVE stripe'[x].status = "complete"
    BY DEF PaidOK, Status
  <2>1. CASE <<"completed", x>> \in sent
    BY <2>1, <1>3 DEF ChargeInv, PaidOK, Status
  <2>2. CASE <<"completed", x>> = <<kind, s>>
    BY <2>2, <1>3
  <2> QED BY <2>1, <2>2, <1>1
<1> QED BY <1>4, <1>5, <1>6 DEF StripeOK

\* Any set of session ids has a first.
LEMMA First ==
    ASSUME NEW T, T \subseteq Nat, T # {}
    PROVE  \E x \in T : \A y \in T : x <= y
<1> DEFINE R == OpToRel(<, Nat)
<1>1. IsWellFoundedOn(R, Nat)
  BY NatLessThanWellFounded
<1>2. R = {ss \in Nat \X Nat : ss[1] < ss[2]}
  BY DEF OpToRel
<1> HIDE DEF R
<1>3. PICK x \in T : \A y \in T : ~ (<<y, x>> \in R)
  BY <1>1, WFMin
<1>4. ASSUME NEW y \in T PROVE x <= y
  <2>1. /\ x \in Nat /\ y \in Nat
        /\ <<y, x>> \in Nat \X Nat /\ <<y, x>>[1] = y /\ <<y, x>>[2] = x
    OBVIOUS
  <2>2. ~ (y < x)
    BY <1>2, <1>3, <2>1
  <2> QED BY <2>1, <2>2
<1> QED BY <1>4

-----------------------------------------------------------------------------
(* Steps *)

\* A step in which no handler moves and no order is made.
LEMMA ElsewhereKeeps ==
    ASSUME ChargeInv, Shapes', StripeOK, RecordOK',
           UNCHANGED <<order, wpc, job>>, hold' = "active" => hold = "active",
           \A c \in Calls : pc'[c] = "record" =>
               (pc[c] = "record" /\ my'[c] = my[c]) \/ IsCharge(my[c].session, my[c].amount)'
    PROVE  ChargeInv'
<1>1. KeysOK' /\ PaidOK'
  BY DEF StripeOK
<1>2. CallsOK'
  BY DEF ChargeInv, CallsOK, StripeOK, Forward, IsCharge, Status
<1>3. OrderOK'
  BY DEF ChargeInv, OrderOK, StripeOK, Forward, Status
<1>4. ASSUME NEW w \in Workers PROVE HandlerOK(w)'
  <2>1. HandlerOK(w)
    BY DEF ChargeInv
  <2>2. UNCHANGED <<wpc[w], job[w], JobSession(w), IsFor(w, {"completed", "page"})>>
    BY DEF JobSession, IsFor
  <2>3. JobSession(w) \in Sessions /\ Status(JobSession(w)) = "complete" =>
          /\ stripe'[JobSession(w)].status = "complete"
          /\ stripe'[JobSession(w)].amount = stripe[JobSession(w)].amount
    BY DEF StripeOK, Forward
  <2> QED BY <2>1, <2>2, <2>3 DEF HandlerOK, Status
<1> QED BY <1>1, <1>2, <1>3, <1>4 DEF ChargeInv

\* The recorded session stays what it was while its record does.
LEMMA RecordStays ==
    ASSUME ChargeInv, StripeOK, UNCHANGED data
    PROVE  RecordOK'
BY DEF ChargeInv, RecordOK, StripeOK, Forward, IsCharge, Status

\* A step of one handler that leaves the sessions, the record and the requests.
LEMMA HandlerKeeps ==
    ASSUME ChargeInv, Shapes', UNCHANGED <<data, stripe, sent, pc, my>>, OrderOK',
           hold' = "active" => hold = "active",
           NEW w \in Workers, HandlerOK(w)',
           \A v \in Workers \ {w} : wpc'[v] = wpc[v] /\ job'[v] = job[v]
    PROVE  ChargeInv'
<1>1. KeysOK' /\ PaidOK' /\ RecordOK' /\ CallsOK'
  BY DEF ChargeInv, KeysOK, PaidOK, RecordOK, CallsOK, IsCharge, Status
<1>2. \A v \in Workers \ {w} : HandlerOK(v)'
  BY DEF ChargeInv, HandlerOK, JobSession, IsFor, Status
<1> QED BY <1>1, <1>2 DEF ChargeInv

LEMMA NoRequest == NoCall \in Requests /\ NoJob \in Jobs
BY DEF NoData, NoCall, NoJob, Records, Requests, Jobs, Parties, NoSession, Results

-----------------------------------------------------------------------------
(* The buyer's requests *)

\* A request that moves on to anything but recording a session.
LEMMA RequestKeeps ==
    ASSUME ChargeInv, NEW c \in Calls, NEW label \in Labels \ {"record"}, Goto(c, label),
           my' \in [Calls -> Requests], \A b \in Calls \ {c} : my'[b] = my[b],
           UNCHANGED <<order, wpc, job>>, hold' = "active" => hold = "active",
           price' \in Prices, extends' \in Nat, data' \in Records, StripeOK, RecordOK'
    PROVE  ChargeInv'
<1>1. pc' \in [Calls -> Labels] /\ pc'[c] = label /\ \A b \in Calls \ {c} : pc'[b] = pc[b]
  BY DEF ChargeInv, Shapes, Goto
<1>2. Shapes'
  BY <1>1 DEF ChargeInv, Shapes, StripeOK
<1> QED BY <1>1, <1>2, ElsewhereKeeps

LEMMA RequestEnds ==
    ASSUME ChargeInv, NEW c \in Calls, Finish(c),
           UNCHANGED <<order, wpc, job>>, hold' = "active" => hold = "active",
           price' \in Prices, extends' \in Nat, data' \in Records, StripeOK, RecordOK'
    PROVE  ChargeInv'
<1>1. my' \in [Calls -> Requests] /\ \A b \in Calls \ {c} : my'[b] = my[b]
  BY NoRequest DEF Finish, ChargeInv, Shapes
<1>2. Goto(c, "done") /\ "done" \in Labels \ {"record"}
  BY DEF Finish, Labels
<1> QED BY <1>1, <1>2, RequestKeeps

LEMMA RequestSteps ==
    ASSUME ChargeInv, NEW c \in Calls, NEW label \in Labels \ {"record"}, StepTo(c, label)
    PROVE  ChargeInv'
<1>1. UNCHANGED <<price, hold, extends, data, order, stripe, sent, wpc, job>>
  BY DEF StepTo, holdVars, workVars
<1>2. StripeOK /\ RecordOK' /\ price' \in Prices /\ extends' \in Nat /\ data' \in Records
  BY <1>1, StripeStays, RecordStays DEF ChargeInv, Shapes
<1>3. CASE label = "done"
  BY <1>1, <1>2, <1>3, RequestEnds DEF StepTo
<1>4. CASE label # "done"
  <2>1. Goto(c, label) /\ UNCHANGED my
    BY <1>4 DEF StepTo
  <2> QED BY <1>1, <1>2, <2>1, RequestKeeps DEF ChargeInv, Shapes
<1> QED BY <1>3, <1>4

LEMMA RequestReads ==
    ASSUME ChargeInv, NEW c \in Calls, NEW next \in Labels \ {"record"}, ReadHold(c, next)
    PROVE  ChargeInv'
<1>1. UNCHANGED <<price, hold, extends, data, order, stripe, sent, wpc, job>>
  BY DEF ReadHold, holdVars, workVars
<1>2. StripeOK /\ RecordOK' /\ price' \in Prices /\ extends' \in Nat /\ data' \in Records
  BY <1>1, StripeStays, RecordStays DEF ChargeInv, Shapes
<1>3. my' = [my EXCEPT ![c] = [my[c] EXCEPT !.data = data, !.alive = Payable, !.extends = extends]]
  BY DEF ReadHold
<1>4. my[c] \in Requests /\ data \in Records /\ extends \in Nat /\ Payable \in BOOLEAN
  BY DEF ChargeInv, Shapes, Payable
<1>5. [my[c] EXCEPT !.data = data, !.alive = Payable, !.extends = extends] \in Requests
  BY <1>4 DEF Requests
<1>6. my' \in [Calls -> Requests] /\ \A b \in Calls \ {c} : my'[b] = my[b]
  BY <1>3, <1>5 DEF ChargeInv, Shapes
<1>7. Goto(c, next)
  BY DEF ReadHold
<1> QED BY <1>1, <1>2, <1>6, <1>7, RequestKeeps

LEMMA RequestBegins ==
    ASSUME ChargeInv, NEW c \in Calls, BeginCall(c)
    PROVE  ChargeInv'
<1>1. UNCHANGED <<price, hold, extends, data, order, stripe, sent, wpc, job>>
  BY DEF BeginCall, holdVars, workVars
<1>2. StripeOK /\ RecordOK' /\ price' \in Prices /\ extends' \in Nat /\ data' \in Records
  BY <1>1, StripeStays, RecordStays DEF ChargeInv, Shapes
<1>3. PICK kind \in CallKinds, b \in Buyers :
          /\ my' = [my EXCEPT ![c] = [NoCall EXCEPT !.kind = kind, !.buyer = b, !.amount = price]]
          /\ Goto(c, IF kind = "pay" THEN "read" ELSE "peek")
  BY DEF BeginCall
<1>4. price \in Nat
  BY CheckoutAssumption DEF ChargeInv, Shapes
<1>5. [NoCall EXCEPT !.kind = kind, !.buyer = b, !.amount = price] \in Requests
  BY <1>4, NoRequest DEF Requests, Parties
<1>6. my' \in [Calls -> Requests] /\ \A d \in Calls \ {c} : my'[d] = my[d]
  BY <1>3, <1>5 DEF ChargeInv, Shapes
<1>7. (IF kind = "pay" THEN "read" ELSE "peek") \in Labels \ {"record"}
  BY DEF Labels
<1> QED BY <1>1, <1>2, <1>3, <1>6, <1>7, RequestKeeps

\* A request that writes the extension it found, or made.
LEMMA RequestCovers ==
    ASSUME ChargeInv, NEW c \in Calls, OpenCovers(c)
    PROVE  ChargeInv'
<1>1. {"done", "create"} \subseteq Labels \ {"record"}
  BY DEF Labels
<1>2. CASE StepTo(c, "done") \/ StepTo(c, "create")
  BY <1>1, <1>2, RequestSteps
<1>3. ASSUME NEW n \in Nat, extends' = n, my' = [my EXCEPT ![c].extends = n], Goto(c, "create"),
             UNCHANGED <<price, hold, data, order, stripe, sent, wpc, job>>
      PROVE  ChargeInv'
  <2>1. StripeOK /\ RecordOK' /\ price' \in Prices /\ data' \in Records
    BY <1>3, StripeStays, RecordStays DEF ChargeInv, Shapes
  <2>2. my' = [my EXCEPT ![c] = [my[c] EXCEPT !.extends = n]] /\ my[c] \in Requests
    BY <1>3 DEF ChargeInv, Shapes
  <2>3. [my[c] EXCEPT !.extends = n] \in Requests
    BY <2>2 DEF Requests
  <2>4. my' \in [Calls -> Requests] /\ \A b \in Calls \ {c} : my'[b] = my[b]
    BY <2>2, <2>3 DEF ChargeInv, Shapes
  <2> QED BY <1>1, <1>3, <2>1, <2>4, RequestKeeps
<1>4. extends \in Nat /\ extends + 1 \in Nat
  BY DEF ChargeInv, Shapes
<1>5. CASE /\ extends' = extends + 1 /\ my' = [my EXCEPT ![c].extends = extends + 1] /\ Goto(c, "create")
           /\ UNCHANGED <<price, hold, data, order, stripe, sent, wpc, job>>
  BY <1>3, <1>4, <1>5
<1>6. CASE /\ extends' = extends /\ my' = [my EXCEPT ![c].extends = extends] /\ Goto(c, "create")
           /\ UNCHANGED <<price, hold, data, order, stripe, sent, wpc, job>>
  BY <1>3, <1>4, <1>6
<1> QED BY <1>2, <1>5, <1>6 DEF OpenCovers, holdVars, workVars

\* Stripe makes a session for the amount it is asked for, or answers with the
\* one it made for the same key, and so for the same amount.
LEMMA RequestCreates ==
    ASSUME ChargeInv, NEW c \in Calls, OpenCreates(c)
    PROVE  ChargeInv'
<1> DEFINE known == {s \in Sessions : Status(s) # "none" /\ stripe[s].key = Key(c)}
<1> DEFINE fresh == {s \in Sessions : Status(s) = "none"}
<1> DEFINE T == IF known # {} THEN known ELSE fresh
<1>1. PICK s : /\ s = CHOOSE x \in T : \A y \in T : x <= y
               /\ T # {}
               /\ my' = [my EXCEPT ![c].session = s]
               /\ stripe' = IF known # {} THEN stripe
                            ELSE [stripe EXCEPT ![s] = [status |-> "open", amount |-> my[c].amount, key |-> Key(c)]]
               /\ Goto(c, "record")
               /\ UNCHANGED <<price, hold, extends, data, order, sent, wpc, job>>
  BY DEF OpenCreates, holdVars, workVars
<1>2. T \subseteq Sessions /\ T \subseteq Nat
  BY CheckoutAssumption
<1> HIDE DEF T
<1>3. s \in T
  BY <1>1, <1>2, First
<1> USE DEF T
<1>4. s \in Sessions /\ s \in Nat /\ my[c] \in Requests /\ my[c].amount \in Nat
  BY <1>2, <1>3 DEF ChargeInv, Shapes, Requests
<1>5. Key(c) \in Keys /\ Key(c)[1] = my[c].amount
  BY <1>4 DEF Key, Keys, ChargeInv, Shapes, Requests
<1>6. PICK a \in Nat : a = my[c].amount
  BY <1>4
<1>7. StripeOK /\ IsCharge(s, a)'
  <2>1. CASE known # {}
    <3>1. UNCHANGED stripe /\ s \in known
      BY <1>1, <1>3, <2>1
    <3>2. stripe[s].amount = a
      BY <1>5, <1>6, <3>1 DEF ChargeInv, KeysOK
    <3>3. StripeOK
      BY <1>1, <3>1, StripeStays
    <3> QED BY <1>4, <3>1, <3>2, <3>3 DEF IsCharge, Status
  <2>2. CASE known = {}
    <3> DEFINE new == [status |-> "open", amount |-> a, key |-> Key(c)]
    <3>1. stripe' = [stripe EXCEPT ![s] = new]
      BY <1>1, <1>6, <2>2
    <3>2. new \in StripeSessions /\ new.status = "open" /\ new.amount = a /\ new.key = Key(c)
      BY <1>5 DEF StripeSessions
    <3>3. Status(s) = "none"
      <4>1. T = fresh
        BY <2>2
      <4> QED BY <1>3, <4>1
    <3> HIDE DEF new
    <3>4. /\ stripe' \in [Sessions -> StripeSessions] /\ stripe'[s] = new
          /\ \A x \in Sessions \ {s} : stripe'[x] = stripe[x]
      BY <1>4, <3>1, <3>2 DEF ChargeInv, Shapes
    <3>5. Forward /\ KeysOK'
      BY <1>5, <1>6, <3>2, <3>3, <3>4 DEF ChargeInv, KeysOK, Forward, Status
    <3>6. PaidOK'
      BY <1>1, <3>3, <3>4 DEF ChargeInv, PaidOK, Status
    <3> QED BY <1>4, <3>2, <3>4, <3>5, <3>6 DEF StripeOK, IsCharge, Status
  <2> QED BY <2>1, <2>2
<1>8. /\ my' \in [Calls -> Requests] /\ my'[c].session = s /\ my'[c].amount = a
      /\ \A b \in Calls \ {c} : my'[b] = my[b]
  <2>1. [my[c] EXCEPT !.session = s] \in Requests /\ [my[c] EXCEPT !.session = s].session = s
        /\ [my[c] EXCEPT !.session = s].amount = a
    BY <1>4, <1>6 DEF Requests
  <2>2. my' = [my EXCEPT ![c] = [my[c] EXCEPT !.session = s]]
    BY <1>1
  <2> QED BY <2>1, <2>2 DEF ChargeInv, Shapes
<1>9. /\ pc' \in [Calls -> Labels] /\ \A b \in Calls \ {c} : pc'[b] = pc[b]
  BY <1>1 DEF ChargeInv, Shapes, Goto, Labels
<1>10. Shapes' /\ RecordOK'
  BY <1>1, <1>7, <1>8, <1>9, RecordStays DEF ChargeInv, Shapes, StripeOK
<1>11. IsCharge(my[c].session, my[c].amount)'
  BY <1>7, <1>8 DEF IsCharge
<1> QED BY <1>1, <1>7, <1>8, <1>9, <1>10, <1>11, ElsewhereKeeps

\* A session is recorded with the amount it was made for, or forgotten.
LEMMA RequestRecords ==
    ASSUME ChargeInv, NEW c \in Calls, OpenRecords(c) \/ CloseForgets(c)
    PROVE  ChargeInv'
<1>1. UNCHANGED <<price, hold, extends, order, stripe, sent, wpc, job>>
  BY DEF OpenRecords, CloseForgets, workVars
<1>2. StripeOK /\ price' \in Prices /\ extends' \in Nat
  BY <1>1, StripeStays DEF ChargeInv, Shapes
<1>3. my[c] \in Requests
  BY DEF ChargeInv, Shapes
<1>4. CASE OpenRecords(c)
  <2>1. /\ data' = [session |-> my[c].session, amount |-> my[c].amount, buyer |-> my[c].buyer]
        /\ Finish(c) /\ pc[c] = "record"
    BY <1>4 DEF OpenRecords
  <2>2. data' \in Records
    BY <1>3, <2>1 DEF Requests, Records
  <2>3. IsCharge(my[c].session, my[c].amount)
    BY <2>1 DEF ChargeInv, CallsOK
  <2>4. RecordOK'
    BY <1>1, <2>1, <2>3 DEF RecordOK, IsCharge, Status
  <2> QED BY <1>1, <1>2, <2>1, <2>2, <2>4, RequestEnds
<1>5. CASE CloseForgets(c)
  <2>1. /\ data' = [NoData EXCEPT !.buyer = my[c].data.buyer] \/ UNCHANGED data
        /\ Goto(c, AfterClose(c)) /\ UNCHANGED my
    BY <1>5 DEF CloseForgets
  <2>2. data' \in Records /\ (data'.session = NoSession \/ UNCHANGED data)
    BY <1>3, <2>1 DEF Requests, Records, NoData, NoSession, ChargeInv, Shapes
  <2>3. RecordOK'
    BY <1>2, <2>2, RecordStays DEF RecordOK, NoSession
  <2>4. AfterClose(c) \in Labels \ {"record"}
    BY DEF AfterClose, Labels
  <2>5. my' \in [Calls -> Requests] /\ \A b \in Calls \ {c} : my'[b] = my[b]
    BY <2>1 DEF ChargeInv, Shapes
  <2> QED BY <1>1, <1>2, <2>1, <2>2, <2>3, <2>4, <2>5, RequestKeeps
<1> QED BY <1>4, <1>5

LEMMA RequestStep ==
    ASSUME ChargeInv, NEW c \in Calls,
           BeginCall(c) \/ CallStep(c) \/ RecordFails(c) \/ CallDies(c)
    PROVE  ChargeInv'
<1> USE DEF Labels
<1>1. CASE BeginCall(c)
  BY <1>1, RequestBegins
<1>2. CASE OpenReads(c)
  BY <1>2, RequestReads DEF OpenReads
<1>3. CASE CloseReads(c)
  BY <1>3, RequestReads DEF CloseReads, AfterClose
<1>4. CASE OpenAsks(c)
  BY <1>4, RequestSteps DEF OpenAsks, Unmatched
<1>5. CASE CloseAsks(c)
  BY <1>5, RequestSteps DEF CloseAsks
<1>6. CASE CloseExpires(c)
  <2>1. CASE Status(my[c].data.session) = "open"
    <3>1. EndSession(my[c].data.session, "closed", "expired") /\ Goto(c, "forget")
          /\ UNCHANGED <<price, hold, extends, data, order, my, wpc, job>>
      BY <1>6, <2>1 DEF CloseExpires, holdVars, workVars
    <3>2. StripeOK
      BY <2>1, <3>1, SessionEnds
    <3> QED BY <3>1, <3>2, RecordStays, RequestKeeps DEF ChargeInv, Shapes
  <2>2. CASE Status(my[c].data.session) # "open"
    BY <1>6, <2>2, RequestSteps DEF CloseExpires
  <2> QED BY <2>1, <2>2
<1>7. CASE CloseForgets(c) \/ OpenRecords(c)
  BY <1>7, RequestRecords
<1>8. CASE OpenCovers(c)
  BY <1>8, RequestCovers
<1>9. CASE OpenCreates(c)
  BY <1>9, RequestCreates
<1>10. CASE ReleaseCall(c) \/ RepriceCall(c) \/ CallDies(c)
  <2>1. /\ Finish(c) /\ UNCHANGED <<extends, data, order, stripe, sent, wpc, job>>
        /\ price' \in Prices /\ (hold' = "active" => hold = "active")
    BY <1>10 DEF ReleaseCall, RepriceCall, CallDies, Released, holdVars, workVars, ChargeInv, Shapes
  <2>2. StripeOK /\ RecordOK' /\ extends' \in Nat /\ data' \in Records
    BY <2>1, StripeStays, RecordStays DEF ChargeInv, Shapes
  <2> QED BY <2>1, <2>2, RequestEnds
<1>11. CASE RecordFails(c)
  <2>1. /\ Finish(c) /\ UNCHANGED <<price, hold, extends, data, order, wpc, job>>
        /\ \/ Status(my[c].session) = "open" /\ EndSession(my[c].session, "closed", "expired")
           \/ UNCHANGED <<stripe, sent>>
    BY <1>11 DEF RecordFails, holdVars, workVars
  <2>2. StripeOK
    BY <2>1, SessionEnds, StripeStays
  <2>3. RecordOK' /\ price' \in Prices /\ extends' \in Nat /\ data' \in Records
    BY <2>1, <2>2, RecordStays DEF ChargeInv, Shapes
  <2> QED BY <2>1, <2>2, <2>3, RequestEnds
<1> QED BY <1>1, <1>2, <1>3, <1>4, <1>5, <1>6, <1>7, <1>8, <1>9, <1>10, <1>11 DEF CallStep

-----------------------------------------------------------------------------
(* The handlers of payments *)

LEMMA HandlerGoes ==
    ASSUME Shapes, NEW w \in Workers, NEW label \in WorkLabels, NEW j \in Jobs,
           wpc' = [wpc EXCEPT ![w] = label], job' = [job EXCEPT ![w] = j]
    PROVE  /\ wpc' \in [Workers -> WorkLabels] /\ job' \in [Workers -> Jobs]
           /\ wpc'[w] = label /\ job'[w] = j
           /\ \A v \in Workers \ {w} : wpc'[v] = wpc[v] /\ job'[v] = job[v]
BY DEF Shapes

\* A step of one handler that changes nothing but, at most, the hold and the order.
LEMMA HandlerStep ==
    ASSUME ChargeInv, NEW w \in Workers, NEW label \in WorkLabels, NEW j \in Jobs,
           wpc' = [wpc EXCEPT ![w] = label], job' = [job EXCEPT ![w] = j],
           UNCHANGED <<price, extends, data, stripe, sent, pc, my>>, OrderOK',
           hold' = "active" => hold = "active",
           /\ label # "idle" => j.event[2] \in Sessions
           /\ label # "idle" /\ j.event[1] \in {"completed", "page"} => Status(j.event[2]) = "complete"
           /\ label \in {"quote", "fulfil"} => j.event[1] \in {"completed", "page"}
           /\ label = "quote" => j.snapshot = stripe[j.event[2]].amount
           /\ label = "fulfil" /\ hold' = "active" => j.amount = stripe[j.event[2]].amount
    PROVE  ChargeInv'
<1>1. /\ wpc' \in [Workers -> WorkLabels] /\ job' \in [Workers -> Jobs]
      /\ wpc'[w] = label /\ job'[w] = j
      /\ \A v \in Workers \ {w} : wpc'[v] = wpc[v] /\ job'[v] = job[v]
  BY HandlerGoes DEF ChargeInv
<1>2. Shapes'
  BY <1>1 DEF ChargeInv, Shapes
<1>3. HandlerOK(w)'
  BY <1>1 DEF HandlerOK, JobSession, IsFor, Status
<1> QED BY <1>1, <1>2, <1>3, HandlerKeeps

\* ... by Working, which keeps the job but for its result.
LEMMA HandlerWorks ==
    ASSUME ChargeInv, NEW w \in Workers, wpc[w] # "idle",
           NEW label \in {"giveBack", "mark"}, NEW result \in Results, Working(w, label, result),
           UNCHANGED <<price, extends, data, stripe, sent, pc, my>>, OrderOK',
           hold' = "active" => hold = "active"
    PROVE  ChargeInv'
<1> DEFINE j == [job[w] EXCEPT !.result = result]
<1>1. job[w] \in Jobs /\ HandlerOK(w)
  BY DEF ChargeInv, Shapes
<1>2. j \in Jobs /\ j.event = job[w].event
  BY <1>1 DEF Jobs
<1>3. wpc' = [wpc EXCEPT ![w] = label] /\ job' = [job EXCEPT ![w] = j] /\ label \in WorkLabels
  BY DEF Working, WorkLabels
<1>4. /\ j.event[2] \in Sessions
      /\ j.event[1] \in {"completed", "page"} => Status(j.event[2]) = "complete"
  BY <1>1, <1>2 DEF HandlerOK, JobSession, IsFor
<1> HIDE DEF j
<1> QED BY <1>2, <1>3, <1>4, HandlerStep

LEMMA HandlerTakes ==
    ASSUME ChargeInv, NEW w \in Workers,
           NEW kind \in {"completed", "expired", "page"}, NEW s \in Sessions, Take(w, <<kind, s>>),
           kind \in {"completed", "page"} => Status(s) = "complete",
           UNCHANGED <<price, hold, extends, data, stripe, sent, pc, my, order>>
    PROVE  ChargeInv'
<1> DEFINE j == [NoJob EXCEPT !.event = <<kind, s>>]
<1>1. j \in Jobs /\ j.event[1] = kind /\ j.event[2] = s
  BY NoRequest, CheckoutAssumption DEF Jobs
<1>2. wpc' = [wpc EXCEPT ![w] = "match"] /\ job' = [job EXCEPT ![w] = j] /\ "match" \in WorkLabels
  BY DEF Take, WorkLabels
<1>3. OrderOK'
  BY DEF ChargeInv, OrderOK, Status
<1> HIDE DEF j
<1> QED BY <1>1, <1>2, <1>3, HandlerStep

LEMMA HandlerFreed ==
    ASSUME ChargeInv, NEW w \in Workers, Free(w),
           UNCHANGED <<price, hold, extends, data, stripe, sent, pc, my, order>>
    PROVE  ChargeInv'
<1>1. wpc' = [wpc EXCEPT ![w] = "idle"] /\ job' = [job EXCEPT ![w] = NoJob] /\ "idle" \in WorkLabels
  BY DEF Free, WorkLabels
<1>2. OrderOK'
  BY DEF ChargeInv, OrderOK, Status
<1> QED BY <1>1, <1>2, NoRequest, HandlerStep

LEMMA PaymentIsTaken ==
    ASSUME ChargeInv, NEW w \in Workers, NEW e \in Events, Deliver(w, e)
    PROVE  ChargeInv'
<1>1. UNCHANGED <<price, hold, extends, data, stripe, sent, pc, my, order>> /\ e \in sent
  BY DEF Deliver, holdVars, callVars
<1>2. PICK kind \in {"completed", "expired"}, s \in Sessions : e = <<kind, s>>
  BY DEF Events
<1>3. CASE Seen(e)
  <2>1. UNCHANGED <<wpc, job>>
    BY <1>3 DEF Deliver, workVars
  <2>2. StripeOK /\ RecordOK' /\ Shapes'
    BY <1>1, <2>1, StripeStays, RecordStays DEF ChargeInv, Shapes
  <2> QED BY <1>1, <2>1, <2>2, ElsewhereKeeps
<1>4. CASE ~ Seen(e)
  <2>1. Take(w, <<kind, s>>)
    BY <1>2, <1>4 DEF Deliver
  <2>2. kind = "completed" => Status(s) = "complete"
    BY <1>1, <1>2 DEF ChargeInv, PaidOK
  <2> QED BY <1>1, <2>1, <2>2, HandlerTakes
<1> QED BY <1>3, <1>4

\* The snapshot is read while the session is the recorded one.
LEMMA PaymentIsMatched ==
    ASSUME ChargeInv, NEW w \in Workers, MatchPayment(w)
    PROVE  ChargeInv'
<1>1. /\ UNCHANGED <<price, hold, extends, data, stripe, sent, pc, my, order>>
      /\ wpc[w] = "match" /\ IsFor(w, {"completed", "page"})
  BY DEF MatchPayment, OnlyWorked, holdVars, callVars
<1>2. OrderOK' /\ HandlerOK(w) /\ job[w] \in Jobs /\ data \in Records
  BY <1>1 DEF ChargeInv, OrderOK, Status, Shapes
<1>3. CASE data.session # JobSession(w)
  BY <1>1, <1>2, <1>3, HandlerWorks DEF MatchPayment, Results, Permanent
<1>4. CASE data.session = JobSession(w)
  <2> DEFINE j == [job[w] EXCEPT !.snapshot = data.amount]
  <2> DEFINE label == IF hold = "active" THEN "quote" ELSE "fulfil"
  <2>1. wpc' = [wpc EXCEPT ![w] = label] /\ job' = [job EXCEPT ![w] = j] /\ label \in WorkLabels
    BY <1>4 DEF MatchPayment, WorkLabels
  <2>2. j \in Jobs /\ j.event = job[w].event /\ j.snapshot = data.amount
    BY <1>2 DEF Jobs, Records
  <2>3. JobSession(w) \in Sessions /\ Status(JobSession(w)) = "complete" /\ JobSession(w) # NoSession
    BY <1>1, <1>2, CheckoutAssumption DEF HandlerOK, NoSession
  <2>4. data.amount = stripe[JobSession(w)].amount
    BY <1>4, <2>3 DEF ChargeInv, RecordOK, IsCharge
  <2> HIDE DEF j
  <2> QED BY <1>1, <1>2, <2>1, <2>2, <2>3, <2>4, HandlerStep DEF JobSession, IsFor
<1> QED BY <1>3, <1>4

\* What Stripe charged is what the snapshot says, so nothing is quoted anew.
LEMMA PaymentIsQuoted ==
    ASSUME ChargeInv, NEW w \in Workers, QuotePayment(w)
    PROVE  ChargeInv'
<1>1. /\ UNCHANGED <<price, hold, extends, data, stripe, sent, pc, my, order>>
      /\ wpc[w] = "quote"
  BY DEF QuotePayment, OnlyWorked, holdVars, callVars
<1>2. OrderOK' /\ HandlerOK(w) /\ job[w] \in Jobs
  BY <1>1 DEF ChargeInv, OrderOK, Status, Shapes
<1>3. CASE ~ Quoted
  <2>1. (IF Payable THEN "EVENT_NOT_PUBLISHED" ELSE "RESERVATION_EXPIRED") \in Results
    BY DEF Results, Permanent
  <2> QED BY <1>1, <1>2, <1>3, <2>1, HandlerWorks DEF QuotePayment
<1>4. CASE Quoted
  <2> DEFINE a == Breakdown(stripe[JobSession(w)].amount, job[w].snapshot)
  <2> DEFINE j == [job[w] EXCEPT !.amount = a]
  <2>1. wpc' = [wpc EXCEPT ![w] = "fulfil"] /\ job' = [job EXCEPT ![w] = j] /\ "fulfil" \in WorkLabels
    BY <1>4 DEF QuotePayment, WorkLabels
  <2>2. /\ IsFor(w, {"completed", "page"}) /\ JobSession(w) \in Sessions
        /\ Status(JobSession(w)) = "complete" /\ a = stripe[JobSession(w)].amount
    BY <1>1, <1>2 DEF HandlerOK, Breakdown
  <2>3. a \in Nat
    BY <2>2 DEF ChargeInv, Shapes, StripeSessions
  <2> HIDE DEF a
  <2>4. j \in Jobs /\ j.event = job[w].event /\ j.amount = a
    BY <1>2, <2>3 DEF Jobs
  <2> HIDE DEF j
  <2> QED BY <1>1, <1>2, <2>1, <2>2, <2>4, HandlerStep DEF JobSession, IsFor
<1> QED BY <1>3, <1>4

\* The tickets are issued of an active hold, for what its session charged.
LEMMA PaymentIsFulfilled ==
    ASSUME ChargeInv, NEW w \in Workers, Fulfil(w)
    PROVE  ChargeInv'
<1>1. UNCHANGED <<price, extends, data, stripe, sent, pc, my>> /\ wpc[w] = "fulfil"
  BY DEF Fulfil, callVars
<1>2. HandlerOK(w)
  BY DEF ChargeInv
<1>3. "clean" \in Results /\ Permanent \subseteq Results
  BY DEF Results
<1>4. CASE hold = "active" /\ published
  <2>1. /\ hold' = "converted" /\ Working(w, "mark", "clean")
        /\ order' = [session |-> JobSession(w), amount |-> job[w].amount]
    BY <1>4 DEF Fulfil
  <2>2. OrderOK'
    BY <1>1, <1>2, <1>4, <2>1 DEF HandlerOK, OrderOK, Status
  <2> QED BY <1>1, <1>3, <2>1, <2>2, HandlerWorks
<1>5. CASE ~ (hold = "active" /\ published)
  <2>1. PICK result \in Results : Working(w, "mark", result) /\ UNCHANGED <<hold, order>>
    BY <1>3, <1>5 DEF Fulfil, Permanent
  <2>2. OrderOK'
    BY <1>1, <2>1 DEF ChargeInv, OrderOK, Status
  <2> QED BY <1>1, <2>1, <2>2, HandlerWorks
<1> QED BY <1>4, <1>5

LEMMA HandlersStep ==
    ASSUME ChargeInv, NEW w \in Workers, WorkerStep(w) \/ FulfilFails(w) \/ WorkerDies(w)
    PROVE  ChargeInv'
<1>1. CASE MatchPayment(w)
  BY <1>1, PaymentIsMatched
<1>2. CASE QuotePayment(w)
  BY <1>2, PaymentIsQuoted
<1>3. CASE Fulfil(w)
  BY <1>3, PaymentIsFulfilled
<1>4. CASE MatchExpired(w) \/ GiveBack(w) \/ FulfilFails(w)
  <2>1. /\ UNCHANGED <<price, extends, data, stripe, sent, pc, my, order>> /\ wpc[w] # "idle"
        /\ (hold' = "active" => hold = "active")
        /\ \E label \in {"giveBack", "mark"}, result \in {"clean", "CONFLICT"} : Working(w, label, result)
    BY <1>4 DEF MatchExpired, GiveBack, FulfilFails, Released, OnlyWorked, holdVars, callVars
  <2>2. OrderOK' /\ {"clean", "CONFLICT"} \subseteq Results
    BY <2>1 DEF ChargeInv, OrderOK, Status, Results, Transient
  <2> QED BY <2>1, <2>2, HandlerWorks
<1>5. CASE Answer(w) \/ WorkerDies(w)
  <2>1. UNCHANGED <<price, hold, extends, data, stripe, sent, pc, my, order>> /\ Free(w)
    BY <1>5 DEF Answer, WorkerDies, holdVars, callVars
  <2> QED BY <2>1, HandlerFreed
<1> QED BY <1>1, <1>2, <1>3, <1>4, <1>5 DEF WorkerStep

-----------------------------------------------------------------------------
(* The system *)

LEMMA ChargeStep == ChargeInv /\ [Next]_vars => ChargeInv'
<1> SUFFICES ASSUME ChargeInv, [Next]_vars PROVE ChargeInv'
  OBVIOUS
<1>a. ASSUME UNCHANGED <<extends, data, order, pc, my, wpc, job>>, price' \in Prices, StripeOK,
             hold' = "active" => hold = "active"
      PROVE  ChargeInv'
  <2>1. Shapes' /\ RecordOK'
    BY <1>a, RecordStays DEF ChargeInv, Shapes, StripeOK
  <2> QED BY <1>a, <2>1, ElsewhereKeeps
<1>1. ASSUME NEW s \in Sessions, BuyerPays(s) \/ SessionTimesOut(s) PROVE ChargeInv'
  <2>1. /\ UNCHANGED <<price, hold, extends, data, order, pc, my, wpc, job>> /\ Status(s) = "open"
        /\ EndSession(s, "complete", "completed") \/ EndSession(s, "timedOut", "expired")
    BY <1>1 DEF BuyerPays, SessionTimesOut, holdVars, callVars, workVars
  <2>2. StripeOK
    BY <2>1, SessionEnds
  <2> QED BY <1>a, <2>1, <2>2 DEF ChargeInv, Shapes
<1>2. CASE Lapse \/ Sweep \/ PriceMoves \/ StopEvent \/ CloserLists \/ CloserReleases
  <2>1. /\ UNCHANGED <<extends, data, order, stripe, sent, pc, my, wpc, job>>
        /\ hold' = "active" => hold = "active"
        /\ UNCHANGED price \/ price' \in Prices
    BY <1>2 DEF Lapse, Sweep, PriceMoves, StopEvent, CloserLists, CloserReleases, Released,
                holdVars, callVars, workVars
  <2> QED BY <1>a, <2>1, StripeStays DEF ChargeInv, Shapes
<1>3. CASE CloserExpires
  <2>1. /\ UNCHANGED <<price, hold, extends, data, order, pc, my, wpc, job>>
        /\ \/ Status(closer.session) = "open" /\ EndSession(closer.session, "closed", "expired")
           \/ UNCHANGED <<stripe, sent>>
    BY <1>3 DEF CloserExpires, holdVars, callVars, workVars
  <2>2. StripeOK
    BY <2>1, SessionEnds, StripeStays
  <2> QED BY <1>a, <2>1, <2>2 DEF ChargeInv, Shapes
<1>4. ASSUME NEW w \in Workers, NEW s \in Sessions, OpenSuccessPage(w, s) PROVE ChargeInv'
  <2>1. /\ UNCHANGED <<price, hold, extends, data, stripe, sent, pc, my, order>>
        /\ Status(s) = "complete" /\ Take(w, <<"page", s>>)
    BY <1>4 DEF OpenSuccessPage, holdVars, callVars
  <2> QED BY <2>1, HandlerTakes
<1>5. CASE UNCHANGED vars
  <2>1. UNCHANGED <<price, hold, extends, data, order, stripe, sent, pc, my, wpc, job>>
    BY <1>5 DEF vars, holdVars, callVars, workVars
  <2> QED BY <1>a, <2>1, StripeStays DEF ChargeInv, Shapes
<1> QED BY <1>1, <1>2, <1>3, <1>4, <1>5, RequestStep, PaymentIsTaken, HandlersStep DEF Next, CloserStep

\* The order is for a session that was paid and for the amount that session
\* charged (fulfillFromSession, breakdownForFulfilment, fulfill_checkout), for any
\* number of requests, tabs, sessions, prices, deliveries and deaths.
THEOREM OrderRecordsTheChargeHolds == Spec => []OrderRecordsTheCharge
<1>1. Spec => []ChargeInv
  BY InitCharge, ChargeStep, PTL DEF Spec
<1>2. ChargeInv => OrderRecordsTheCharge
  BY DEF ChargeInv, OrderOK, OrderRecordsTheCharge
<1> QED BY <1>1, <1>2, PTL

-----------------------------------------------------------------------------
(* A buyer who waits for each answer *)

\* Only a page the buyer was sent to is paid, and only an order converts the hold.
HandoutsOK ==
    /\ handed \subseteq Sessions
    /\ \A s \in handed : Status(s) # "none"
    /\ \A s \in Sessions : Status(s) = "complete" => s \in handed

SoldOK == hold = "converted" <=> order # NoOrder

\* No session is recorded, or one nobody can pay or has paid.
NothingToPay == data.session # NoSession => Status(data.session) \notin {"open", "complete"}

\* The one request under way knows the recorded session, has seen to it that it
\* cannot be paid before it forgets it, and opens another when there is nothing
\* left to pay, whether or not the record of it could be cleared.
RequestOK(c) ==
    /\ pc[c] \in {"ask", "look", "expire", "forget"} =>
          my[c].data.session = data.session /\ data.session # NoSession
    /\ pc[c] = "forget" => Status(data.session) \notin {"open", "complete"}
    /\ pc[c] \in {"reread", "release", "reprice", "cover", "create", "record"} => NothingToPay

SessionsInv == HandoutsOK /\ InTurn /\ PaymentsAreRecognised /\ \A c \in Calls : RequestOK(c)

\* A handler about to file a payment as done has it in the order, and none gives
\* back the hold of a payment.
FilingOK(w) ==
    /\ wpc[w] = "mark" =>
          /\ job[w].result # "none"
          /\ IsFor(w, {"completed"}) /\ job[w].result = "clean" => order.session = JobSession(w)
    /\ wpc[w] = "giveBack" => ~ IsFor(w, {"completed"})

\* What is filed as done is fulfilled, and what is answered filed.
FiledOK == DOMAIN hook = Events /\ FiledMeansFulfilled /\ PaymentsAreAnswered

AnswersInv == SoldOK /\ FiledOK /\ \A w \in Workers : FilingOK(w)

OneTabInv == ChargeInv /\ SessionsInv /\ AnswersInv

LEMMA InitOneTab == Init => OneTabInv
<1> SUFFICES ASSUME Init PROVE OneTabInv
  OBVIOUS
<1>1. SessionsInv
  BY DEF Init, SessionsInv, HandoutsOK, InTurn, AtMostOne, PaymentsAreRecognised, RequestOK, NothingToPay, Status
<1>2. AnswersInv
  BY DEF Init, AnswersInv, SoldOK, FiledOK, FiledMeansFulfilled, PaymentsAreAnswered, FilingOK, Events
<1> QED BY <1>1, <1>2, InitCharge DEF OneTabInv

\* No session becomes payable, and only a page handed out is paid.
Quiet ==
    \A s \in Sessions : /\ stripe'[s].status \in {"open", "complete"} => Status(s) \in {"open", "complete"}
                        /\ stripe'[s].status = "complete" => s \in handed
                        /\ Status(s) # "none" => stripe'[s].status # "none"

LEMMA QuietEnd ==
    ASSUME ChargeInv, HandoutsOK, NEW s, Status(s) = "open",
           NEW status \in {"complete", "timedOut", "closed"}, NEW kind,
           EndSession(s, status, kind), status = "complete" => s \in handed
    PROVE  Quiet
<1>1. \A x \in Sessions : stripe'[x].status = IF x = s THEN status ELSE stripe[x].status
  BY DEF EndSession, ChargeInv, Shapes, StripeSessions
<1> QED BY <1>1 DEF Quiet, HandoutsOK, Status

LEMMA QuietStays ==
    ASSUME HandoutsOK, UNCHANGED stripe
    PROVE  Quiet
BY DEF HandoutsOK, Quiet, Status

\* What is handed out stays recognised while its record does.
LEMMA HandoutsStay ==
    ASSUME HandoutsOK, PaymentsAreRecognised, Quiet, UNCHANGED <<data, handed>>
    PROVE  HandoutsOK' /\ PaymentsAreRecognised'
BY DEF HandoutsOK, PaymentsAreRecognised, Quiet, Status

\* A step of others than the buyer's browser.
LEMMA BrowserWaits ==
    ASSUME ChargeInv, SessionsInv, Quiet, UNCHANGED <<data, handed, pc, my>>
    PROVE  SessionsInv'
<1>1. HandoutsOK' /\ PaymentsAreRecognised'
  BY HandoutsStay DEF SessionsInv
<1>2. InTurn'
  BY DEF SessionsInv, InTurn
<1>3. ASSUME NEW c \in Calls PROVE RequestOK(c)'
  <2>1. RequestOK(c)
    BY DEF SessionsInv
  <2>2. data.session # NoSession => data.session \in Sessions
    BY DEF ChargeInv, RecordOK, IsCharge
  <2>3. NothingToPay => NothingToPay'
    BY <2>2 DEF NothingToPay, Quiet, Status
  <2> QED BY <2>1, <2>2, <2>3 DEF RequestOK, Quiet, Status
<1> QED BY <1>1, <1>2, <1>3 DEF SessionsInv

\* While a request moves there is no other.
LEMMA OneRequest ==
    ASSUME ChargeInv, SessionsInv, InTurn', NEW c \in Calls, NEW label \in Labels, Goto(c, label),
           {pc[c], label} \ {"new", "done"} # {},
           HandoutsOK', PaymentsAreRecognised', RequestOK(c)'
    PROVE  SessionsInv'
<1>1. pc \in [Calls -> Labels] /\ pc' = [pc EXCEPT ![c] = label]
  BY DEF ChargeInv, Shapes, Goto
<1>2. ASSUME NEW b \in Calls \ {c} PROVE pc'[b] \in {"new", "done"}
  <2>1. pc'[b] = pc[b] /\ pc'[c] = label
    BY <1>1
  <2>2. CASE label \notin {"new", "done"}
    BY <2>1, <2>2 DEF InTurn, AtMostOne
  <2>3. CASE pc[c] \notin {"new", "done"}
    BY <2>1, <2>3 DEF SessionsInv, InTurn, AtMostOne
  <2> QED BY <2>2, <2>3
<1>3. \A b \in Calls \ {c} : RequestOK(b)'
  BY <1>2 DEF RequestOK
<1> QED BY <1>3 DEF SessionsInv

\* ... that ends, or leaves what is handed out and its record alone.
LEMMA RequestDone ==
    ASSUME ChargeInv, SessionsInv, InTurn', NEW c \in Calls, pc[c] \notin {"new", "done"}, Finish(c),
           HandoutsOK', PaymentsAreRecognised'
    PROVE  SessionsInv'
<1>1. Goto(c, "done") /\ "done" \in Labels
  BY DEF Finish, Labels
<1>2. pc'[c] = "done"
  BY <1>1 DEF Goto, ChargeInv, Shapes
<1>3. RequestOK(c)'
  BY <1>2 DEF RequestOK
<1> QED BY <1>1, <1>3, OneRequest

LEMMA RequestGoesOn ==
    ASSUME ChargeInv, SessionsInv, InTurn', NEW c \in Calls, pc[c] \notin {"new", "done"},
           NEW label \in Labels, StepTo(c, label),
           label \in {"ask", "look", "expire", "forget"} => pc[c] \in {"ask", "look", "expire", "forget"},
           label = "forget" => Status(data.session) \notin {"open", "complete"},
           label \in {"reread", "release", "reprice", "cover", "create", "record"} => NothingToPay
    PROVE  SessionsInv'
<1>1. UNCHANGED <<data, stripe, handed>>
  BY DEF StepTo, holdVars
<1>2. HandoutsOK' /\ PaymentsAreRecognised'
  BY <1>1, QuietStays, HandoutsStay DEF SessionsInv
<1>3. CASE label = "done"
  BY <1>2, <1>3, RequestDone DEF StepTo
<1>4. CASE label # "done"
  <2>1. Goto(c, label) /\ UNCHANGED my /\ pc'[c] = label
    BY <1>4 DEF StepTo, Goto, ChargeInv, Shapes
  <2>2. RequestOK(c)
    BY DEF SessionsInv
  <2>3. RequestOK(c)'
    BY <1>1, <2>1, <2>2 DEF RequestOK, NothingToPay, Status
  <2> QED BY <1>2, <2>1, <2>3, OneRequest
<1> QED BY <1>3, <1>4

\* A request reads the row: no other will change its record.
LEMMA RowIsRead ==
    ASSUME ChargeInv, SessionsInv, InTurn', NEW c \in Calls, NEW next \in Labels \ {"new", "done"},
           ReadHold(c, next),
           next \in {"ask", "look", "expire"} => data.session # NoSession,
           next # "forget",
           next \in {"reread", "release", "reprice", "cover", "create", "record"} => NothingToPay
    PROVE  SessionsInv'
<1>1. UNCHANGED <<data, stripe, handed>> /\ Goto(c, next)
  BY DEF ReadHold, holdVars
<1>2. HandoutsOK' /\ PaymentsAreRecognised'
  BY <1>1, QuietStays, HandoutsStay DEF SessionsInv
<1>3. pc'[c] = next
  BY <1>1 DEF Goto, ChargeInv, Shapes
<1>4. my'[c].data = data
  <2>1. my[c] \in Requests
    BY DEF ChargeInv, Shapes
  <2> QED BY <2>1 DEF ReadHold, ChargeInv, Shapes, Requests
<1>5. RequestOK(c)'
  BY <1>1, <1>3, <1>4 DEF RequestOK, NothingToPay, Status
<1> QED BY <1>1, <1>2, <1>5, OneRequest

\* The session that can no longer be paid is forgotten, or stays on record.
LEMMA SessionIsForgotten ==
    ASSUME ChargeInv, SessionsInv, InTurn', NEW c \in Calls, CloseForgets(c)
    PROVE  SessionsInv'
<1>1. /\ pc[c] = "forget" /\ UNCHANGED <<stripe, handed, my>>
      /\ data' = [NoData EXCEPT !.buyer = my[c].data.buyer] \/ UNCHANGED data
      /\ Goto(c, AfterClose(c))
  BY DEF CloseForgets
<1>2. AfterClose(c) \in {"reread", "release", "reprice"} /\ AfterClose(c) \in Labels
  BY DEF AfterClose, Labels
<1>3. (data'.session = NoSession \/ UNCHANGED data) /\ pc'[c] = AfterClose(c)
  BY <1>1 DEF NoData, Goto, ChargeInv, Shapes
<1>4. HandoutsOK'
  BY <1>1, QuietStays DEF SessionsInv, HandoutsOK, Status
<1>5. PaymentsAreRecognised'
  <2>1. RequestOK(c)
    BY DEF SessionsInv
  <2>2. \A s \in handed : Status(s) \in {"open", "complete"} => data.session = s
    BY DEF SessionsInv, PaymentsAreRecognised
  <2>3. Status(data.session) \notin {"open", "complete"}
    BY <1>1, <2>1 DEF RequestOK
  <2>4. \A s \in handed : Status(s) \notin {"open", "complete"}
    BY <2>2, <2>3
  <2> QED BY <1>1, <2>4 DEF PaymentsAreRecognised, Status
<1>6. RequestOK(c)'
  <2>1. RequestOK(c)
    BY DEF SessionsInv
  <2>2. NothingToPay'
    BY <1>1, <1>3, <2>1 DEF RequestOK, NothingToPay, Status
  <2> QED BY <1>2, <1>3, <2>2 DEF RequestOK
<1> QED BY <1>1, <1>2, <1>4, <1>5, <1>6, OneRequest

\* Stripe makes a session of a key, or answers the one it made.
LEMMA SessionIsCreated ==
    ASSUME ChargeInv, SessionsInv, InTurn', NEW c \in Calls, OpenCreates(c)
    PROVE  SessionsInv'
<1>1. pc[c] = "create" /\ Goto(c, "record") /\ UNCHANGED <<data, handed>> /\ "record" \in Labels
  BY DEF OpenCreates, holdVars, Labels
<1>2. NothingToPay /\ pc'[c] = "record"
  BY <1>1 DEF SessionsInv, RequestOK, Goto, ChargeInv, Shapes
<1>3. UNCHANGED stripe \/ \E s \in Sessions : Status(s) = "none" /\ \E r : r.status = "open" /\ stripe' = [stripe EXCEPT ![s] = r]
  <2> DEFINE known == {s \in Sessions : Status(s) # "none" /\ stripe[s].key = Key(c)}
  <2> DEFINE fresh == {s \in Sessions : Status(s) = "none"}
  <2> DEFINE s == CHOOSE x \in fresh : \A y \in fresh : x <= y
  <2>1. CASE known # {}
    BY <2>1 DEF OpenCreates
  <2>2. CASE known = {}
    <3>1. fresh # {} /\ stripe' = [stripe EXCEPT ![s] = [status |-> "open", amount |-> my[c].amount, key |-> Key(c)]]
      BY <2>2 DEF OpenCreates
    <3>2. fresh \subseteq Nat
      BY CheckoutAssumption
    <3>3. s \in fresh
      BY <3>1, <3>2, First
    <3> HIDE DEF s
    <3> QED BY <3>1, <3>3
  <2> QED BY <2>1, <2>2
<1>4. \A s \in handed : stripe'[s] = stripe[s]
  BY <1>3 DEF SessionsInv, HandoutsOK, ChargeInv, Shapes
<1>5. \A s \in Sessions : stripe'[s].status = "complete" => Status(s) = "complete"
  BY <1>3 DEF ChargeInv, Shapes, Status
<1>6. HandoutsOK' /\ PaymentsAreRecognised'
  BY <1>1, <1>4, <1>5 DEF SessionsInv, HandoutsOK, PaymentsAreRecognised, Status
<1>7. NothingToPay'
  <2>1. data.session # NoSession => data.session \in Sessions /\ Status(data.session) # "none"
    BY DEF ChargeInv, RecordOK, IsCharge
  <2>2. data.session # NoSession => stripe'[data.session] = stripe[data.session]
    BY <1>3, <2>1 DEF ChargeInv, Shapes, Status
  <2> QED BY <1>1, <1>2, <2>2 DEF NothingToPay, Status
<1>8. RequestOK(c)'
  BY <1>2, <1>7 DEF RequestOK
<1> QED BY <1>1, <1>6, <1>8, OneRequest

\* The only page that can be paid is the one being recorded.
LEMMA SessionIsRecorded ==
    ASSUME ChargeInv, SessionsInv, InTurn', NEW c \in Calls, OpenRecords(c)
    PROVE  SessionsInv'
<1> DEFINE s == my[c].session
<1>1. /\ pc[c] = "record" /\ Finish(c) /\ UNCHANGED stripe
      /\ data' = [session |-> s, amount |-> my[c].amount, buyer |-> my[c].buyer]
      /\ handed' = handed \cup {s}
  BY DEF OpenRecords
<1>2. s \in Sessions /\ Status(s) # "none"
  BY <1>1 DEF ChargeInv, CallsOK, IsCharge
<1>3. NothingToPay
  BY <1>1 DEF SessionsInv, RequestOK
<1>4. \A x \in handed : Status(x) \notin {"open", "complete"}
  BY <1>3, CheckoutAssumption DEF NothingToPay, SessionsInv, HandoutsOK, PaymentsAreRecognised, NoSession
<1>5. data'.session = s
  BY <1>1
<1> HIDE DEF s
<1>6. HandoutsOK'
  BY <1>1, <1>2 DEF SessionsInv, HandoutsOK, Status
<1>7. PaymentsAreRecognised'
  BY <1>1, <1>4, <1>5 DEF PaymentsAreRecognised, Status
<1> QED BY <1>1, <1>6, <1>7, RequestDone

LEMMA BrowserSteps ==
    ASSUME ChargeInv, SessionsInv, InTurn', NEW c \in Calls,
           BeginCall(c) \/ CallStep(c) \/ RecordFails(c) \/ CallDies(c)
    PROVE  SessionsInv'
<1> USE DEF Labels
<1>a. RequestOK(c) /\ HandoutsOK
  BY DEF SessionsInv
<1>1. CASE BeginCall(c)
  <2>1. UNCHANGED <<data, stripe, handed>> /\ \E label \in {"read", "peek"} : Goto(c, label)
    BY <1>1 DEF BeginCall, holdVars
  <2>2. HandoutsOK' /\ PaymentsAreRecognised'
    BY <2>1, QuietStays, HandoutsStay DEF SessionsInv
  <2>3. RequestOK(c)'
    BY <2>1 DEF RequestOK, Goto, ChargeInv, Shapes
  <2> QED BY <2>1, <2>2, <2>3, OneRequest
<1>2. CASE OpenReads(c)
  BY <1>2, <1>a, RowIsRead DEF OpenReads, RequestOK, NothingToPay
<1>3. CASE CloseReads(c)
  BY <1>3, RowIsRead DEF CloseReads, AfterClose, NothingToPay
<1>4. CASE OpenAsks(c)
  BY <1>4, RequestGoesOn DEF OpenAsks, Unmatched
<1>5. CASE CloseAsks(c)
  BY <1>5, <1>a, RequestGoesOn DEF CloseAsks, RequestOK
<1>6. CASE CloseExpires(c)
  <2> DEFINE s == my[c].data.session
  <2>1. pc[c] = "expire" /\ s = data.session /\ s \in Sessions
    BY <1>6, <1>a DEF CloseExpires, RequestOK, ChargeInv, RecordOK, IsCharge
  <2>2. CASE Status(s) = "open"
    <3>1. EndSession(s, "closed", "expired") /\ Goto(c, "forget") /\ UNCHANGED <<data, handed, my>>
      BY <1>6, <2>2 DEF CloseExpires, holdVars
    <3>2. HandoutsOK' /\ PaymentsAreRecognised'
      BY <1>a, <2>1, <2>2, <3>1, QuietEnd, HandoutsStay DEF SessionsInv
    <3>3. stripe'[s].status = "closed" /\ pc'[c] = "forget"
      BY <2>1, <3>1 DEF EndSession, Goto, ChargeInv, Shapes, StripeSessions
    <3>4. RequestOK(c)'
      BY <1>a, <2>1, <3>1, <3>3 DEF RequestOK, Status
    <3> QED BY <2>1, <3>1, <3>2, <3>4, OneRequest
  <2>3. CASE Status(s) # "open"
    BY <1>6, <2>1, <2>3, RequestGoesOn DEF CloseExpires
  <2> QED BY <2>2, <2>3
<1>7. CASE CloseForgets(c)
  BY <1>7, SessionIsForgotten
<1>8. CASE OpenRecords(c)
  BY <1>8, SessionIsRecorded
<1>9. CASE OpenCovers(c)
  <2>1. pc[c] = "cover" /\ NothingToPay
    BY <1>9, <1>a DEF OpenCovers, RequestOK
  <2>2. CASE StepTo(c, "done") \/ StepTo(c, "create")
    BY <2>1, <2>2, RequestGoesOn
  <2>3. CASE Goto(c, "create") /\ UNCHANGED <<data, stripe, handed>>
    <3>1. HandoutsOK' /\ PaymentsAreRecognised'
      BY <2>3, QuietStays, HandoutsStay DEF SessionsInv
    <3>2. RequestOK(c)'
      BY <2>1, <2>3 DEF RequestOK, NothingToPay, Status, Goto, ChargeInv, Shapes
    <3> QED BY <2>1, <2>3, <3>1, <3>2, OneRequest
  <2> QED BY <1>9, <2>2, <2>3 DEF OpenCovers, holdVars
<1>10. CASE OpenCreates(c)
  BY <1>10, SessionIsCreated
<1>11. CASE ReleaseCall(c) \/ RepriceCall(c) \/ CallDies(c)
  <2>1. pc[c] \notin {"new", "done"} /\ Finish(c) /\ UNCHANGED <<data, stripe, handed>>
    BY <1>11 DEF ReleaseCall, RepriceCall, CallDies, holdVars
  <2> QED BY <2>1, QuietStays, HandoutsStay, RequestDone DEF SessionsInv
<1>12. CASE RecordFails(c)
  <2>1. /\ pc[c] = "record" /\ Finish(c) /\ UNCHANGED <<data, handed>>
        /\ \/ Status(my[c].session) = "open" /\ EndSession(my[c].session, "closed", "expired")
           \/ UNCHANGED stripe
    BY <1>12 DEF RecordFails, holdVars
  <2>2. my[c].session \in Sessions
    BY <2>1 DEF ChargeInv, CallsOK, IsCharge
  <2>3. Quiet
    BY <1>a, <2>1, <2>2, QuietStays, QuietEnd
  <2> QED BY <2>1, <2>3, HandoutsStay, RequestDone DEF SessionsInv
<1> QED BY <1>1, <1>2, <1>3, <1>4, <1>5, <1>6, <1>7, <1>8, <1>9, <1>10, <1>11, <1>12 DEF CallStep

-----------------------------------------------------------------------------
(* Its payments *)

\* A step of no handler, that neither makes an order nor converts the hold.
LEMMA AnswersStay ==
    ASSUME AnswersInv, UNCHANGED <<order, hook, acked, unmarked, wpc, job>>,
           (hold' = "converted") = (hold = "converted")
    PROVE  AnswersInv'
BY DEF AnswersInv, SoldOK, FiledOK, FiledMeansFulfilled, PaymentsAreAnswered, FilingOK, IsFor, JobSession

\* A handler that is not about to answer.
LEMMA AnswersWait ==
    ASSUME AnswersInv, UNCHANGED <<order, hold>>, NEW w \in Workers, wpc'[w] \notin {"mark", "giveBack"},
           \A v \in Workers \ {w} : wpc'[v] = wpc[v] /\ job'[v] = job[v],
           FiledOK'
    PROVE  AnswersInv'
<1>1. \A v \in Workers : FilingOK(v)'
  BY DEF AnswersInv, FilingOK, IsFor, JobSession
<1> QED BY <1>1 DEF AnswersInv, SoldOK

\* A handler that has a result of its event.
LEMMA ResultIsNoted ==
    ASSUME ChargeInv, AnswersInv, UNCHANGED <<hook, acked, unmarked>>, NEW w \in Workers, wpc[w] # "idle",
           NEW label \in {"giveBack", "mark"}, NEW result \in Results \ {"none"}, Working(w, label, result),
           SoldOK', order # NoOrder => order' = order,
           label = "mark" /\ IsFor(w, {"completed"}) /\ result = "clean" => order'.session = JobSession(w),
           label = "giveBack" => ~ IsFor(w, {"completed"})
    PROVE  AnswersInv'
<1>1. job[w] \in Jobs
  BY DEF ChargeInv, Shapes
<1>2. job'[w].event = job[w].event /\ job'[w].result = result /\ wpc'[w] = label
      /\ \A v \in Workers \ {w} : wpc'[v] = wpc[v] /\ job'[v] = job[v]
  BY <1>1 DEF Working, ChargeInv, Shapes, Jobs
<1>3. \A s \in Sessions : order.session = s => order'.session = s
  BY CheckoutAssumption DEF NoOrder, NoSession
<1>4. FiledOK'
  BY <1>3 DEF AnswersInv, FiledOK, FiledMeansFulfilled, PaymentsAreAnswered
<1>5. FilingOK(w)'
  BY <1>2 DEF FilingOK, IsFor, JobSession
<1>6. ASSUME NEW v \in Workers \ {w} PROVE FilingOK(v)'
  <2>1. FilingOK(v) /\ wpc'[v] = wpc[v] /\ job'[v] = job[v]
    BY <1>2 DEF AnswersInv
  <2>2. wpc[v] = "mark" => JobSession(v) \in Sessions
    BY DEF ChargeInv, HandlerOK
  <2> QED BY <1>3, <2>1, <2>2 DEF FilingOK, IsFor, JobSession
<1> QED BY <1>4, <1>5, <1>6 DEF AnswersInv

\* Of one hold one session is paid: the recorded one, and so the order's.
LEMMA OnePayment ==
    ASSUME ChargeInv, HandoutsOK, PaymentsAreRecognised, order # NoOrder,
           NEW s \in Sessions, Status(s) = "complete"
    PROVE  order.session = s
<1>1. order.session \in Sessions /\ Status(order.session) = "complete"
  BY DEF ChargeInv, OrderOK
<1> QED BY <1>1 DEF HandoutsOK, PaymentsAreRecognised

LEMMA PaymentIsHandled ==
    ASSUME OneTabInv, NEW w \in Workers, WorkerStep(w) \/ FulfilFails(w) \/ WorkerDies(w)
    PROVE  AnswersInv'
<1>a. ChargeInv /\ AnswersInv /\ HandlerOK(w) /\ FilingOK(w) /\ HandoutsOK /\ PaymentsAreRecognised
  BY DEF OneTabInv, ChargeInv, AnswersInv, SessionsInv
<1>b. {"clean", "CONFLICT"} \cup Permanent \subseteq Results \ {"none"}
  BY DEF Results, Permanent, Transient
<1>c. UNCHANGED <<order, hold>> => SoldOK'
  BY <1>a DEF AnswersInv, SoldOK
<1>1. CASE MatchPayment(w)
  <2>1. wpc[w] = "match" /\ UNCHANGED <<order, hold, hook, acked, unmarked>>
    BY <1>1 DEF MatchPayment, OnlyWorked, holdVars, hookVars
  <2>2. CASE data.session # JobSession(w)
    BY <1>1, <1>a, <1>b, <1>c, <2>1, <2>2, ResultIsNoted DEF MatchPayment, Permanent
  <2>3. CASE data.session = JobSession(w)
    <3>1. wpc'[w] \notin {"mark", "giveBack"} /\ \A v \in Workers \ {w} : wpc'[v] = wpc[v] /\ job'[v] = job[v]
      BY <1>1, <1>a, <2>3 DEF MatchPayment, ChargeInv, Shapes
    <3>2. FiledOK'
      BY <1>a, <2>1 DEF AnswersInv, FiledOK, FiledMeansFulfilled, PaymentsAreAnswered
    <3> QED BY <1>a, <2>1, <3>1, <3>2, AnswersWait
  <2> QED BY <2>2, <2>3
<1>2. CASE QuotePayment(w)
  <2>1. wpc[w] = "quote" /\ UNCHANGED <<order, hold, hook, acked, unmarked>>
    BY <1>2 DEF QuotePayment, OnlyWorked, holdVars, hookVars
  <2>2. CASE ~ Quoted
    <3>1. (IF Payable THEN "EVENT_NOT_PUBLISHED" ELSE "RESERVATION_EXPIRED") \in Permanent \ {"clean"}
      BY DEF Permanent
    <3> QED BY <1>2, <1>a, <1>b, <1>c, <2>1, <2>2, <3>1, ResultIsNoted DEF QuotePayment
  <2>3. CASE Quoted
    <3>1. wpc'[w] \notin {"mark", "giveBack"} /\ \A v \in Workers \ {w} : wpc'[v] = wpc[v] /\ job'[v] = job[v]
      BY <1>2, <1>a, <2>3 DEF QuotePayment, ChargeInv, Shapes
    <3>2. FiledOK'
      BY <1>a, <2>1 DEF AnswersInv, FiledOK, FiledMeansFulfilled, PaymentsAreAnswered
    <3> QED BY <1>a, <2>1, <3>1, <3>2, AnswersWait
  <2> QED BY <2>2, <2>3
<1>3. CASE Fulfil(w)
  <2>1. /\ wpc[w] = "fulfil" /\ UNCHANGED <<hook, acked, unmarked>>
        /\ JobSession(w) \in Sessions /\ Status(JobSession(w)) = "complete"
    BY <1>3, <1>a DEF Fulfil, hookVars, HandlerOK
  <2>2. CASE hold = "active" /\ published
    <3>1. hold' = "converted" /\ order' = [session |-> JobSession(w), amount |-> job[w].amount]
          /\ Working(w, "mark", "clean")
      BY <1>3, <2>2 DEF Fulfil
    <3>2. order = NoOrder
      BY <1>a, <2>2 DEF AnswersInv, SoldOK
    <3>3. order'.session = JobSession(w) /\ order' # NoOrder
      BY <2>1, <3>1, CheckoutAssumption DEF NoOrder, NoSession
    <3>4. SoldOK'
      BY <3>1, <3>3 DEF SoldOK
    <3> QED BY <1>a, <1>b, <2>1, <3>1, <3>2, <3>3, <3>4, ResultIsNoted
  <2>3. CASE ~ (hold = "active" /\ published)
    <3> DEFINE result == IF hold = "converted" THEN "clean"
                         ELSE IF hold = "active" THEN "EVENT_NOT_PUBLISHED" ELSE "RESERVATION_EXPIRED"
    <3>1. Working(w, "mark", result) /\ UNCHANGED <<hold, order>>
      BY <1>3, <2>3 DEF Fulfil
    <3>2. result \in Results \ {"none"} /\ (result = "clean" => hold = "converted")
      BY <1>b DEF Permanent
    <3> HIDE DEF result
    <3>3. result = "clean" => order.session = JobSession(w)
      BY <1>a, <2>1, <3>2, OnePayment DEF AnswersInv, SoldOK
    <3> QED BY <1>a, <1>c, <2>1, <3>1, <3>2, <3>3, ResultIsNoted
  <2> QED BY <2>2, <2>3
<1>4. CASE MatchExpired(w) \/ GiveBack(w) \/ FulfilFails(w)
  <2>1. /\ wpc[w] # "idle" /\ UNCHANGED <<order, hook, acked, unmarked>>
        /\ (hold' = "converted") = (hold = "converted")
    BY <1>4 DEF MatchExpired, GiveBack, FulfilFails, Released, OnlyWorked, holdVars, hookVars
  <2>2. SoldOK'
    BY <1>a, <2>1 DEF AnswersInv, SoldOK
  <2>3. CASE FulfilFails(w)
    BY <1>a, <1>b, <2>1, <2>2, <2>3, ResultIsNoted DEF FulfilFails
  <2>4. CASE MatchExpired(w) \/ GiveBack(w)
    <3>1. PICK label \in {"giveBack", "mark"} : Working(w, label, "clean")
      BY <2>4 DEF MatchExpired, GiveBack
    <3>2. ~ IsFor(w, {"completed"})
      BY <2>4, <1>a DEF MatchExpired, GiveBack, IsFor, FilingOK
    <3> QED BY <1>a, <1>b, <2>1, <2>2, <3>1, <3>2, ResultIsNoted
  <2> QED BY <1>4, <2>3, <2>4
<1>5. CASE WorkerDies(w)
  <2>1. Free(w) /\ UNCHANGED <<order, hold, hook, acked, unmarked>>
    BY <1>5 DEF WorkerDies, holdVars, hookVars
  <2>2. wpc'[w] = "idle" /\ \A v \in Workers \ {w} : wpc'[v] = wpc[v] /\ job'[v] = job[v]
    BY <1>a, <2>1 DEF Free, ChargeInv, Shapes
  <2>3. FiledOK'
    BY <1>a, <2>1 DEF AnswersInv, FiledOK, FiledMeansFulfilled, PaymentsAreAnswered
  <2> QED BY <1>a, <2>1, <2>2, <2>3, AnswersWait
<1>6. CASE Answer(w)
  <2> DEFINE e == job[w].event
  <2> DEFINE result == job[w].result
  <2>1. wpc[w] = "mark" /\ Free(w) /\ UNCHANGED <<order, hold>>
    BY <1>6 DEF Answer, holdVars
  <2>2. wpc'[w] = "idle" /\ \A v \in Workers \ {w} : wpc'[v] = wpc[v] /\ job'[v] = job[v]
    BY <1>a, <2>1 DEF Free, ChargeInv, Shapes
  <2>3. CASE IsFor(w, {"page"})
    <3>1. UNCHANGED <<hook, acked, unmarked>>
      BY <1>6, <2>3 DEF Answer, hookVars
    <3>2. FiledOK'
      BY <1>a, <2>1, <3>1 DEF AnswersInv, FiledOK, FiledMeansFulfilled, PaymentsAreAnswered
    <3> QED BY <1>a, <2>1, <2>2, <3>2, AnswersWait
  <2>4. CASE ~ IsFor(w, {"page"})
    <3>1. /\ \/ hook' = [hook EXCEPT ![e] = result] /\ unmarked' = unmarked \ {e}
             \/ /\ UNCHANGED hook
                /\ unmarked' = IF result \in Permanent THEN unmarked \cup {e} ELSE unmarked \ {e}
          /\ acked' = IF result \in Transient THEN acked \ {e} ELSE acked \cup {e}
      BY <1>6, <2>4 DEF Answer, Mark, Filed
    <3>2. /\ result \in {"clean"} \cup Permanent \cup Transient
          /\ \A s \in Sessions : e = <<"completed", s>> /\ result = "clean" => order.session = s
      BY <1>a, <2>1 DEF ChargeInv, Shapes, Jobs, Results, FilingOK, IsFor, JobSession
    <3> HIDE DEF e, result
    <3>3. ASSUME NEW s \in Sessions
          PROVE  /\ hook'[<<"completed", s>>] = "clean" => order.session = s
                 /\ <<"completed", s>> \in acked' =>
                       \/ order.session = s
                       \/ hook'[<<"completed", s>>] \in Permanent
                       \/ <<"completed", s>> \in unmarked'
      <4> DEFINE d == <<"completed", s>>
      <4>1. /\ hook[d] = "clean" => order.session = s
            /\ d \in acked => order.session = s \/ hook[d] \in Permanent \/ d \in unmarked
        BY <1>a DEF AnswersInv, FiledOK, FiledMeansFulfilled, PaymentsAreAnswered
      <4>2. d \in DOMAIN hook
        BY <1>a DEF AnswersInv, FiledOK, Events
      <4>3. CASE d = e
        BY <3>1, <3>2, <4>1, <4>2, <4>3
      <4>4. CASE d # e
        <5>1. hook'[d] = hook[d] /\ (d \in unmarked' <=> d \in unmarked)
          BY <3>1, <4>2, <4>4
        <5>2. d \in acked' <=> d \in acked
          BY <3>1, <4>4
        <5> QED BY <4>1, <5>1, <5>2
      <4> QED BY <4>3, <4>4
    <3>4. FiledOK'
      BY <1>a, <2>1, <3>1, <3>3 DEF AnswersInv, FiledOK, FiledMeansFulfilled, PaymentsAreAnswered
    <3> QED BY <1>a, <2>1, <2>2, <3>4, AnswersWait
  <2> QED BY <2>3, <2>4
<1> QED BY <1>1, <1>2, <1>3, <1>4, <1>5, <1>6 DEF WorkerStep

LEMMA EventIsTaken ==
    ASSUME OneTabInv, NEW w \in Workers, NEW e \in Events, Deliver(w, e)
    PROVE  AnswersInv'
<1>a. ChargeInv /\ AnswersInv
  BY DEF OneTabInv
<1>1. wpc[w] = "idle" /\ UNCHANGED <<order, hold>>
  BY DEF Deliver, holdVars
<1>2. CASE Seen(e)
  <2>1. acked' = acked \cup {e} /\ UNCHANGED <<hook, unmarked, wpc, job>> /\ hook[e] = "clean"
    BY <1>2 DEF Deliver, workVars, Seen
  <2>2. FiledOK'
    BY <1>a, <1>1, <2>1 DEF AnswersInv, FiledOK, FiledMeansFulfilled, PaymentsAreAnswered
  <2>3. wpc'[w] \notin {"mark", "giveBack"} /\ \A v \in Workers \ {w} : wpc'[v] = wpc[v] /\ job'[v] = job[v]
    BY <1>1, <2>1
  <2> QED BY <1>a, <1>1, <2>2, <2>3, AnswersWait
<1>3. CASE ~ Seen(e)
  <2>1. /\ hook' = [hook EXCEPT ![e] = IF @ = "none" THEN "claimed" ELSE @]
        /\ Take(w, e) /\ UNCHANGED <<acked, unmarked>>
    BY <1>3 DEF Deliver
  <2>2. \A d \in Events : hook'[d] = hook[d] \/ (hook[d] = "none" /\ hook'[d] = "claimed")
    BY <1>a, <2>1 DEF AnswersInv, FiledOK
  <2>3. \A s \in Sessions : <<"completed", s>> \in Events
    BY DEF Events
  <2>4. FiledOK'
    <3>1. FiledMeansFulfilled' /\ DOMAIN hook' = Events
      BY <1>a, <1>1, <2>1, <2>2, <2>3 DEF AnswersInv, FiledOK, FiledMeansFulfilled
    <3>2. PaymentsAreAnswered'
      BY <1>a, <1>1, <2>1, <2>2, <2>3 DEF AnswersInv, FiledOK, PaymentsAreAnswered, Permanent
    <3> QED BY <3>1, <3>2 DEF FiledOK
  <2>5. wpc'[w] = "match" /\ \A v \in Workers \ {w} : wpc'[v] = wpc[v] /\ job'[v] = job[v]
    BY <1>a, <2>1 DEF Take, ChargeInv, Shapes
  <2> QED BY <1>a, <1>1, <2>4, <2>5, AnswersWait
<1> QED BY <1>2, <1>3

-----------------------------------------------------------------------------
(* Every step of a buyer who waits *)

LEMMA OneTabStep == OneTabInv /\ [Next]_vars /\ InTurn' => OneTabInv'
<1> SUFFICES ASSUME OneTabInv, [Next]_vars, InTurn' PROVE OneTabInv'
  OBVIOUS
<1>a. ChargeInv /\ ChargeInv' /\ SessionsInv /\ AnswersInv /\ HandoutsOK
  BY ChargeStep DEF OneTabInv, SessionsInv
<1>1. ASSUME NEW s \in Sessions, BuyerPays(s) \/ SessionTimesOut(s) PROVE OneTabInv'
  <2>1. /\ UNCHANGED <<data, handed, hold, order, hook, acked, unmarked, pc, my, wpc, job>> /\ Status(s) = "open"
        /\ \/ EndSession(s, "complete", "completed") /\ s \in handed
           \/ EndSession(s, "timedOut", "expired")
    BY <1>1 DEF BuyerPays, SessionTimesOut, holdVars, callVars, hookVars, workVars
  <2>2. Quiet
    BY <1>a, <2>1, QuietEnd
  <2> QED BY <1>a, <2>1, <2>2, BrowserWaits, AnswersStay DEF OneTabInv
<1>2. CASE Lapse \/ Sweep \/ PriceMoves \/ StopEvent \/ CloserLists \/ CloserReleases
  <2>1. /\ UNCHANGED <<data, handed, stripe, order, hook, acked, unmarked, pc, my, wpc, job>>
        /\ (hold' = "converted") = (hold = "converted")
    BY <1>2 DEF Lapse, Sweep, PriceMoves, StopEvent, CloserLists, CloserReleases, Released,
                holdVars, callVars, hookVars, workVars
  <2> QED BY <1>a, <2>1, QuietStays, BrowserWaits, AnswersStay DEF OneTabInv
<1>3. CASE CloserExpires
  <2>1. /\ UNCHANGED <<data, handed, hold, order, hook, acked, unmarked, pc, my, wpc, job>>
        /\ \/ Status(closer.session) = "open" /\ EndSession(closer.session, "closed", "expired")
           \/ UNCHANGED stripe
    BY <1>3 DEF CloserExpires, holdVars, callVars, hookVars, workVars
  <2>2. Quiet
    BY <1>a, <2>1, QuietStays, QuietEnd
  <2> QED BY <1>a, <2>1, <2>2, BrowserWaits, AnswersStay DEF OneTabInv
<1>4. ASSUME NEW c \in Calls, BeginCall(c) \/ CallStep(c) \/ RecordFails(c) \/ CallDies(c)
      PROVE  OneTabInv'
  <2>1. UNCHANGED <<order, hook, acked, unmarked, wpc, job>> /\ (hold' = "converted") = (hold = "converted")
    BY <1>4 DEF BeginCall, CallStep, RecordFails, CallDies, OpenReads, OpenAsks, CloseReads, CloseAsks,
                CloseExpires, CloseForgets, OpenCovers, OpenCreates, OpenRecords, ReleaseCall, RepriceCall,
                ReadHold, StepTo, Released, holdVars, hookVars, workVars
  <2>2. SessionsInv'
    BY <1>4, <1>a, BrowserSteps
  <2> QED BY <1>a, <2>1, <2>2, AnswersStay DEF OneTabInv
<1>5. ASSUME NEW w \in Workers, NEW e \in Events, Deliver(w, e) PROVE OneTabInv'
  <2>1. UNCHANGED <<data, handed, stripe, pc, my>>
    BY <1>5 DEF Deliver, holdVars, callVars
  <2> QED BY <1>5, <1>a, <2>1, QuietStays, BrowserWaits, EventIsTaken DEF OneTabInv
<1>6. ASSUME NEW w \in Workers, NEW s \in Sessions, OpenSuccessPage(w, s) PROVE OneTabInv'
  <2>1. UNCHANGED <<data, handed, stripe, pc, my, order, hold, hook, acked, unmarked>> /\ Take(w, <<"page", s>>)
    BY <1>6 DEF OpenSuccessPage, holdVars, callVars, hookVars
  <2>2. wpc'[w] = "match" /\ \A v \in Workers \ {w} : wpc'[v] = wpc[v] /\ job'[v] = job[v]
    BY <1>a, <2>1 DEF Take, ChargeInv, Shapes
  <2>3. FiledOK'
    BY <1>a, <2>1 DEF AnswersInv, FiledOK, FiledMeansFulfilled, PaymentsAreAnswered
  <2>4. AnswersInv'
    BY <1>a, <2>1, <2>2, <2>3, AnswersWait
  <2> QED BY <1>a, <2>1, <2>4, QuietStays, BrowserWaits DEF OneTabInv
<1>7. ASSUME NEW w \in Workers, WorkerStep(w) \/ FulfilFails(w) \/ WorkerDies(w) PROVE OneTabInv'
  <2>1. UNCHANGED <<data, handed, stripe, pc, my>>
    BY <1>7 DEF WorkerStep, MatchPayment, QuotePayment, Fulfil, MatchExpired, GiveBack, Answer,
                FulfilFails, WorkerDies, OnlyWorked, holdVars, callVars
  <2> QED BY <1>7, <1>a, <2>1, QuietStays, BrowserWaits, PaymentIsHandled DEF OneTabInv
<1>8. CASE UNCHANGED vars
  <2>1. UNCHANGED <<data, handed, stripe, pc, my, order, hold, hook, acked, unmarked, wpc, job>>
    BY <1>8 DEF vars, holdVars, callVars, hookVars, workVars
  <2> QED BY <1>a, <2>1, QuietStays, BrowserWaits, AnswersStay DEF OneTabInv
<1> QED BY <1>1, <1>2, <1>3, <1>4, <1>5, <1>6, <1>7, <1>8 DEF Next, CloserStep

LEMMA OneTabAlways == TabSpec => [](~ tabs => OneTabInv)
<1>1. TabInit => (~ tabs => OneTabInv)
  BY InitOneTab DEF TabInit
<1>2. (~ tabs => OneTabInv) /\ [TabNext]_tabVars => (~ tabs => OneTabInv)'
  <2> SUFFICES ASSUME ~ tabs => OneTabInv, [TabNext]_tabVars, ~ tabs' PROVE OneTabInv'
    OBVIOUS
  <2>1. CASE TabNext
    BY <2>1, OneTabStep DEF TabNext
  <2>2. CASE UNCHANGED tabVars
    <3>1. UNCHANGED vars /\ UNCHANGED tabs /\ InTurn'
      BY <2>2 DEF tabVars, vars, callVars, OneTabInv, SessionsInv, InTurn
    <3> QED BY <3>1, OneTabStep
  <2> QED BY <2>1, <2>2
<1> QED BY <1>1, <1>2, PTL DEF TabSpec

\* "ONE Stripe Checkout Session per hold" (openSession, closeOpenSession): for a
\* buyer who waits for each answer, a page that can be paid or was is the one the
\* hold records, whatever prices, lapses, deaths and stops come between, and
\* however often the hold is lengthened.
THEOREM OneTabIsRecognisedHolds == TabSpec => []OneTabIsRecognised
<1>1. (~ tabs => OneTabInv) => OneTabIsRecognised
  BY DEF OneTabInv, SessionsInv, OneTabIsRecognised
<1> QED BY <1>1, OneTabAlways, PTL

\* Such a buyer's payment is filed as done only when the tickets were issued for
\* this very payment (fulfillFromSession, mark), by whichever of any number of
\* deliveries and success pages.
THEOREM OneTabIsFulfilledHolds == TabSpec => []OneTabIsFulfilled
<1>1. (~ tabs => OneTabInv) => OneTabIsFulfilled
  BY DEF OneTabInv, AnswersInv, FiledOK, OneTabIsFulfilled
<1> QED BY <1>1, OneTabAlways, PTL

\* "2xx MEANS STOP RETRYING": such a buyer's payment is acknowledged only when it
\* is an order or an error on its row, whatever dies, repeats or overlaps, but for a
\* refusal that mark could not write.
THEOREM OneTabIsAnsweredHolds == TabSpec => []OneTabIsAnswered
<1>1. (~ tabs => OneTabInv) => OneTabIsAnswered
  BY DEF OneTabInv, AnswersInv, FiledOK, OneTabIsAnswered
<1> QED BY <1>1, OneTabAlways, PTL

\* Such a buyer pays a hold once (openSession, closeOpenSession), however many
\* requests were sent, pages opened and closed again, and lapses prevented.
THEOREM OneTabIsChargedOnceHolds == TabSpec => []OneTabIsChargedOnce
<1>1. (~ tabs => OneTabInv) => OneTabIsChargedOnce
  BY DEF OneTabInv, SessionsInv, HandoutsOK, PaymentsAreRecognised, OneTabIsChargedOnce, AtMostOne, Charged
<1> QED BY <1>1, OneTabAlways, PTL

-----------------------------------------------------------------------------
(* One hold, one purchase *)

\* What is paid stays paid, and for the same amount.
PaidStays ==
    \A s \in Sessions : /\ stripe'[s].status = "complete" <=> Status(s) = "complete"
                        /\ Status(s) = "complete" => stripe'[s].amount = stripe[s].amount

\* Either that, or a buyer pays a page.
PagesGo == PaidStays \/ \E s \in Sessions : /\ Status(s) = "open" /\ EndSession(s, "complete", "completed")
                                            /\ UNCHANGED <<hold, order>>

\* The hold stays, is over, or becomes the order of a paid page.
HoldGoes ==
    \/ UNCHANGED order /\ Standing' = Standing
    \/ UNCHANGED <<order, stripe>> /\ Standing = "active" /\ Standing' = "over"
    \/ /\ hold = "active" /\ hold' = "converted" /\ UNCHANGED stripe
       /\ \E s \in Sessions : Status(s) = "complete" /\ order' = [session |-> s, amount |-> stripe[s].amount]

LEMMA PageEnds ==
    ASSUME Shapes, NEW s, Status(s) = "open", NEW end \in {"timedOut", "closed"}, NEW kind, EndSession(s, end, kind)
    PROVE  PaidStays
BY DEF PaidStays, Status, EndSession, Shapes, StripeSessions

LEMMA PagesStep == Shapes /\ [Next]_vars => PagesGo
<1> SUFFICES ASSUME Shapes, [Next]_vars PROVE PagesGo
  OBVIOUS
<1>a. UNCHANGED stripe => PagesGo
  BY DEF PagesGo, PaidStays, Status
<1>1. ASSUME NEW s \in Sessions, BuyerPays(s) \/ SessionTimesOut(s) PROVE PagesGo
  BY <1>1, PageEnds DEF BuyerPays, SessionTimesOut, PagesGo, holdVars
<1>2. ASSUME NEW c \in Calls, BeginCall(c) \/ CallStep(c) \/ RecordFails(c) \/ CallDies(c) PROVE PagesGo
  <2>1. CASE OpenCreates(c)
    <3>1. \/ UNCHANGED stripe
          \/ \E s \in Sessions : /\ Status(s) = "none"
                                 /\ \E n, k : stripe' = [stripe EXCEPT ![s] = [status |-> "open", amount |-> n, key |-> k]]
      <4> DEFINE known == {s \in Sessions : Status(s) # "none" /\ stripe[s].key = Key(c)}
      <4> DEFINE fresh == {s \in Sessions : Status(s) = "none"}
      <4>1. CASE known = {}
        <5>1. fresh # {} /\ fresh \subseteq Nat
          BY <2>1, <4>1, CheckoutAssumption DEF OpenCreates
        <5>2. \E x \in fresh : \A y \in fresh : x <= y
          BY <5>1, First
        <5>3. (CHOOSE x \in fresh : \A y \in fresh : x <= y) \in fresh
          BY <5>2
        <5> QED BY <2>1, <4>1, <5>3 DEF OpenCreates
      <4>2. CASE known # {}
        BY <2>1, <4>2 DEF OpenCreates
      <4> QED BY <4>1, <4>2
    <3>2. CASE UNCHANGED stripe
      BY <3>2, <1>a
    <3>3. ASSUME NEW s \in Sessions, NEW n, NEW k, Status(s) = "none",
                 stripe' = [stripe EXCEPT ![s] = [status |-> "open", amount |-> n, key |-> k]]
          PROVE  PaidStays
      BY <3>3 DEF PaidStays, Status, Shapes
    <3> QED BY <3>1, <3>2, <3>3 DEF PagesGo
  <2>2. CASE CloseExpires(c) \/ RecordFails(c)
    <3>1. UNCHANGED stripe \/ \E s : Status(s) = "open" /\ EndSession(s, "closed", "expired")
      BY <2>2 DEF CloseExpires, RecordFails, StepTo
    <3> QED BY <3>1, <1>a, PageEnds DEF PagesGo
  <2>3. CASE ~ OpenCreates(c) /\ ~ CloseExpires(c) /\ ~ RecordFails(c)
    <3>1. UNCHANGED stripe
      BY <1>2, <2>3 DEF BeginCall, CallStep, CallDies, OpenReads, OpenAsks, CloseReads, CloseAsks,
                CloseForgets, OpenCovers, OpenRecords, ReleaseCall, RepriceCall, ReadHold, StepTo
    <3> QED BY <3>1, <1>a
  <2> QED BY <2>1, <2>2, <2>3
<1>3. CASE CloserExpires
  <2>1. UNCHANGED stripe \/ \E s : Status(s) = "open" /\ EndSession(s, "closed", "expired")
    BY <1>3 DEF CloserExpires
  <2> QED BY <2>1, <1>a, PageEnds DEF PagesGo
<1>4. CASE Lapse \/ Sweep \/ PriceMoves \/ StopEvent \/ CloserLists \/ CloserReleases \/ UNCHANGED vars
  BY <1>4, <1>a DEF Lapse, Sweep, PriceMoves, StopEvent, CloserLists, CloserReleases, vars
<1>5. ASSUME NEW w \in Workers, \/ (\E e \in Events : Deliver(w, e)) \/ (\E s \in Sessions : OpenSuccessPage(w, s))
                                \/ WorkerStep(w) \/ FulfilFails(w) \/ WorkerDies(w)
      PROVE PagesGo
  BY <1>5, <1>a DEF Deliver, OpenSuccessPage, WorkerStep, MatchPayment, QuotePayment, Fulfil, MatchExpired,
                    GiveBack, Answer, FulfilFails, WorkerDies, OnlyWorked
<1> QED BY <1>1, <1>2, <1>3, <1>4, <1>5 DEF Next, CloserStep

LEMMA HoldStep == ChargeInv /\ [Next]_vars => HoldGoes
<1> SUFFICES ASSUME ChargeInv, [Next]_vars PROVE HoldGoes
  OBVIOUS
<1>a. UNCHANGED <<hold, order>> => HoldGoes
  BY DEF HoldGoes, Standing
<1>b. ASSUME hold' = Released, UNCHANGED <<order, stripe>> PROVE HoldGoes
  BY <1>b DEF HoldGoes, Standing, Released
<1>1. ASSUME NEW w \in Workers, Fulfil(w) PROVE HoldGoes
  <2>1. CASE hold = "active" /\ published
    <3> DEFINE s == JobSession(w)
    <3>1. s \in Sessions /\ Status(s) = "complete" /\ job[w].amount = stripe[s].amount
      BY <1>1, <2>1 DEF Fulfil, ChargeInv, HandlerOK
    <3>2. hold' = "converted" /\ order' = [session |-> s, amount |-> stripe[s].amount] /\ UNCHANGED stripe
      BY <1>1, <2>1, <3>1 DEF Fulfil
    <3> QED BY <2>1, <3>1, <3>2 DEF HoldGoes
  <2>2. CASE ~ (hold = "active" /\ published)
    BY <1>1, <2>2, <1>a DEF Fulfil
  <2> QED BY <2>1, <2>2
<1>2. ASSUME NEW w \in Workers, GiveBack(w) PROVE HoldGoes
  BY <1>2, <1>b DEF GiveBack
<1>3. ASSUME NEW c \in Calls, ReleaseCall(c) PROVE HoldGoes
  BY <1>3, <1>b DEF ReleaseCall
<1>4. CASE CloserReleases
  BY <1>4, <1>b DEF CloserReleases
<1>5. CASE Sweep
  BY <1>5 DEF Sweep, HoldGoes, Standing
<1>6. ASSUME NEW c \in Calls, BeginCall(c) \/ (CallStep(c) /\ ~ ReleaseCall(c)) \/ RecordFails(c) \/ CallDies(c)
      PROVE HoldGoes
  BY <1>6, <1>a DEF BeginCall, CallStep, RecordFails, CallDies, OpenReads, OpenAsks, CloseReads, CloseAsks,
                CloseExpires, CloseForgets, OpenCovers, OpenCreates, OpenRecords, RepriceCall,
                ReadHold, StepTo, holdVars
<1>7. ASSUME NEW s \in Sessions, BuyerPays(s) \/ SessionTimesOut(s) PROVE HoldGoes
  BY <1>7, <1>a DEF BuyerPays, SessionTimesOut, holdVars
<1>8. CASE Lapse \/ PriceMoves \/ StopEvent \/ CloserLists \/ CloserExpires \/ UNCHANGED vars
  BY <1>8, <1>a DEF Lapse, PriceMoves, StopEvent, CloserLists, CloserExpires, vars, holdVars
<1>9. ASSUME NEW w \in Workers, \/ (\E e \in Events : Deliver(w, e)) \/ (\E s \in Sessions : OpenSuccessPage(w, s))
                                \/ (WorkerStep(w) /\ ~ Fulfil(w) /\ ~ GiveBack(w)) \/ FulfilFails(w) \/ WorkerDies(w)
      PROVE HoldGoes
  BY <1>9, <1>a DEF Deliver, OpenSuccessPage, WorkerStep, MatchPayment, QuotePayment, MatchExpired,
                    Answer, FulfilFails, WorkerDies, OnlyWorked, holdVars
<1> QED BY <1>1, <1>2, <1>3, <1>4, <1>5, <1>6, <1>7, <1>8, <1>9 DEF Next, CloserStep, CallStep, WorkerStep

\* What a buyer has paid is what records and handlers say, for either buyer.
PurchaseInv == ChargeInv /\ (~ tabs => OneTabInv)

LEMMA EachStepIsOfThePurchase ==
    PurchaseInv /\ PurchaseInv' /\ [TabNext]_tabVars => [Promise!Next]_(Promise!purchaseVars)
<1> SUFFICES ASSUME PurchaseInv, PurchaseInv', [TabNext]_tabVars PROVE Promise!Next
  OBVIOUS
<1>1. [Next]_vars /\ UNCHANGED tabs
  BY DEF TabNext, tabVars
<1>2. PagesGo /\ HoldGoes /\ Shapes /\ Shapes'
  BY <1>1, PagesStep, HoldStep DEF PurchaseInv, ChargeInv
<1>3. Charged' = {s \in Sessions : stripe'[s].status = "complete"}
  BY DEF Charged, Status
<1>4. /\ \A s \in Sessions : Pages[s] = stripe[s].amount /\ Pages'[s] = stripe'[s].amount
      /\ Pages' \in [Sessions -> Nat]
  BY <1>2 DEF Pages, Shapes, StripeSessions
<1>5. CASE PaidStays
  <2>1. UNCHANGED Charged /\ \A s \in Charged : Pages'[s] = Pages[s]
    BY <1>3, <1>4, <1>5 DEF PaidStays, Charged
  <2>2. CASE UNCHANGED order /\ Standing' = Standing
    BY <1>1, <1>4, <2>1, <2>2 DEF Promise!Next, Promise!MakeOut
  <2>3. CASE UNCHANGED <<order, stripe>> /\ Standing = "active" /\ Standing' = "over"
    <3>1. UNCHANGED Pages
      BY <2>3 DEF Pages
    <3> QED BY <1>1, <2>1, <2>3, <3>1 DEF Promise!Next, Promise!Lapse
  <2>4. ASSUME hold = "active", hold' = "converted", UNCHANGED stripe, NEW s \in Sessions, Status(s) = "complete",
               order' = [session |-> s, amount |-> stripe[s].amount]
        PROVE  Promise!Next
    <3>1. UNCHANGED Pages
      BY <2>4 DEF Pages
    <3>2. s \in Charged /\ order' = [session |-> s, amount |-> Pages[s]]
      BY <1>4, <2>4 DEF Charged
    <3>3. Standing = "active" /\ Standing' = "sold"
      BY <2>4 DEF Standing
    <3> QED BY <1>1, <2>1, <3>1, <3>2, <3>3 DEF Promise!Next, Promise!Sell
  <2> QED BY <1>2, <2>2, <2>3, <2>4 DEF HoldGoes
<1>6. ASSUME NEW s \in Sessions, Status(s) = "open", EndSession(s, "complete", "completed"), UNCHANGED <<hold, order>>
      PROVE  Promise!Next
  <2>1. \A q \in Sessions : /\ stripe'[q].amount = stripe[q].amount
                            /\ stripe'[q].status = IF q = s THEN "complete" ELSE Status(q)
    BY <1>2, <1>6 DEF EndSession, Status, Shapes, StripeSessions
  <2>2. UNCHANGED Pages
    BY <2>1 DEF Pages
  <2>3. s \notin Charged /\ Charged' = Charged \cup {s}
    BY <1>3, <1>6, <2>1 DEF Charged
  <2>4. ~ tabs => Charged = {}
    <3>1. ~ tabs => \A a, b \in Charged' : a = b
      <4>1. ~ tabs => data'.session \in {data'.session} /\ \A a \in Charged' : a = data'.session
        BY <1>1, <1>3 DEF PurchaseInv, OneTabInv, SessionsInv, HandoutsOK, PaymentsAreRecognised, Status
      <4> QED BY <4>1
    <3> QED BY <2>3, <3>1
  <2>5. UNCHANGED Standing
    BY <1>6 DEF Standing
  <2> QED BY <1>1, <1>6, <2>2, <2>3, <2>4, <2>5 DEF Promise!Next, Promise!Pay
<1> QED BY <1>2, <1>5, <1>6 DEF PagesGo

\* Whatever requests, Stripe, webhooks, success pages, the sweep and the admin do to
\* a hold comes to one purchase (openSession, fulfillFromSession, fulfill_checkout):
\* a buyer who waits for each answer pays once, and an order is of one paid page,
\* for what it said, and for good, as it is for a buyer with two tabs.
THEOREM EachHoldIsOnePurchaseHolds == TabSpec => EachHoldIsOnePurchase
<1>1. TabInit => Promise!Init
  <2> SUFFICES ASSUME TabInit PROVE Promise!Init
    OBVIOUS
  <2>1. Charged = {} /\ Pages = [s \in Sessions |-> 0] /\ Standing = "active"
    BY DEF TabInit, Init, Charged, Pages, Standing, Status
  <2> QED BY <2>1 DEF TabInit, Init, Promise!Init
<1>2. TabSpec => []ChargeInv
  <2>1. TabInit => ChargeInv
    BY InitCharge DEF TabInit
  <2>2. ChargeInv /\ [TabNext]_tabVars => ChargeInv'
    BY ChargeStep DEF TabNext, tabVars
  <2> QED BY <2>1, <2>2, PTL DEF TabSpec
<1>3. ChargeInv /\ (~ tabs => OneTabInv) => PurchaseInv
  BY DEF PurchaseInv
<1> QED BY <1>1, <1>2, <1>3, OneTabAlways, EachStepIsOfThePurchase, PTL
     DEF TabSpec, EachHoldIsOnePurchase, Promise!Spec
=============================================================================
