---------------------------- MODULE RulesProofs -----------------------------
(***************************************************************************)
(* The minutes of a hold, the life of an event, the lease of a job and the *)
(* allowance of AI drafts: the proofs of HoldTiming, EventLife, Leases and *)
(* Generations, which share no state.                                      *)
(***************************************************************************)
EXTENDS HoldTiming, EventLife, Leases, Generations, FiniteSetTheorems, TLAPS

-----------------------------------------------------------------------------
(* HoldTiming: sessions end before their hold *)

\* A hold starts with its time to live, which is below its cap.
LEMMA InitTiming == Init => TimingInv
BY TimingAssumption DEF Init, TimingInv, TypeOK, SessionsEndFirst, HoldLifeIsBounded, Clocks

\* Reading the hold: the reading is the expiry it has now.
LEMMA ReadTiming ==
    ASSUME TimingInv, NEW c \in Pays, Read(c)
    PROVE  TimingInv'
<1> USE TimingAssumption DEF Read, Goto, rowVars, sessionVars
<1>1. TypeOK'
  BY DEF TimingInv, TypeOK
<1> QED BY <1>1 DEF TimingInv, TypeOK, SessionsEndFirst, HoldLifeIsBounded

\* Planning: it only passes an expiry the hold had, or an extension that fits.
LEMMA PlanTiming ==
    ASSUME TimingInv, NEW c \in Pays, Plan(c)
    PROVE  TimingInv'
<1> PICK clock \in Clocks :
        /\ at' = [at EXCEPT ![c] = clock]
        /\ IF seen[c] > clock /\ seen[c] >= clock + Needed
           THEN until' = [until EXCEPT ![c] = seen[c]] /\ Goto(c, "create")
           ELSE /\ Goto(c, IF seen[c] > clock /\ MayExtend(clock) THEN "extend" ELSE "done")
                /\ UNCHANGED until
  BY DEF Plan
<1>1. /\ pc[c] = "plan" /\ seen[c] <= expiresAt /\ clock \in Int
      /\ UNCHANGED <<now, createdAt, hold, expiresAt, seen, sessionEnd, paid>>
  BY TimingAssumption DEF Plan, TimingInv, TypeOK, Clocks, rowVars, sessionVars
<1> HIDE DEF Needed
<1>2. TypeOK'
  <2>1. at' \in [Pays -> Int]
    BY <1>1 DEF TimingInv, TypeOK
  <2>2. until' \in [Pays -> Int]
    BY <1>1 DEF TimingInv, TypeOK
  <2>3. pc' \in [Pays -> {"new", "plan", "extend", "reread", "create", "done"}]
    BY DEF TimingInv, TypeOK, Goto
  <2> QED BY <1>1, <2>1, <2>2, <2>3 DEF TimingInv, TypeOK
<1>3. \A d \in Pays : pc'[d] = "create" => until'[d] <= expiresAt
  BY <1>1 DEF TimingInv, TypeOK, Goto
<1>4. \A d \in Pays : pc'[d] = "extend" => at'[d] + HoldAtCheckout <= createdAt + MaxLife
  BY <1>1 DEF TimingInv, TypeOK, Goto, MayExtend
<1>5. \A d \in Pays : pc'[d] = "plan" => seen[d] <= expiresAt
  BY <1>1 DEF TimingInv, TypeOK, Goto
<1> QED BY <1>1, <1>2, <1>3, <1>4, <1>5 DEF TimingInv, SessionsEndFirst, HoldLifeIsBounded

\* The conditional UPDATE lengthens the hold: it was too short for this request,
\* and is now set to more than it needs.
LEMMA ExtendLengthens ==
    ASSUME TypeOK, NEW c \in Pays, Extend(c)
    PROVE  expiresAt' >= expiresAt
BY TimingAssumption DEF Extend, StillTooShort, TypeOK, Needed

LEMMA ExtendTiming ==
    ASSUME TimingInv, NEW c \in Pays, Extend(c)
    PROVE  TimingInv'
<1> USE TimingAssumption
<1>1. expiresAt' >= expiresAt /\ expiresAt' \in Int /\ expiresAt \in Int
  BY ExtendLengthens DEF TimingInv, TypeOK, Extend
<1>2. TypeOK'
  BY DEF Extend, Goto, TimingInv, TypeOK, sessionVars
<1>3. HoldLifeIsBounded'
  BY DEF Extend, TimingInv, TypeOK, HoldLifeIsBounded, sessionVars
<1>4. \A d \in Pays : pc'[d] = "create" => until'[d] <= expiresAt'
  BY <1>1 DEF Extend, Goto, TimingInv, TypeOK, sessionVars
<1>5. SessionsEndFirst'
  BY <1>1 DEF Extend, TimingInv, TypeOK, SessionsEndFirst, sessionVars
<1>6. \A d \in Pays : pc'[d] = "plan" => seen'[d] <= expiresAt'
  BY <1>1 DEF Extend, Goto, TimingInv, TypeOK
<1>7. \A d \in Pays : pc'[d] = "extend" => at'[d] + HoldAtCheckout <= createdAt' + MaxLife
  BY DEF Extend, Goto, TimingInv, TypeOK
<1>8. hold' = "expired" => expiresAt' < now' + Skew
  BY DEF Extend, TimingInv, TypeOK
<1> QED BY <1>2, <1>3, <1>4, <1>5, <1>6, <1>7, <1>8 DEF TimingInv

LEMMA RereadTiming ==
    ASSUME TimingInv, NEW c \in Pays, Reread(c)
    PROVE  TimingInv'
<1> USE TimingAssumption DEF Reread, Goto, rowVars, sessionVars
<1>1. TypeOK'
  BY DEF TimingInv, TypeOK
<1>2. \A d \in Pays : pc'[d] = "create" => until'[d] <= expiresAt'
  BY DEF TimingInv, TypeOK
<1> QED BY <1>1, <1>2 DEF TimingInv, TypeOK, SessionsEndFirst, HoldLifeIsBounded

\* Opening the session: it ends its margin before an expiry the hold had.
LEMMA CreateTiming ==
    ASSUME TimingInv, NEW c \in Pays, Create(c)
    PROVE  TimingInv'
<1> USE TimingAssumption DEF Create, Goto, rowVars, SessionExpiryFor
<1>1. TypeOK'
  BY DEF TimingInv, TypeOK
<1>2. SessionsEndFirst'
  BY DEF TimingInv, TypeOK, SessionsEndFirst
<1> QED BY <1>1, <1>2 DEF TimingInv, TypeOK, HoldLifeIsBounded

\* Time, the buyer's payment and the end of the hold.
LEMMA WorldTiming ==
    ASSUME TimingInv, (\E c \in Pays : Pay(c)) \/ Sweep \/ EndHold \/ Tick
    PROVE  TimingInv'
<1> USE TimingAssumption DEF TimingInv, SessionsEndFirst, HoldLifeIsBounded
<1>1. ASSUME NEW c \in Pays, Pay(c) PROVE TimingInv'
  BY <1>1 DEF Pay, TypeOK, rowVars
<1>2. CASE Sweep
  <2>1. expiresAt < now + Skew
    BY <1>2 DEF Sweep, Clocks, TypeOK
  <2> QED BY <1>2, <2>1 DEF Sweep, TypeOK, sessionVars
<1>3. CASE EndHold
  BY <1>3 DEF EndHold, TypeOK, sessionVars
<1>4. CASE Tick
  BY <1>4 DEF Tick, TypeOK, sessionVars
<1> QED BY <1>1, <1>2, <1>3, <1>4

LEMMA NextTiming == TimingInv /\ [Next]_vars => TimingInv'
<1> SUFFICES ASSUME TimingInv, [Next]_vars PROVE TimingInv'
  OBVIOUS
<1>1. ASSUME NEW c \in Pays, Step(c) PROVE TimingInv'
  BY <1>1, ReadTiming, PlanTiming, ExtendTiming, RereadTiming, CreateTiming, WorldTiming DEF Step
<1>2. CASE Sweep \/ EndHold \/ Tick
  BY <1>2, WorldTiming
<1>3. CASE UNCHANGED vars
  BY <1>3 DEF vars, TimingInv, TypeOK, SessionsEndFirst, HoldLifeIsBounded
<1> QED BY <1>1, <1>2, <1>3 DEF Next

\* The inductive invariant of the minutes.
THEOREM TimingInvariant == Spec => []TimingInv
BY InitTiming, NextTiming, PTL DEF Spec

\* checkoutSessions.js: a session made under a hold can never outlive it.
THEOREM SessionsNeverOutliveTheHold == Spec => []SessionsEndFirst
<1>1. TimingInv => SessionsEndFirst
  BY DEF TimingInv
<1> QED BY <1>1, TimingInvariant, PTL

\* checkoutSessions.js: pressing Pay does not keep seats off sale for ever.
THEOREM HoldLifeBound == Spec => []HoldLifeIsBounded
<1>1. TimingInv => HoldLifeIsBounded
  BY DEF TimingInv
<1> QED BY <1>1, TimingInvariant, PTL

\* When the sweeper has taken a hold no session on it can still be paid, whatever
\* the clocks show within the margin.
THEOREM SweptHoldsCannotBePaid == Spec => []NoPayableSessionOnSweptHold
<1>1. TimingInv => NoPayableSessionOnSweptHold
  <2> SUFFICES ASSUME TimingInv, hold = "expired", NEW c \in Pays, Payable(c) PROVE FALSE
    BY DEF NoPayableSessionOnSweptHold
  <2>1. sessionEnd[c] + Margin <= expiresAt /\ now < sessionEnd[c]
    BY DEF TimingInv, SessionsEndFirst, Payable
  <2>2. expiresAt < now + Skew
    BY DEF TimingInv
  <2>3. now \in Int /\ sessionEnd[c] \in Int /\ expiresAt \in Int
    BY DEF TimingInv, TypeOK
  <2> QED BY <2>1, <2>2, <2>3, TimingAssumption
<1> QED BY <1>1, TimingInvariant, PTL

\* No request, however stale its reading, shortens a hold.
THEOREM NeverShortened == Spec => HoldsAreOnlyLengthened
<1>1. TimingInv /\ [Next]_vars => [expiresAt' >= expiresAt]_vars
  <2> SUFFICES ASSUME TimingInv, Next PROVE expiresAt' >= expiresAt
    OBVIOUS
  <2>1. expiresAt \in Int
    BY DEF TimingInv, TypeOK
  <2>2. ASSUME NEW c \in Pays, Extend(c) PROVE expiresAt' >= expiresAt
    BY <2>2, ExtendLengthens DEF TimingInv
  <2>3. ASSUME ~ \E c \in Pays : Extend(c) PROVE expiresAt' = expiresAt
    BY <2>3 DEF Next, Step, Read, Plan, Reread, Create, Pay, Sweep, EndHold, Tick, rowVars
  <2> QED BY <2>1, <2>2, <2>3
<1> QED BY <1>1, TimingInvariant, PTL DEF Spec, HoldsAreOnlyLengthened

-----------------------------------------------------------------------------
(* EventLife: what is cancelled stays so *)

-----------------------------------------------------------------------------
(* What a call may decide *)

Archivable == {"draft", "pending_review", "rejected", "published", "completed"}

LEMMA NothingAfterCancelled == TRANSITIONS["cancelled"] = {}
BY DEF TRANSITIONS

LEMMA WhatIsArchived ==
    ASSUME NEW s \in Statuses, "archived" \in TRANSITIONS[s]
    PROVE  s \in Archivable
BY DEF TRANSITIONS, Statuses, Archivable

LEMMA RestoredTo == ASSUME NEW from PROVE RestoreTarget(from) \in Statuses \ {"cancelled"}
BY DEF RestoreTarget, Statuses

\* No call decides anything about a cancelled event.
LEMMA DecisionsAreStatuses ==
    ASSUME NEW op \in Ops, NEW s \in Decisions(op), status \in Statuses
    PROVE  /\ s \in Statuses
           /\ status # "cancelled"
           /\ op = "archive" => status \in Archivable
<1> USE DEF Decisions, Statuses
<1>1. CASE op = "edit"
  BY <1>1
<1>2. CASE op = "submit"
  BY <1>2, NothingAfterCancelled DEF CanTransition
<1>3. CASE op = "restore"
  BY <1>3, RestoredTo
<1>4. CASE op \in {"approve", "reject"}
  BY <1>4
<1>5. CASE op = "archive"
  <2>1. s = "archived" /\ "archived" \in TRANSITIONS[status]
    BY <1>5
  <2> QED BY <1>5, <2>1, NothingAfterCancelled, WhatIsArchived
<1>6. CASE op \in {"suspend", "cancel", "ask"}
  BY <1>6, NothingAfterCancelled
<1> QED BY <1>1, <1>2, <1>3, <1>4, <1>5, <1>6 DEF Ops

-----------------------------------------------------------------------------
(* The inductive invariant *)

\* What is true of a call that has read the event and not yet written.
CallOK(k) ==
    /\ k.op \in Ops => k.saw # "cancelled"
    /\ k.op = "archive" => k.saw \in Archivable

\* Beside the types: the calls that answer requests are of events cancelled.
FinalInv ==
    /\ EventTypeOK
    /\ \A c \in Calls : CallOK(call[c])
    /\ \A c \in Calls : call[c].op = "answer" => status = "cancelled"
    /\ CancelledIsFinal

LEMMA InitFinal == EventInit => FinalInv
<1> SUFFICES ASSUME EventInit PROVE FinalInv
  OBVIOUS
<1>1. EventTypeOK
  BY DEF EventInit, EventTypeOK, Idle, Statuses
<1>2. \A c \in Calls : call[c].op = "none"
  BY DEF EventInit, Idle
<1>3. \A q \in Requests : request[q] = "none"
  BY DEF EventInit
<1> QED BY <1>1, <1>2, <1>3 DEF FinalInv, CallOK, CancelledIsFinal, Ops

CallRecords == [op : Ops \cup {"none", "answer"}, saw : Statuses, goes : Statuses, sees : SUBSET Columns]

\* A call that is done leaves nothing to answer or to write.
LEMMA DoneIsIdle ==
    ASSUME call \in [Calls -> CallRecords], NEW c \in Calls,
           \A d \in Calls : CallOK(call[d])
    PROVE  /\ Done(c) \in [Calls -> CallRecords]
           /\ \A d \in Calls : CallOK(Done(c)[d])
           /\ \A d \in Calls : Done(c)[d].op = "answer" => d # c /\ call[d].op = "answer"
BY DEF Done, Idle, CallOK, CallRecords, Ops, Statuses

LEMMA FinalStep == FinalInv /\ [EventNext]_eventVars => FinalInv'
<1> SUFFICES ASSUME FinalInv, [EventNext]_eventVars PROVE FinalInv'
  OBVIOUS
<1>0. /\ EventTypeOK /\ CancelledIsFinal /\ call \in [Calls -> CallRecords]
      /\ \A c \in Calls : CallOK(call[c])
      /\ \A c \in Calls : call[c].op = "answer" => status = "cancelled"
  BY DEF FinalInv, EventTypeOK, CallRecords
\* A write that matches is to an event that is not cancelled.
<1>a. ASSUME NEW c \in Calls, call[c].op \in Ops, Matches(c)
      PROVE  status # "cancelled"
  BY <1>0, <1>a DEF Matches, CallOK
<1>1. ASSUME NEW c \in Calls, NEW op \in Ops, ReadEvent(c, op) PROVE FinalInv'
  <2>1. PICK s \in Decisions(op) :
            call' = [call EXCEPT ![c] = [op |-> op, saw |-> status, goes |-> s, sees |-> Columns]]
    BY <1>1 DEF ReadEvent
  <2>2. /\ s \in Statuses /\ status \in Statuses /\ status # "cancelled"
        /\ op = "archive" => status \in Archivable
    BY <1>0, DecisionsAreStatuses DEF EventTypeOK
  <2>3. call' \in [Calls -> CallRecords]
    BY <1>0, <2>1, <2>2 DEF CallRecords
  <2>4. op # "answer"
    BY DEF Ops
  <2>5. /\ \A d \in Calls : CallOK(call'[d])
        /\ \A d \in Calls : call'[d].op = "answer" => status = "cancelled"
    BY <1>0, <2>1, <2>2, <2>4 DEF CallOK
  <2>6. crossed' \in BOOLEAN
    BY <1>0, <1>1 DEF ReadEvent, EventTypeOK
  <2> QED BY <1>0, <1>1, <2>3, <2>5, <2>6
    DEF ReadEvent, FinalInv, EventTypeOK, CancelledIsFinal, CallRecords
<1>2. ASSUME NEW c \in Calls, WriteStatus(c) PROVE FinalInv'
  <2>1. status # "cancelled" /\ call' = Done(c) /\ request' = request /\ ended' = ended
        /\ crossed' = crossed /\ status' \in Statuses
    BY <1>0, <1>2, <1>a DEF WriteStatus, Ops, CallRecords
  <2>2. archivedFrom' \in TRANSITIONS["archived"] \cup {"none", "pending_review"}
    BY <1>0, <1>2 DEF WriteStatus, EventTypeOK, CallOK, Archivable, TRANSITIONS
  <2>3. content' \in {"unchecked", "submitted", "cleared"}
    BY <1>0, <1>2 DEF WriteStatus, EventTypeOK
  <2>4. CancelledIsFinal'
    BY <1>0, <2>1 DEF CancelledIsFinal
  <2> QED BY <1>0, <2>1, <2>2, <2>3, <2>4, DoneIsIdle DEF FinalInv, EventTypeOK, CallRecords
<1>3. ASSUME NEW c \in Calls, WriteEdit(c) PROVE FinalInv'
  <2>1. status # "cancelled" /\ request' = request /\ ended' = ended /\ archivedFrom' = archivedFrom
        /\ status' \in Statuses /\ crossed' \in BOOLEAN
    BY <1>0, <1>3, <1>a DEF WriteEdit, Ops, CallRecords, EventTypeOK
  <2>4. content' \in {"unchecked", "submitted", "cleared"}
    BY <1>0, <1>3 DEF WriteEdit, EventTypeOK
  <2>2. call' \in [Calls -> CallRecords]
    BY <1>0, <1>3 DEF WriteEdit, CallRecords, Idle, Statuses
  <2>3. \A d \in Calls : CallOK(call'[d]) /\ call'[d].op # "answer"
    <3>1. ASSUME NEW d \in Calls, d # c
          PROVE  call'[d].op = call[d].op /\ call'[d].saw = call[d].saw
      BY <1>0, <1>3, <3>1 DEF WriteEdit, CallRecords
    <3>2. call'[c] = Idle
      BY <1>3 DEF WriteEdit
    <3> QED BY <1>0, <2>1, <3>1, <3>2 DEF CallOK, Idle, Ops
  <2> QED BY <1>0, <2>1, <2>2, <2>3, <2>4 DEF FinalInv, EventTypeOK, CallRecords, CancelledIsFinal
<1>4. ASSUME NEW c \in Calls, WriteSubmission(c) PROVE FinalInv'
  <2>1. status # "cancelled" /\ call' = Done(c) /\ request' = request /\ ended' = ended
        /\ crossed' = crossed /\ status' \in Statuses /\ archivedFrom' = archivedFrom
    BY <1>0, <1>4, <1>a DEF WriteSubmission, Ops, CallRecords
  <2>2. content' \in {"unchecked", "submitted", "cleared"}
    BY <1>4 DEF WriteSubmission
  <2> QED BY <1>0, <2>1, <2>2, DoneIsIdle DEF FinalInv, EventTypeOK, CallRecords, CancelledIsFinal
<1>5. ASSUME NEW c \in Calls, WriteCancelled(c) PROVE FinalInv'
  <2>1. /\ status' = "cancelled" /\ UNCHANGED <<archivedFrom, ended, request, content, crossed>>
        /\ call' = [call EXCEPT ![c].op = "answer"]
    BY <1>5 DEF WriteCancelled
  <2>2. call' \in [Calls -> CallRecords]
    BY <1>0, <2>1 DEF CallRecords
  <2>3. \A d \in Calls : CallOK(call'[d])
    BY <1>0, <2>1 DEF CallOK, CallRecords, Ops
  <2> QED BY <1>0, <2>1, <2>2, <2>3
    DEF FinalInv, EventTypeOK, CallRecords, CancelledIsFinal, Statuses
<1>6. ASSUME NEW c \in Calls, GiveUp(c) PROVE FinalInv'
  BY <1>0, <1>6, DoneIsIdle DEF GiveUp, FinalInv, EventTypeOK, CallRecords, CancelledIsFinal
<1>7. ASSUME NEW c \in Calls, AnswerRequests(c) PROVE FinalInv'
  <2>1. status = "cancelled" /\ call' = Done(c)
        /\ UNCHANGED <<status, archivedFrom, ended, content, crossed>>
    BY <1>0, <1>7 DEF AnswerRequests
  <2>2. request' \in [Requests -> {"none", "pending", "approved", "rejected", "withdrawn"}]
    BY <1>0, <1>7 DEF AnswerRequests, EventTypeOK
  <2> QED BY <1>0, <2>1, <2>2, DoneIsIdle DEF FinalInv, EventTypeOK, CallRecords, CancelledIsFinal
<1>8. ASSUME NEW c \in Calls, NEW q \in Requests, AskToCancel(c, q) PROVE FinalInv'
  <2>1. request' \in [Requests -> {"none", "pending", "approved", "rejected", "withdrawn"}]
        /\ \A p \in Requests : request'[p] = "approved" => request[p] = "approved"
    BY <1>0, <1>8 DEF AskToCancel, EventTypeOK
  <2> QED BY <1>0, <1>8, <2>1, DoneIsIdle
    DEF AskToCancel, FinalInv, EventTypeOK, CallRecords, CancelledIsFinal
<1>9. ASSUME NEW q \in Requests, NEW verdict \in {"withdrawn", "rejected"}, CloseRequest(q, verdict)
      PROVE  FinalInv'
  <2>1. request' \in [Requests -> {"none", "pending", "approved", "rejected", "withdrawn"}]
        /\ \A p \in Requests : request'[p] = "approved" => request[p] = "approved"
    BY <1>0, <1>9 DEF CloseRequest, EventTypeOK
  <2> QED BY <1>0, <1>9, <2>1
    DEF CloseRequest, FinalInv, EventTypeOK, CallRecords, CancelledIsFinal, CallOK
<1>10. CASE Unsuspend
  BY <1>0, <1>10 DEF Unsuspend, FinalInv, EventTypeOK, CallRecords, CancelledIsFinal, CallOK, Statuses
<1>11. CASE EventEnds
  BY <1>0, <1>11 DEF EventEnds, FinalInv, EventTypeOK, CallRecords, CancelledIsFinal, CallOK
<1>12. CASE UNCHANGED eventVars
  BY <1>0, <1>12 DEF eventVars, FinalInv, EventTypeOK, CallRecords, CancelledIsFinal, CallOK
<1> QED BY <1>1, <1>2, <1>3, <1>4, <1>5, <1>6, <1>7, <1>8, <1>9, <1>10, <1>11, <1>12 DEF EventNext

-----------------------------------------------------------------------------
(* The theorem *)

\* Whatever calls read the event before it was cancelled, none brings it back, and
\* no request is approved of an event that is not cancelled.
THEOREM CancelledIsFinalHolds == EventSpec => []CancelledIsFinal
<1>1. FinalInv => CancelledIsFinal
  BY DEF FinalInv
<1> QED BY <1>1, InitFinal, FinalStep, PTL DEF EventSpec

\* The status itself never leaves cancelled: every write is conditional on a
\* status that a decision had read, and no decision was made of that one.
THEOREM CancelledStaysHolds == EventSpec => CancelledStays
<1>1. FinalInv /\ [EventNext]_eventVars => [status = "cancelled" => status' = "cancelled"]_eventVars
  <2> SUFFICES ASSUME FinalInv, [EventNext]_eventVars, status = "cancelled"
               PROVE  status' = "cancelled"
    OBVIOUS
  <2>1. ASSUME NEW c \in Calls, call[c].op \in Ops PROVE ~ Matches(c)
    BY <2>1 DEF FinalInv, CallOK, Matches
  <2> QED BY <2>1
    DEF EventNext, ReadEvent, WriteStatus, WriteEdit, WriteSubmission, WriteCancelled, Ops,
        GiveUp, AnswerRequests, AskToCancel, CloseRequest, Unsuspend, EventEnds, eventVars
<1> QED BY <1>1, InitFinal, FinalStep, PTL DEF EventSpec, CancelledStays

-----------------------------------------------------------------------------
(* EventLife: what is on sale was checked *)

\* What a call of each kind may have read, and what it will write.
DecidedOK(k) ==
    /\ k.op = "edit" =>
          \/ k.saw \in {"draft", "rejected", "pending_review"} /\ k.goes \in {"draft", "rejected"}
          \/ k.saw \in {"published", "suspended"} /\ k.goes = k.saw
    /\ k.op = "archive" => k.saw \in Archivable /\ k.goes = "archived"
    /\ k.op = "restore" => k.saw = "archived" /\ k.goes \in {"draft", "rejected", "published", "completed"}
    /\ k.op = "approve" => k.saw = "pending_review" /\ k.goes = "published"
    /\ k.op = "reject" => k.saw \in {"pending_review", "published"} /\ k.goes = "rejected"
    /\ k.op = "suspend" => k.saw = "published" /\ k.goes = "suspended"
    /\ k.op = "submit" =>
          k.saw \in {"draft", "rejected"} /\ k.goes \in {"published", "pending_review"}

\* The only restore under way finds the event as it read it, or cancelled.
RestoreOK(c) ==
    call[c].op = "restore" =>
        /\ \A d \in Calls : call[d].op = "restore" => d = c
        /\ status \in {"archived", "cancelled"}
        /\ status = "archived" /\ call[c].goes = "published" => archivedFrom = "published"

\* Beside the types: what waits for review was submitted, and no edit of that came
\* between a submission's checks and its write.
CheckedInv ==
    /\ call \in [Calls -> CallRecords]
    /\ \A c \in Calls : DecidedOK(call[c])
    /\ ~ crossed =>
         /\ OnSaleWasChecked
         /\ status = "pending_review" => content = "submitted"
         /\ \A c \in Calls : call[c].op = "submit" => "reviewed" \in call[c].sees
         /\ \A c \in Calls : RestoreOK(c)

LEMMA WhatIsSuspended ==
    ASSUME NEW s \in Statuses, "suspended" \in TRANSITIONS[s]
    PROVE  s = "published"
BY DEF TRANSITIONS, Statuses

LEMMA WhatIsSubmitted ==
    ASSUME NEW s \in Statuses, "pending_review" \in TRANSITIONS[s]
    PROVE  s \in {"draft", "rejected"}
BY DEF TRANSITIONS, Statuses

LEMMA WhatIsRestored ==
    ASSUME NEW from
    PROVE  /\ RestoreTarget(from) \in {"draft", "rejected", "published", "completed"}
           /\ RestoreTarget(from) = "published" => from = "published"
BY DEF RestoreTarget

\* The decision of a call is one of its kind.
LEMMA DecisionIsOfItsKind ==
    ASSUME NEW o \in Ops, NEW s \in Decisions(o), status \in Statuses
    PROVE  /\ DecidedOK([op |-> o, saw |-> status, goes |-> s, sees |-> Columns])
           /\ o = "restore" => status = "archived" /\ s = RestoreTarget(archivedFrom)
<1> USE DEF Decisions, DecidedOK, Ops
<1>1. CASE o \in {"approve", "reject"}
  BY <1>1
<1>7. CASE o = "edit"
  <2>1. status \in {"draft", "pending_review", "rejected", "published", "suspended"}
    BY <1>7 DEF Statuses
  <2>2. s = IF status = "pending_review" THEN "draft" ELSE status
    BY <1>7
  <2> QED BY <1>7, <2>1, <2>2
<1>2. CASE o = "submit"
  BY <1>2, WhatIsSubmitted DEF CanTransition
<1>3. CASE o = "archive"
  BY <1>3, DecisionsAreStatuses
<1>4. CASE o = "restore"
  BY <1>4, WhatIsRestored
<1>5. CASE o = "suspend"
  BY <1>5, WhatIsSuspended
<1>6. CASE o \in {"cancel", "ask"}
  BY <1>6
<1> QED BY <1>1, <1>2, <1>3, <1>4, <1>5, <1>6, <1>7

LEMMA InitChecked == EventInit => CheckedInv
BY DEF EventInit, CheckedInv, OnSaleWasChecked, OnSale, DecidedOK, RestoreOK, Idle, CallRecords,
       Statuses

\* What a call that ends leaves of the calls.
LEMMA DoneKeepsCalls ==
    ASSUME call \in [Calls -> CallRecords], NEW c \in Calls,
           \A d \in Calls : DecidedOK(call[d])
    PROVE  /\ Done(c) \in [Calls -> CallRecords]
           /\ \A d \in Calls : DecidedOK(Done(c)[d])
           /\ Done(c)[c].op = "none"
           /\ \A d \in Calls : d # c => Done(c)[d] = call[d]
BY DEF Done, Idle, DecidedOK, CallRecords, Ops, Statuses

\* A call ends and nothing else changes.
LEMMA EndingKeepsChecked ==
    ASSUME CheckedInv, EventTypeOK, NEW c \in Calls, call' = Done(c),
           UNCHANGED <<status, archivedFrom, content, crossed>>
    PROVE  CheckedInv'
<1>1. /\ call' \in [Calls -> CallRecords] /\ \A d \in Calls : DecidedOK(call'[d])
      /\ call'[c].op = "none" /\ \A d \in Calls : d # c => call'[d] = call[d]
  BY DoneKeepsCalls DEF CheckedInv
<1> QED BY <1>1 DEF CheckedInv, OnSaleWasChecked, OnSale, RestoreOK

\* The calls that do not write: they read, end, or ask.
LEMMA ReadKeepsChecked ==
    ASSUME CheckedInv, EventTypeOK, NEW c \in Calls, NEW o \in Ops, ReadEvent(c, o)
    PROVE  CheckedInv'
<1>1. PICK s \in Decisions(o) :
          call' = [call EXCEPT ![c] = [op |-> o, saw |-> status, goes |-> s, sees |-> Columns]]
  BY DEF ReadEvent
<1>2. status \in Statuses /\ s \in Statuses
  BY <1>1, DecisionsAreStatuses DEF EventTypeOK
<1>3. call' \in [Calls -> CallRecords]
  BY <1>1, <1>2 DEF CheckedInv, CallRecords
<1>4. /\ call'[c] = [op |-> o, saw |-> status, goes |-> s, sees |-> Columns]
      /\ \A d \in Calls : d # c => call'[d] = call[d]
  BY <1>1 DEF CheckedInv
<1>5. DecidedOK(call'[c]) /\ (o = "restore" => status = "archived" /\ s = RestoreTarget(archivedFrom))
  BY <1>2, <1>4, DecisionIsOfItsKind
<1>6. UNCHANGED <<status, archivedFrom, content>> /\ (crossed => crossed')
  BY DEF ReadEvent, EventTypeOK
<1>7. ASSUME ~ crossed', NEW d \in Calls PROVE RestoreOK(d)'
  <2>1. CASE o = "restore"
    <3>1. \A e \in Calls : call[e].op # "restore"
      BY <1>7, <2>1 DEF ReadEvent, Underway
    <3>2. s = "published" => archivedFrom = "published"
      BY <1>5, <2>1, WhatIsRestored
    <3> QED BY <1>4, <1>5, <1>6, <2>1, <3>1, <3>2 DEF RestoreOK
  <2>2. CASE o # "restore"
    BY <1>4, <1>6, <1>7, <2>2 DEF RestoreOK, CheckedInv
  <2> QED BY <2>1, <2>2
<1>8. \A d \in Calls : DecidedOK(call'[d])
  BY <1>4, <1>5 DEF CheckedInv
<1>9. ~ crossed' => \A d \in Calls : call'[d].op = "submit" => "reviewed" \in call'[d].sees
  BY <1>4, <1>6 DEF CheckedInv, Columns
<1>10. ~ crossed' => OnSaleWasChecked' /\ (status' = "pending_review" => content' = "submitted")
  BY <1>6 DEF CheckedInv, OnSaleWasChecked, OnSale
<1> QED BY <1>3, <1>7, <1>8, <1>9, <1>10 DEF CheckedInv

\* The writes of archive, restore and the admin's decisions.
LEMMA StatusKeepsChecked ==
    ASSUME CheckedInv, EventTypeOK, NEW c \in Calls, WriteStatus(c)
    PROVE  CheckedInv'
<1>1. /\ call' = Done(c) /\ crossed' = crossed /\ status = call[c].saw /\ status' = call[c].goes
      /\ call[c].op \in {"archive", "restore", "approve", "reject", "suspend"}
      /\ DecidedOK(call[c])
  BY DEF WriteStatus, Matches, CheckedInv
<1>2. /\ call' \in [Calls -> CallRecords] /\ \A d \in Calls : DecidedOK(call'[d])
      /\ call'[c].op = "none" /\ \A d \in Calls : d # c => call'[d] = call[d]
  BY <1>1, DoneKeepsCalls DEF CheckedInv
<1> SUFFICES ASSUME ~ crossed
             PROVE  /\ OnSaleWasChecked'
                    /\ status' = "pending_review" => content' = "submitted"
                    /\ \A d \in Calls : call'[d].op = "submit" => "reviewed" \in call'[d].sees
                    /\ \A d \in Calls : RestoreOK(d)'
  BY <1>1, <1>2 DEF CheckedInv
<1>3. /\ OnSaleWasChecked /\ (status = "pending_review" => content = "submitted")
      /\ \A d \in Calls : RestoreOK(d)
      /\ \A d \in Calls : call[d].op = "submit" => "reviewed" \in call[d].sees
  BY DEF CheckedInv
<1>4. status' # "pending_review"
  BY <1>1 DEF DecidedOK
<1>5. /\ archivedFrom' = CASE call[c].op = "archive" -> call[c].saw
                           [] call[c].op = "restore" -> "none"
                           [] OTHER -> archivedFrom
      /\ content' = IF call[c].op = "approve" /\ content = "submitted" THEN "cleared" ELSE content
  BY DEF WriteStatus
<1>6. OnSaleWasChecked'
  <2>1. CASE call[c].op = "archive"
    BY <1>1, <1>3, <1>5, <2>1 DEF DecidedOK, OnSaleWasChecked, OnSale
  <2>2. CASE call[c].op = "restore"
    BY <1>1, <1>3, <1>5, <2>2 DEF DecidedOK, OnSaleWasChecked, OnSale, RestoreOK
  <2>3. CASE call[c].op = "approve"
    BY <1>1, <1>3, <1>5, <2>3 DEF DecidedOK, OnSaleWasChecked, OnSale
  <2>4. CASE call[c].op \in {"reject", "suspend"}
    BY <1>1, <1>3, <1>5, <2>4 DEF DecidedOK, OnSaleWasChecked, OnSale
  <2> QED BY <1>1, <2>1, <2>2, <2>3, <2>4
<1>7. ASSUME NEW d \in Calls, call'[d].op = "restore" PROVE RestoreOK(d)'
  <2>1. d # c /\ call[d].op = "restore"
    BY <1>2, <1>7
  <2>2. status \in {"archived", "cancelled"} /\ call[c].op # "restore"
    BY <1>3, <2>1 DEF RestoreOK
  <2>3. CASE call[c].op = "archive"
    <3>1. call[c].saw \in Archivable
      BY <1>1, <2>3 DEF DecidedOK
    <3> QED BY <1>1, <2>2, <3>1 DEF Archivable
  <2>4. CASE call[c].op = "reject"
    BY <1>1, <2>2, <2>4 DEF DecidedOK
  <2>5. CASE call[c].op \in {"approve", "suspend"}
    BY <1>1, <2>2, <2>5 DEF DecidedOK
  <2> QED BY <1>1, <2>2, <2>3, <2>4, <2>5
<1> QED BY <1>2, <1>3, <1>4, <1>6, <1>7 DEF RestoreOK

\* The writes of an edit and of a submission.
LEMMA ContentKeepsChecked ==
    ASSUME CheckedInv, EventTypeOK, NEW c \in Calls, WriteEdit(c) \/ WriteSubmission(c)
    PROVE  CheckedInv'
<1>1. CASE WriteEdit(c)
  <2> DEFINE edited == MayEdit(call[c].saw)
  <2>1. /\ call' = [d \in Calls |-> IF d = c THEN Idle ELSE [call[d] EXCEPT !.sees = @ \ edited]]
        /\ archivedFrom' = archivedFrom
        /\ status = call[c].saw /\ call[c].op = "edit"
    BY <1>1 DEF WriteEdit, Matches
  \* Of what is on sale it leaves what was reviewed alone; else nothing is on sale.
  <2>a. \/ /\ edited = {"live"} /\ UNCHANGED <<status, content, crossed>>
           /\ status \in {"published", "suspended"}
        \/ /\ status' \in {"draft", "rejected"}
           /\ crossed \/ Underway("submit") # {} => crossed'
           /\ status \in {"draft", "rejected", "pending_review"}
    <3>1. \/ status \in {"draft", "rejected", "pending_review"} /\ call[c].goes \in {"draft", "rejected"}
          \/ status \in {"published", "suspended"} /\ call[c].goes = status
      BY <2>1 DEF CheckedInv, DecidedOK
    <3>2. /\ status' = call[c].goes
          /\ content' = IF "reviewed" \in edited THEN "unchecked" ELSE content
          /\ crossed' = (crossed \/ ("reviewed" \in edited /\ Underway("submit") # {}))
      BY <1>1 DEF WriteEdit
    <3>3. CASE status \in {"published", "suspended"}
      <4>1. edited = {"live"} /\ crossed \in BOOLEAN
        BY <2>1, <3>3 DEF MayEdit, EventTypeOK
      <4> QED BY <3>1, <3>2, <3>3, <4>1
    <3>4. CASE status \notin {"published", "suspended"}
      <4>1. "reviewed" \in edited
        BY <2>1, <3>4 DEF MayEdit, Columns
      <4> QED BY <3>1, <3>2, <3>4, <4>1
    <3> QED BY <3>3, <3>4
  <2> HIDE DEF edited
  <2>2. call' \in [Calls -> CallRecords]
    <3>1. call \in [Calls -> CallRecords]
      BY DEF CheckedInv
    <3> QED BY <2>1, <3>1 DEF CallRecords, Idle, Statuses
  <2>3. ASSUME NEW d \in Calls
        PROVE  IF d = c THEN call'[d] = Idle
               ELSE call'[d].op = call[d].op /\ call'[d].saw = call[d].saw /\ call'[d].goes = call[d].goes
    BY <2>1 DEF CheckedInv, CallRecords
  <2>4. \A d \in Calls : DecidedOK(call'[d])
    BY <2>3 DEF CheckedInv, DecidedOK, Idle
  <2>5. ~ crossed' => \A d \in Calls : call'[d].op = "submit" => "reviewed" \in call'[d].sees
    <3> SUFFICES ASSUME ~ crossed', NEW d \in Calls, call'[d].op = "submit"
                 PROVE  "reviewed" \in call'[d].sees
      OBVIOUS
    <3>1. d # c /\ call[d].op = "submit"
      BY <2>3 DEF Idle
    <3>5. d \in Underway("submit")
      BY <3>1 DEF Underway
    <3>2. ~ crossed /\ edited = {"live"}
      BY <2>a, <3>5
    <3>3. "reviewed" \in call[d].sees
      BY <3>1, <3>2 DEF CheckedInv
    <3>4. call'[d] = [call[d] EXCEPT !.sees = @ \ edited]
      BY <2>1, <3>1
    <3> QED BY <3>2, <3>3, <3>4 DEF CheckedInv, CallRecords
  <2>6. ~ crossed' => OnSaleWasChecked' /\ (status' = "pending_review" => content' = "submitted")
    BY <2>1, <2>a DEF CheckedInv, OnSaleWasChecked, OnSale
  \* An edit that matches has read a status from which nothing is restored.
  <2>7. ~ crossed' => \A d \in Calls : call'[d].op # "restore"
    <3> SUFFICES ASSUME ~ crossed', NEW d \in Calls, call'[d].op = "restore" PROVE FALSE
      OBVIOUS
    <3>1. d # c /\ call[d].op = "restore"
      BY <2>3 DEF Idle
    <3>2. status \in {"archived", "cancelled"}
      BY <2>a, <3>1 DEF CheckedInv, RestoreOK
    <3> QED BY <2>a, <3>2
  <2> QED BY <2>2, <2>4, <2>5, <2>6, <2>7 DEF CheckedInv, RestoreOK
<1>2. CASE WriteSubmission(c)
  <2>1. /\ call' = Done(c) /\ crossed' = crossed /\ archivedFrom' = archivedFrom
        /\ status = call[c].saw /\ status' = call[c].goes
        /\ status' \in {"published", "pending_review"} /\ call[c].op = "submit"
        /\ content' = IF "reviewed" \notin call[c].sees THEN "unchecked"
                      ELSE IF call[c].goes = "published" THEN "cleared" ELSE "submitted"
    BY <1>2 DEF WriteSubmission, Matches, CheckedInv, DecidedOK
  <2>2. /\ call' \in [Calls -> CallRecords] /\ \A d \in Calls : DecidedOK(call'[d])
        /\ call'[c].op = "none" /\ \A d \in Calls : d # c => call'[d] = call[d]
    BY <2>1, DoneKeepsCalls DEF CheckedInv
  <2>3. ~ crossed => "reviewed" \in call[c].sees
    BY <2>1 DEF CheckedInv
  <2>4. ~ crossed => \A d \in Calls : call'[d].op # "restore"
    <3> SUFFICES ASSUME ~ crossed, NEW d \in Calls, call'[d].op = "restore" PROVE FALSE
      OBVIOUS
    <3>1. status \in {"archived", "cancelled"}
      BY <2>2 DEF CheckedInv, RestoreOK
    <3>2. call[c].saw \notin {"archived", "cancelled"}
      BY <2>1 DEF CheckedInv, DecidedOK
    <3> QED BY <2>1, <3>1, <3>2
  <2>5. ~ crossed' => OnSaleWasChecked' /\ (status' = "pending_review" => content' = "submitted")
    BY <2>1, <2>3 DEF OnSaleWasChecked, OnSale
  <2>6. ~ crossed' => \A d \in Calls : call'[d].op = "submit" => "reviewed" \in call'[d].sees
    BY <2>1, <2>2 DEF CheckedInv
  <2> QED BY <2>1, <2>2, <2>4, <2>5, <2>6 DEF CheckedInv, RestoreOK
<1> QED BY <1>1, <1>2

LEMMA CheckedStep == CheckedInv /\ EventTypeOK /\ [EventNext]_eventVars => CheckedInv'
<1> SUFFICES ASSUME CheckedInv, EventTypeOK, [EventNext]_eventVars PROVE CheckedInv'
  OBVIOUS
<1>1. ASSUME NEW c \in Calls, GiveUp(c) \/ AnswerRequests(c) \/ \E q \in Requests : AskToCancel(c, q)
      PROVE  CheckedInv'
  BY <1>1, EndingKeepsChecked DEF GiveUp, AnswerRequests, AskToCancel
<1>2. ASSUME NEW c \in Calls, WriteCancelled(c) PROVE CheckedInv'
  <2>1. /\ call' = [call EXCEPT ![c].op = "answer"] /\ status' = "cancelled"
        /\ UNCHANGED <<archivedFrom, content, crossed>>
    BY <1>2 DEF WriteCancelled
  <2>2. call' \in [Calls -> CallRecords] /\ call'[c].op = "answer"
        /\ \A d \in Calls : d # c => call'[d] = call[d]
    BY <2>1 DEF CheckedInv, CallRecords
  <2>3. \A d \in Calls : DecidedOK(call'[d])
    BY <2>2 DEF CheckedInv, DecidedOK
  <2> QED BY <2>1, <2>2, <2>3 DEF CheckedInv, OnSaleWasChecked, OnSale, RestoreOK
<1>3. CASE Unsuspend
  BY <1>3 DEF Unsuspend, CheckedInv, OnSaleWasChecked, OnSale, RestoreOK
<1>4. ASSUME EventEnds \/ UNCHANGED eventVars
             \/ \E q \in Requests, verdict \in {"withdrawn", "rejected"} : CloseRequest(q, verdict)
      PROVE  CheckedInv'
  BY <1>4 DEF EventEnds, eventVars, CloseRequest, CheckedInv, OnSaleWasChecked, OnSale, RestoreOK
<1> QED BY <1>1, <1>2, <1>3, <1>4, ReadKeepsChecked, StatusKeepsChecked, ContentKeepsChecked
    DEF EventNext

\* Outside LIVE_EDITABLE, what is on sale passed a submission's checks and the
\* decision after them (submitForReview, approve, restoreTarget, editConsequence), as
\* long as no edit of these columns meets a submission and no two restores overlap.
\* What a live edit writes nobody checks.
THEOREM OnSaleWasCheckedHolds == EventSpec => []OnSaleWasChecked
<1>1. EventSpec => []CheckedInv
  <2>1. FinalInv => EventTypeOK
    BY DEF FinalInv
  <2> QED BY <2>1, InitFinal, FinalStep, InitChecked, CheckedStep, PTL DEF EventSpec
<1>2. CheckedInv => OnSaleWasChecked
  BY DEF CheckedInv, OnSaleWasChecked
<1> QED BY <1>1, <1>2, PTL

-----------------------------------------------------------------------------
(* Leases: one leader *)

LEMMA LeaseTypes == LeaseSpec => []LeaseTypeOK
<1>1. LeaseInit => LeaseTypeOK
  BY DEF LeaseInit, LeaseTypeOK
<1>2. LeaseTypeOK /\ [LeaseNext]_leaseVars => LeaseTypeOK'
  <2> SUFFICES ASSUME LeaseTypeOK, [LeaseNext]_leaseVars PROVE LeaseTypeOK'
    OBVIOUS
  <2> USE DEF LeaseTypeOK
  <2>1. ASSUME NEW w \in Workers, NEW k \in Slots, TickJob(w, k) PROVE LeaseTypeOK'
    BY <2>1 DEF TickJob
  <2>2. ASSUME NEW w \in Workers, NEW k \in Slots, Finish(w, k) PROVE LeaseTypeOK'
    BY <2>2 DEF Finish
  <2>3. ASSUME NEW w \in Workers, Die(w) PROVE LeaseTypeOK'
    BY <2>3 DEF Die
  <2>4. CASE LapseLease
    BY <2>4 DEF LapseLease
  <2>5. CASE UNCHANGED leaseVars
    BY <2>5 DEF leaseVars
  <2> QED BY <2>1, <2>2, <2>3, <2>4, <2>5 DEF LeaseNext
<1> QED BY <1>1, <1>2, PTL DEF LeaseSpec

\* The runs that are within a lease are those of the lease's holder, and there
\* are none when the lease is over: what makes OneLeader inductive.
HolderLeads ==
    ~ doubled => /\ \A r, s \in running : r[1] = s[1] => r = s
                 /\ \A r \in InLease : lease = "live" /\ r[1] = holder

LEMMA HolderLeadsStep == LeaseTypeOK /\ HolderLeads /\ [LeaseNext]_leaseVars => HolderLeads'
<1> SUFFICES ASSUME LeaseTypeOK, HolderLeads, [LeaseNext]_leaseVars, ~ doubled'
             PROVE  /\ \A r, s \in running' : r[1] = s[1] => r = s
                    /\ \A r \in InLease' : lease' = "live" /\ r[1] = holder'
  BY DEF HolderLeads
<1> USE DEF LeaseTypeOK, InLease
<1>1. ~ doubled
  BY DEF LeaseNext, TickJob, Finish, Die, LapseLease, leaseVars
<1>2. /\ \A r, s \in running : r[1] = s[1] => r = s
      /\ \A r \in InLease : lease = "live" /\ r[1] = holder
  BY <1>1 DEF HolderLeads
<1>3. ASSUME NEW w \in Workers, NEW k \in Slots, TickJob(w, k)
      PROVE  /\ \A r, s \in running' : r[1] = s[1] => r = s
             /\ \A r \in InLease' : lease' = "live" /\ r[1] = holder'
  <2>1. InLease = {}
    BY <1>2, <1>3 DEF TickJob, Takes
  <2>2. \A r \in running : r[1] # w
    BY <1>3 DEF TickJob, RunsOf
  <2>3. running' = running \cup {<<w, k>>} /\ outlived' = outlived /\ lease' = "live" /\ holder' = w
    BY <1>3 DEF TickJob
  <2> QED BY <1>2, <2>1, <2>2, <2>3
<1>4. ASSUME NEW w \in Workers, NEW k \in Slots, Finish(w, k)
      PROVE  /\ \A r, s \in running' : r[1] = s[1] => r = s
             /\ \A r \in InLease' : lease' = "live" /\ r[1] = holder'
  <2>1. /\ <<w, k>> \in running /\ running' = running \ {<<w, k>>}
        /\ outlived' = outlived \ {<<w, k>>} /\ holder' = holder
    BY <1>4 DEF Finish
  <2>2. InLease' = InLease \ {<<w, k>>}
    BY <2>1
  <2>3. CASE holder = w
    <3>1. InLease' = {}
      BY <1>2, <2>1, <2>2, <2>3
    <3> QED BY <1>2, <2>1, <3>1
  <2>4. CASE holder # w
    BY <1>2, <1>4, <2>1, <2>2, <2>4 DEF Finish, MayRelease
  <2> QED BY <2>3, <2>4
<1>5. ASSUME NEW w \in Workers, Die(w)
      PROVE  /\ \A r, s \in running' : r[1] = s[1] => r = s
             /\ \A r \in InLease' : lease' = "live" /\ r[1] = holder'
  BY <1>2, <1>5 DEF Die
<1>6. CASE LapseLease
  BY <1>2, <1>6 DEF LapseLease
<1>7. CASE UNCHANGED leaseVars
  BY <1>2, <1>7 DEF leaseVars
<1> QED BY <1>3, <1>4, <1>5, <1>6, <1>7 DEF LeaseNext

\* Of the runs within their lease there is one at most, whatever outlives it, dies
\* or takes over, as long as no worker's own runs overlap.
THEOREM OneLeaderHolds == LeaseSpec => []OneLeader
<1>1. LeaseInit => HolderLeads
  BY DEF LeaseInit, HolderLeads, InLease
<1>2. HolderLeads => OneLeader
  BY DEF HolderLeads, OneLeader, InLease
<1> QED BY <1>1, <1>2, LeaseTypes, HolderLeadsStep, PTL DEF LeaseSpec

-----------------------------------------------------------------------------
(* Generations: no more drafts than allowed *)

\* What an organizer has got in time, and what is still being written.
InTime(o) == Succeeded(o) \ tardy

\* Drafts have hours, and of those an organizer got in time or has under way
\* there are never more than the allowance.
AllowanceInv ==
    /\ hour \in Nat
    /\ \A d \in Drafts : draft[d].at \in Nat
    /\ DOMAIN draft = Drafts
    /\ AllowanceHolds

LEMMA DraftsAreCounted ==
    ASSUME NEW o
    PROVE  /\ IsFiniteSet(InTime(o)) /\ IsFiniteSet(InFlight(o)) /\ IsFiniteSet(Succeeded(o))
           /\ Cardinality(InTime(o)) \in Nat /\ Cardinality(InFlight(o)) \in Nat
           /\ Cardinality(Succeeded(o)) \in Nat
           /\ Cardinality(InTime(o)) <= Cardinality(Succeeded(o))
<1>1. /\ InTime(o) \subseteq Succeeded(o) /\ Succeeded(o) \subseteq Drafts /\ InFlight(o) \subseteq Drafts
  BY DEF InTime, Succeeded, InFlight, Since
<1>2. IsFiniteSet(InTime(o)) /\ IsFiniteSet(InFlight(o)) /\ IsFiniteSet(Succeeded(o))
  BY <1>1, GenerationsAssumption, FS_Subset
<1> QED BY <1>1, <1>2, FS_Subset, FS_CardinalityType

LEMMA OneMore ==
    ASSUME NEW S, NEW x, IsFiniteSet(S)
    PROVE  /\ IsFiniteSet(S \cup {x}) /\ Cardinality(S \cup {x}) \in Nat
           /\ Cardinality(S \cup {x}) <= Cardinality(S) + 1
<1>1. IsFiniteSet(S \cup {x})
  BY FS_AddElement
<1>2. Cardinality(S \cup {x}) = IF x \in S THEN Cardinality(S) ELSE Cardinality(S) + 1
  BY FS_AddElement
<1>3. Cardinality(S) \in Nat
  BY FS_CardinalityType
<1> QED BY <1>1, <1>2, <1>3

\* Sets that shrink, or hand over one draft, keep the sum.
LEMMA SumStays ==
    ASSUME NEW A, NEW B, NEW C, NEW D, IsFiniteSet(A), IsFiniteSet(B),
           \/ C \subseteq A /\ D \subseteq B
           \/ \E d \in B : C \subseteq A \cup {d} /\ D \subseteq B \ {d}
    PROVE  Cardinality(C) + Cardinality(D) <= Cardinality(A) + Cardinality(B)
<1>0. Cardinality(A) \in Nat /\ Cardinality(B) \in Nat
  BY FS_CardinalityType
<1>1. CASE C \subseteq A /\ D \subseteq B
  <2>1. /\ Cardinality(C) <= Cardinality(A) /\ Cardinality(D) <= Cardinality(B)
        /\ IsFiniteSet(C) /\ IsFiniteSet(D)
    BY <1>1, FS_Subset
  <2> QED BY <1>0, <2>1, FS_CardinalityType
<1>2. ASSUME NEW d \in B, C \subseteq A \cup {d}, D \subseteq B \ {d}
      PROVE  Cardinality(C) + Cardinality(D) <= Cardinality(A) + Cardinality(B)
  <2>1. /\ IsFiniteSet(A \cup {d}) /\ Cardinality(A \cup {d}) \in Nat
        /\ Cardinality(A \cup {d}) <= Cardinality(A) + 1
    BY OneMore
  <2>2. IsFiniteSet(B \ {d}) /\ Cardinality(B \ {d}) = Cardinality(B) - 1
    BY <1>2, FS_RemoveElement
  <2>3. /\ IsFiniteSet(C) /\ Cardinality(C) <= Cardinality(A \cup {d})
        /\ IsFiniteSet(D) /\ Cardinality(D) <= Cardinality(B \ {d})
    BY <1>2, <2>1, <2>2, FS_Subset
  <2>4. Cardinality(C) \in Nat /\ Cardinality(D) \in Nat
    BY <2>3, FS_CardinalityType
  <2> QED BY <1>0, <2>1, <2>2, <2>3, <2>4
<1> QED BY <1>1, <1>2

LEMMA InitAllowance == GenerationsInit => AllowanceInv
<1> SUFFICES ASSUME GenerationsInit, NEW o \in Organizers
             PROVE  /\ hour \in Nat /\ DOMAIN draft = Drafts
                    /\ \A d \in Drafts : draft[d].at \in Nat
                    /\ Cardinality(Succeeded(o) \ tardy) + Cardinality(InFlight(o)) <= Limit
  BY DEF AllowanceInv, AllowanceHolds, GenerationsInit, NoDraft
<1>1. Succeeded(o) \ tardy = {} /\ InFlight(o) = {}
  BY DEF GenerationsInit, NoDraft, Succeeded, InFlight, Since
<1>2. Cardinality({}) = 0
  BY FS_EmptySet
<1> QED BY <1>1, <1>2, GenerationsAssumption DEF GenerationsInit, NoDraft

\* Where the two sets only shrink or hand over, the allowance stays kept.
LEMMA AllowanceStays ==
    ASSUME AllowanceInv,
           \A o \in Organizers :
              \/ InTime(o)' \subseteq InTime(o) /\ InFlight(o)' \subseteq InFlight(o)
              \/ \E d \in InFlight(o) : /\ InTime(o)' \subseteq InTime(o) \cup {d}
                                        /\ InFlight(o)' \subseteq InFlight(o) \ {d}
    PROVE  AllowanceHolds'
<1> SUFFICES ASSUME NEW o \in Organizers
             PROVE  Cardinality(InTime(o)') + Cardinality(InFlight(o)') <= Limit
  BY DEF AllowanceHolds, InTime
<1>1. Cardinality(InTime(o)') + Cardinality(InFlight(o)')
         <= Cardinality(InTime(o)) + Cardinality(InFlight(o))
  BY DraftsAreCounted, SumStays
<1>2. Cardinality(InTime(o)) + Cardinality(InFlight(o)) <= Limit
  BY DEF AllowanceInv, AllowanceHolds, InTime
<1>3. /\ IsFiniteSet(InTime(o)') /\ IsFiniteSet(InFlight(o)')
  <2>1. InTime(o)' \subseteq Drafts /\ InFlight(o)' \subseteq Drafts
    BY DEF InTime, Succeeded, InFlight, Since
  <2> QED BY <2>1, GenerationsAssumption, FS_Subset
<1> QED BY <1>1, <1>2, <1>3, DraftsAreCounted, FS_CardinalityType, GenerationsAssumption

LEMMA AllowanceStep == AllowanceInv /\ [GenerationsNext]_draftVars => AllowanceInv'
<1> SUFFICES ASSUME AllowanceInv, [GenerationsNext]_draftVars PROVE AllowanceInv'
  OBVIOUS
<1> USE GenerationsAssumption
<1>0. hour \in Nat /\ DOMAIN draft = Drafts /\ \A d \in Drafts : draft[d].at \in Nat
  BY DEF AllowanceInv
\* A reservation is refused when the organizer's drafts are up.
<1>1. ASSUME NEW o \in Organizers, NEW d \in Drafts, Reserve(o, d) PROVE AllowanceInv'
  <2>1. /\ draft[d] = NoDraft /\ UNCHANGED <<hour, tardy>>
        /\ draft' = [draft EXCEPT ![d] = [of |-> o, is |-> "reserved", at |-> hour]]
        /\ Cardinality(Succeeded(o)) + Cardinality(InFlight(o)) < Limit
    BY <1>1 DEF Reserve
  <2>2. DOMAIN draft' = Drafts /\ \A e \in Drafts : draft'[e].at \in Nat
    BY <1>0, <2>1
  <2>3. ASSUME NEW p \in Organizers
        PROVE  /\ InTime(p)' \subseteq InTime(p)
               /\ InFlight(p)' \subseteq InFlight(p) \cup (IF p = o THEN {d} ELSE {})
    BY <1>0, <2>1, <2>2 DEF InTime, Succeeded, InFlight, Since, NoDraft
  <2>4. ASSUME NEW p \in Organizers
        PROVE  Cardinality(InTime(p)') + Cardinality(InFlight(p)') <= Limit
    <3>1. CASE p # o
      <4>1. Cardinality(InTime(p)') + Cardinality(InFlight(p)')
               <= Cardinality(InTime(p)) + Cardinality(InFlight(p))
        BY <2>3, <3>1, DraftsAreCounted, SumStays
      <4>2. Cardinality(InTime(p)) + Cardinality(InFlight(p)) <= Limit
        BY DEF AllowanceInv, AllowanceHolds, InTime
      <4>3. IsFiniteSet(InTime(p)') /\ IsFiniteSet(InFlight(p)')
        BY <2>3, <3>1, DraftsAreCounted, FS_Subset
      <4> QED BY <4>1, <4>2, <4>3, DraftsAreCounted, FS_CardinalityType
    <3>2. CASE p = o
      <4>1. /\ IsFiniteSet(InTime(o)') /\ Cardinality(InTime(o)') <= Cardinality(InTime(o))
        BY <2>3, <3>2, DraftsAreCounted, FS_Subset
      <4>2. /\ IsFiniteSet(InFlight(o) \cup {d})
            /\ Cardinality(InFlight(o) \cup {d}) <= Cardinality(InFlight(o)) + 1
        BY DraftsAreCounted, OneMore
      <4>3. /\ IsFiniteSet(InFlight(o)')
            /\ Cardinality(InFlight(o)') <= Cardinality(InFlight(o) \cup {d})
        BY <2>3, <3>2, <4>2, FS_Subset
      <4> QED BY <2>1, <3>2, <4>1, <4>2, <4>3, DraftsAreCounted, FS_CardinalityType
    <3> QED BY <3>1, <3>2
  <2> QED BY <1>0, <2>1, <2>2, <2>4 DEF AllowanceInv, AllowanceHolds, InTime
\* A draft that is finished in time is handed over; one that is late counts no more.
<1>2. ASSUME NEW d \in Drafts, NEW verdict \in {"succeeded", "released"}, FinishDraft(d, verdict)
      PROVE  AllowanceInv'
  <2>1. /\ draft[d].is = "reserved" /\ hour' = hour /\ draft' = [draft EXCEPT ![d].is = verdict]
        /\ tardy' = IF verdict = "succeeded" /\ d \notin Since(Stale) THEN tardy \cup {d} ELSE tardy
    BY <1>2 DEF FinishDraft
  <2>2. /\ DOMAIN draft' = Drafts /\ draft'[d].is = verdict
        /\ \A e \in Drafts : draft'[e].at = draft[e].at /\ draft'[e].of = draft[e].of
        /\ \A e \in Drafts : e # d => draft'[e].is = draft[e].is
    BY <1>0, <2>1
  <2>3. Since(Stale)' = Since(Stale) /\ Since(Window)' = Since(Window)
    BY <2>1, <2>2 DEF Since
  <2>4. ASSUME NEW o \in Organizers
        PROVE  \/ InTime(o)' \subseteq InTime(o) /\ InFlight(o)' \subseteq InFlight(o)
               \/ \E e \in InFlight(o) : /\ InTime(o)' \subseteq InTime(o) \cup {e}
                                         /\ InFlight(o)' \subseteq InFlight(o) \ {e}
    <3>0. /\ \A e \in InFlight(o)' : e \in InFlight(o) /\ e # d
          /\ \A e \in InTime(o)' : e = d \/ e \in InTime(o)
      BY <2>1, <2>2, <2>3 DEF InFlight, InTime, Succeeded, Since
    <3>1. CASE d \in InFlight(o)
      BY <3>0, <3>1
    <3>2. CASE d \notin InFlight(o)
      <4>1. d \notin InTime(o)'
        BY <2>1, <2>2, <2>3, <3>2 DEF InFlight, InTime, Succeeded, Since
      <4> QED BY <3>0, <4>1
    <3> QED BY <3>1, <3>2
  <2>5. AllowanceHolds'
    BY <2>4, AllowanceStays
  <2> QED BY <1>0, <2>1, <2>2, <2>5 DEF AllowanceInv
<1>3. CASE PassTime
  <2>1. hour' = hour + 1 /\ UNCHANGED <<draft, tardy>>
    BY <1>3 DEF PassTime
  <2>2. Since(Stale)' \subseteq Since(Stale) /\ Since(Window)' \subseteq Since(Window)
    BY <1>0, <2>1 DEF Since
  <2>3. \A o \in Organizers : InTime(o)' \subseteq InTime(o) /\ InFlight(o)' \subseteq InFlight(o)
    BY <2>1, <2>2 DEF InTime, Succeeded, InFlight
  <2>4. AllowanceHolds'
    BY <2>3, AllowanceStays
  <2> QED BY <1>0, <2>1, <2>4 DEF AllowanceInv
<1>4. CASE UNCHANGED draftVars
  BY <1>4 DEF draftVars, AllowanceInv, AllowanceHolds, Succeeded, InFlight, Since
<1> QED BY <1>1, <1>2, <1>3, <1>4 DEF GenerationsNext

\* In any window an organizer gets no more drafts than the limit
\* (ai_reserve_generation, ai_finish_generation), but for those that were finished
\* after they had stopped counting: for any limit, window and number of organizers.
THEOREM AllowanceIsKept == GenerationsSpec => []AllowanceHolds
<1>1. AllowanceInv => AllowanceHolds
  BY DEF AllowanceInv
<1> QED BY <1>1, InitAllowance, AllowanceStep, PTL DEF GenerationsSpec
=============================================================================
