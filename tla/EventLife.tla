----------------------------- MODULE EventLife ------------------------------
(***************************************************************************)
(* The status of one event and the requests to cancel it.  Almost every    *)
(* change is the same protocol: read the event, decide, and write WHERE    *)
(* status is the one that was read.  Nothing else of the event is compared,*)
(* so an event that has left a status and come back looks unchanged.       *)
(* The holds a stopped event gives back are SeatStock's, and the accepted  *)
(* terms, bans, e-mails and an admin's own edits are left out.             *)
(***************************************************************************)
EXTENDS Naturals

CONSTANTS
    Calls,       \* requests to the API under way at once
    Requests     \* event_cancellation_requests rows

VARIABLES
    status,        \* events.status
    archivedFrom,  \* events.archived_from
    ended,         \* ends_at has passed
    request,       \* event_cancellation_requests.status
    call,          \* what each call does, the status it saw and the one it will write
    content,       \* what a review is of, as it is now: unchecked, submitted (it
                   \* passed the checks), cleared
    crossed        \* two restores have overlapped, or an edit and a submission

eventVars == <<status, archivedFrom, ended, request, call, content, crossed>>

Statuses == {"draft", "pending_review", "rejected", "published", "suspended",
             "archived", "cancelled", "completed"}
Idle == [op |-> "none", saw |-> "draft", goes |-> "draft", sees |-> {}]

\* LIVE_EDITABLE, and the columns that are not in it: what a call has read of the
\* event it still sees while no edit has come.
Columns == {"live", "reviewed"}

EventInit ==
    /\ status = "draft" /\ archivedFrom = "none" /\ ended = FALSE
    /\ request = [q \in Requests |-> "none"]
    /\ call = [c \in Calls |-> Idle]
    /\ content = "unchecked" /\ crossed = FALSE

\* TRANSITIONS.
TRANSITIONS ==
    [draft          |-> {"pending_review", "published", "cancelled", "archived"},
     pending_review |-> {"published", "rejected", "draft", "cancelled", "archived"},
     rejected       |-> {"draft", "pending_review", "published", "cancelled", "archived"},
     published      |-> {"rejected", "cancelled", "suspended", "completed", "archived"},
     suspended      |-> {"published", "cancelled"},
     archived       |-> {"draft", "rejected", "published", "completed", "cancelled"},
     cancelled      |-> {},
     completed      |-> {"archived"}]

CanTransition(from, to) == to \in TRANSITIONS[from]

\* Mutation: what was in review goes on sale.
RestoreTarget_Requeued(from) == IF from = "pending_review" THEN "published" ELSE from

\* restoreTarget.
RestoreTarget(from) ==
    CASE from = "published" -> IF ended THEN "completed" ELSE "published"
      [] from \in {"draft", "rejected", "completed"} -> from
      [] OTHER -> "draft"

-----------------------------------------------------------------------------
(* Calls that read the event, decide and write *)

\* editConsequence: of an event on sale an organizer may edit LIVE_EDITABLE alone,
\* how it is paid for included.
MayEdit(saw) == IF saw \in {"published", "suspended"} THEN {"live"} ELSE Columns

\* What a call decides to write: nothing if it refuses.  Submitting publishes
\* at once, or queues the event when the platform requires approval.
Decisions(op) ==
    CASE op = "edit" -> IF status \in {"cancelled", "completed", "archived"} THEN {}
                        ELSE {IF status = "pending_review" THEN "draft" ELSE status}
      [] op = "submit" -> IF CanTransition(status, "pending_review")
                          THEN {"published", "pending_review"} ELSE {}
      [] op = "archive" -> {"archived"} \cap TRANSITIONS[status]
      [] op = "restore" -> IF status = "archived" THEN {RestoreTarget(archivedFrom)} ELSE {}
      [] op = "approve" -> IF status = "pending_review" THEN {"published"} ELSE {}
      [] op = "reject" -> IF status \in {"pending_review", "published"} THEN {"rejected"} ELSE {}
      [] op = "suspend" -> {"suspended"} \cap TRANSITIONS[status]
      [] op \in {"cancel", "ask"} -> {"cancelled"} \cap TRANSITIONS[status]

Ops == {"edit", "submit", "archive", "restore", "approve", "reject", "suspend", "cancel", "ask"}

Underway(op) == {c \in Calls : call[c].op = op}

\* A call reads the event; an approval is from the page the reviewer read on.
ReadEvent(c, op) ==
    /\ call[c] = Idle
    /\ \E s \in Decisions(op) :
          call' = [call EXCEPT ![c] = [op |-> op, saw |-> status, goes |-> s, sees |-> Columns]]
    /\ crossed' = (crossed \/ (op = "restore" /\ Underway("restore") # {}))
    /\ UNCHANGED <<status, archivedFrom, ended, request, content>>

\* Mutation: the update is by id alone.
Matches_ById(c) == c \in Calls

\* UPDATE ... WHERE status = the one that was read.
Matches(c) == status = call[c].saw

Done(c) == [call EXCEPT ![c] = Idle]

WriteStatus(c) ==
    /\ call[c].op \in {"archive", "restore", "approve", "reject", "suspend"} /\ Matches(c)
    /\ status' = call[c].goes
    /\ archivedFrom' = CASE call[c].op = "archive" -> call[c].saw
                         [] call[c].op = "restore" -> "none"
                         [] OTHER -> archivedFrom
    /\ content' = IF call[c].op = "approve" /\ content = "submitted" THEN "cleared" ELSE content
    /\ call' = Done(c)
    /\ UNCHANGED <<ended, request, crossed>>

\* The update of an organizer's edit, of as much as it may change: nothing looks
\* again at what a live event's edit has written.
WriteEdit(c) ==
    LET edited == MayEdit(call[c].saw) IN
    /\ call[c].op = "edit" /\ Matches(c)
    /\ status' = call[c].goes
    /\ content' = IF "reviewed" \in edited THEN "unchecked" ELSE content
    /\ call' = [d \in Calls |-> IF d = c THEN Idle ELSE [call[d] EXCEPT !.sees = @ \ edited]]
    /\ crossed' = (crossed \/ ("reviewed" \in edited /\ Underway("submit") # {}))
    /\ UNCHANGED <<archivedFrom, ended, request>>

WriteSubmission(c) ==
    /\ call[c].op = "submit" /\ Matches(c)
    /\ status' = call[c].goes
    /\ content' = IF "reviewed" \notin call[c].sees THEN "unchecked"
                  ELSE IF call[c].goes = "published" THEN "cleared" ELSE "submitted"
    /\ call' = Done(c)
    /\ UNCHANGED <<archivedFrom, ended, request, crossed>>

\* cancelEvent, up to the open request, which it answers in a later call.
WriteCancelled(c) ==
    /\ call[c].op = "cancel" /\ Matches(c)
    /\ status' = "cancelled"
    /\ call' = [call EXCEPT ![c].op = "answer"]
    /\ UNCHANGED <<archivedFrom, ended, request, content, crossed>>

\* The call answers 409, or its process dies.
GiveUp(c) ==
    /\ call[c] # Idle
    /\ call' = Done(c)
    /\ UNCHANGED <<status, archivedFrom, ended, request, content, crossed>>

-----------------------------------------------------------------------------
(* Requests to cancel, and what is one statement *)

Pending == {q \in Requests : request[q] = "pending"}

\* The end of cancelEvent.
AnswerRequests(c) ==
    /\ call[c].op = "answer"
    /\ request' = [q \in Requests |-> IF q \in Pending THEN "approved" ELSE request[q]]
    /\ call' = Done(c)
    /\ UNCHANGED <<status, archivedFrom, ended, content, crossed>>

\* requestCancellation's insert; the index allows one pending request.
AskToCancel(c, q) ==
    /\ call[c].op = "ask"
    /\ request[q] = "none" /\ Pending = {}
    /\ request' = [request EXCEPT ![q] = "pending"]
    /\ call' = Done(c)
    /\ UNCHANGED <<status, archivedFrom, ended, content, crossed>>

\* withdrawCancellation, rejectCancellation.
CloseRequest(q, verdict) ==
    /\ q \in Pending
    /\ request' = [request EXCEPT ![q] = verdict]
    /\ UNCHANGED <<status, archivedFrom, ended, call, content, crossed>>

\* unsuspend.
Unsuspend ==
    /\ status = "suspended"
    /\ status' = "published"
    /\ UNCHANGED <<archivedFrom, ended, request, call, content, crossed>>

EventEnds ==
    /\ ~ ended
    /\ ended' = TRUE
    /\ UNCHANGED <<status, archivedFrom, request, call, content, crossed>>

EventNext ==
    \/ \E c \in Calls : \/ \E op \in Ops : ReadEvent(c, op)
                        \/ WriteStatus(c) \/ WriteEdit(c) \/ WriteSubmission(c)
                        \/ WriteCancelled(c) \/ AnswerRequests(c) \/ GiveUp(c)
                        \/ \E q \in Requests : AskToCancel(c, q)
    \/ \E q \in Requests, verdict \in {"withdrawn", "rejected"} : CloseRequest(q, verdict)
    \/ Unsuspend \/ EventEnds

EventSpec == EventInit /\ [][EventNext]_eventVars

-----------------------------------------------------------------------------
(* Properties *)

EventTypeOK ==
    /\ status \in Statuses
    /\ archivedFrom \in TRANSITIONS["archived"] \cup {"none", "pending_review"}
    /\ request \in [Requests -> {"none", "pending", "approved", "rejected", "withdrawn"}]
    /\ call \in [Calls -> [op : Ops \cup {"none", "answer"}, saw : Statuses,
                           goes : Statuses, sees : SUBSET Columns]]
    /\ content \in {"unchecked", "submitted", "cleared"}
    /\ {ended, crossed} \subseteq BOOLEAN

OnSale == status \in {"published", "suspended"}

\* "Every check a reviewer relied on has just passed", and "a restore goes back
\* where the event came from, never past review": what is on sale, or was and can
\* be again, has in the columns outside LIVE_EDITABLE what passed a submission's
\* checks and the decision after them, through edits, archiving and restoring.  As
\* long as no edit of these meets a submission and no two restores overlap.  Of the
\* LIVE_EDITABLE columns it says nothing: their live edits pass no check at all.
OnSaleWasChecked ==
    ~ crossed => (OnSale \/ (status = "archived" /\ archivedFrom = "published") =>
                     content = "cleared")

\* A request is approved only when the event is cancelled, and then no call that
\* read the event before brings it back.
CancelledIsFinal ==
    \/ status = "cancelled"
    \/ \A q \in Requests : request[q] # "approved"

\* "A cancelled one never comes back": that also goes for one cancelled without a
\* request.
CancelledStays == [][status = "cancelled" => status' = "cancelled"]_eventVars

\* "So the reviewer never approves content they did not see."
ReviewerSeesWhatIsApproved ==
    [][\A c \in Calls : call[c].op = "approve" /\ WriteStatus(c) => call[c].sees = Columns]_eventVars
=============================================================================
