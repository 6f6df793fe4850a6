----------------------------- MODULE GateProofs -----------------------------
(***************************************************************************)
(* One admission per ticket, tablets that show what the log has, and lost  *)
(* scans that are shown as errors, for any number of tablets, tickets,     *)
(* scans and requests under way.                                           *)
(***************************************************************************)
EXTENDS Gate, FiniteSetTheorems, TLAPS

Recorded == {"admitted", "duplicate"}
Results == Recorded \cup {"none", "todo", "missed", "error", "void", "scanner_locked", "undone"}
Records == [state : {"none", "queued", "sending", "done"}, result : Results]
Reqs == [kind : {"idle", "verify", "sync"}, device : Devices \cup {"none"}, scans : SUBSET Scans,
         waiting : BOOLEAN, answer : [Scans -> Results]]

\* The shapes of the tablets' state and of the requests.
TabletShapes == mem \in [Scans -> Records] /\ kept \in [Scans -> Records]
RequestShapes == req \in [Requests -> Reqs]

\* The shapes of the database and of the scans.
LogShapes ==
    /\ row \in [Scans -> {"none"} \cup Recorded]
    /\ ticket \in [Tickets -> {"valid", "scanned", "void"}]
    /\ undos \in [Tickets -> Nat]
    /\ taken \in Nat
    /\ scan = [s \in Scans |-> scan[s]]
    /\ \A s \in Scans : scan[s] = NoScan \/ scan[s].ticket \in Tickets

Shapes == TabletShapes /\ RequestShapes /\ LogShapes

-----------------------------------------------------------------------------
(* Requests *)

LEMMA AnswerChanges ==
    ASSUME RequestShapes, NEW r \in Requests, NEW s \in Scans, NEW a \in Results, Answer(r, s, a)
    PROVE  /\ RequestShapes'
           /\ \A q \in Requests : req'[q].scans = req[q].scans
           /\ \A q \in Requests, u \in Scans :
                 req'[q].answer[u] = IF q = r /\ u = s THEN a ELSE req[q].answer[u]
<1>1. req[r] \in Reqs /\ req[r].answer \in [Scans -> Results]
  BY DEF RequestShapes, Reqs
<1> DEFINE new == [req[r].answer EXCEPT ![s] = a]
<1>2. new \in [Scans -> Results] /\ \A u \in Scans : new[u] = IF u = s THEN a ELSE req[r].answer[u]
  BY <1>1
<1>3. req' = [req EXCEPT ![r] = [req[r] EXCEPT !.answer = new]]
  BY DEF Answer
<1> HIDE DEF new
<1>4. [req[r] EXCEPT !.answer = new] \in Reqs /\ [req[r] EXCEPT !.answer = new].answer = new
      /\ [req[r] EXCEPT !.answer = new].scans = req[r].scans
  BY <1>1, <1>2 DEF Reqs
<1>5. RequestShapes' /\ req'[r] = [req[r] EXCEPT !.answer = new] /\ \A q \in Requests \ {r} : req'[q] = req[q]
  BY <1>3, <1>4 DEF RequestShapes
<1> QED BY <1>2, <1>4, <1>5

\* A request is new, over or no longer waited for: it carries no new answer.
NoNewAnswers(S) ==
    /\ RequestShapes'
    /\ \A q \in Requests : /\ req'[q].scans \subseteq req[q].scans \cup S
                           /\ \A u \in Scans : req'[q].answer[u] \in {req[q].answer[u], "todo", "none"}

LEMMA NewRequest ==
    ASSUME RequestShapes, NEW r \in Requests, NEW S \in SUBSET Scans, NEW d \in Devices,
           NEW kind \in {"verify", "sync"}, req' = [req EXCEPT ![r] = Request(kind, d, S)]
    PROVE  NoNewAnswers(S)
<1>1. Request(kind, d, S) \in Reqs
  BY DEF Request, Reqs, Results
<1>2. RequestShapes' /\ \A q \in Requests : req'[q] \in {req[q], Request(kind, d, S)}
  BY <1>1 DEF RequestShapes
<1>3. /\ Request(kind, d, S).scans = S
      /\ \A u \in Scans : Request(kind, d, S).answer[u] \in {"todo", "none"}
  BY DEF Request
<1> QED BY <1>2, <1>3 DEF NoNewAnswers

LEMMA EndRequest ==
    ASSUME RequestShapes, NEW r \in Requests, req' = [req EXCEPT ![r] = Idle]
    PROVE  NoNewAnswers({})
<1>1. Idle \in Reqs /\ Idle.scans = {} /\ \A u \in Scans : Idle.answer[u] = "none"
  BY DEF Idle, Reqs, Results
<1>2. RequestShapes' /\ \A q \in Requests : req'[q] \in {req[q], Idle}
  BY <1>1 DEF RequestShapes
<1> QED BY <1>1, <1>2 DEF NoNewAnswers

LEMMA LeaveRequests ==
    ASSUME RequestShapes, NEW R \in SUBSET Requests,
           req' = [r \in Requests |-> IF r \in R THEN [req[r] EXCEPT !.waiting = FALSE] ELSE req[r]]
    PROVE  NoNewAnswers({})
<1>1. \A r \in Requests : /\ [req[r] EXCEPT !.waiting = FALSE] \in Reqs
                          /\ [req[r] EXCEPT !.waiting = FALSE].scans = req[r].scans
                          /\ [req[r] EXCEPT !.waiting = FALSE].answer = req[r].answer
  BY DEF RequestShapes, Reqs
<1>2. RequestShapes' /\ \A r \in Requests : req'[r] \in {req[r], [req[r] EXCEPT !.waiting = FALSE]}
  BY <1>1 DEF RequestShapes
<1> QED BY <1>1, <1>2 DEF NoNewAnswers

-----------------------------------------------------------------------------
(* What tablets show *)

\* A scan that is known anywhere has been taken.
TakenOK ==
    /\ \A r \in Requests : \A s \in req[r].scans : scan[s] # NoScan
    /\ \A s \in Scans :
          row[s] # "none" \/ mem[s].state # "none" \/ kept[s].state # "none" => scan[s] # NoScan

\* A recorded result, wherever it has got to, is the log's.
ShownOK ==
    /\ \A s \in Scans : /\ mem[s].result \in Recorded => row[s] = mem[s].result
                        /\ kept[s].result \in Recorded => row[s] = kept[s].result
    /\ \A r \in Requests, s \in Scans : req[r].answer[s] \in Recorded => row[s] = req[r].answer[s]

ShownInv == Shapes /\ TakenOK /\ ShownOK

LEMMA InitShown == Init => ShownInv
BY DEF Init, ShownInv, Shapes, TabletShapes, RequestShapes, LogShapes, TakenOK, ShownOK,
       Reqs, Records, Results, Recorded, Unused, Idle

\* Steps of a tablet and its requests, which leave the log alone: what changes in
\* memory or in IndexedDB is of a scan that was taken, and shows no other result.
LEMMA TabletStep ==
    ASSUME ShownInv, UNCHANGED <<row, ticket, undos>>, NEW S \in SUBSET Scans, NoNewAnswers(S),
           LogShapes', TabletShapes',
           \A s \in Scans : scan[s] # NoScan \/ s \in S => scan'[s] # NoScan,
           \A s \in Scans : /\ mem'[s].result \in Recorded =>
                                  \/ mem'[s] \in {mem[s], kept[s]}
                                  \/ \E r \in Requests : mem'[s].result = req[r].answer[s]
                            /\ kept'[s].result \in Recorded =>
                                  kept'[s] \in {kept[s], mem'[s]},
           \A s \in Scans : mem'[s].state # "none" \/ kept'[s].state # "none" =>
                               \/ mem[s].state # "none" \/ kept[s].state # "none"
                               \/ s \in S \/ \E r \in Requests : s \in req[r].scans
    PROVE  ShownInv'
<1>1. Shapes'
  BY DEF ShownInv, Shapes, NoNewAnswers
<1>2. TakenOK'
  <2>1. \A r \in Requests : req'[r].scans \subseteq Scans
    BY <1>1 DEF Shapes, RequestShapes, Reqs
  <2>2. \A r \in Requests : \A s \in req'[r].scans : s \in Scans /\ (scan[s] # NoScan \/ s \in S)
    BY <2>1 DEF ShownInv, TakenOK, NoNewAnswers
  <2>3. \A s \in Scans : row'[s] # "none" \/ mem'[s].state # "none" \/ kept'[s].state # "none"
                         => scan[s] # NoScan \/ s \in S
    BY DEF ShownInv, TakenOK
  <2> QED BY <2>2, <2>3 DEF TakenOK
<1>3. ShownOK'
  <2>1. \A s \in Scans : mem'[s].result \in Recorded => row[s] = mem'[s].result
    BY DEF ShownInv, ShownOK
  <2>2. \A s \in Scans : kept'[s].result \in Recorded => row[s] = kept'[s].result
    BY <2>1 DEF ShownInv, ShownOK
  <2>3. \A r \in Requests, s \in Scans : req'[r].answer[s] \in Recorded => row[s] = req'[r].answer[s]
    BY DEF ShownInv, ShownOK, NoNewAnswers, Recorded
  <2> QED BY <2>1, <2>2, <2>3 DEF ShownOK
<1> QED BY <1>1, <1>2, <1>3 DEF ShownInv

LEMMA ShownStep == ShownInv /\ [Next]_vars => ShownInv'
<1> SUFFICES ASSUME ShownInv, [Next]_vars PROVE ShownInv'
  OBVIOUS
<1>a. TabletShapes /\ RequestShapes /\ LogShapes /\ TakenOK /\ ShownOK
  BY DEF ShownInv, Shapes
<1>b. /\ Queued \in Records /\ Sending \in Records /\ Queued.result = "none" /\ Sending.result = "none"
      /\ Queued.state # "none" /\ Sending.state # "none"
  BY DEF Queued, Sending, Records, Results
<1>c. \A a \in Results : Done(a) \in Records /\ Done(a).result = a /\ Done(a).state = "done"
  BY DEF Done, Records
<1>d. \A r \in Requests, s \in Scans : req[r].answer[s] \in Results /\ req[r].scans \subseteq Scans
  BY <1>a DEF RequestShapes, Reqs
<1>e. "none" \notin Recorded
  BY DEF Recorded
<1>1. ASSUME NEW d \in Devices, NEW t \in Tickets, NEW s \in Scans, Submit(d, t, s) PROVE ShownInv'
  <2>1. UNCHANGED <<row, ticket, undos>> /\ taken' = taken + 1
    BY <1>1 DEF Submit, dbVars
  <2>2. /\ scan' = [scan EXCEPT ![s] = [device |-> d, ticket |-> t, at |-> taken']]
        /\ scan'[s] # NoScan /\ scan'[s].ticket = t
        /\ \A u \in Scans \ {s} : scan'[u] = scan[u]
    BY <1>1, <1>a, <2>1 DEF Submit, NoScan, LogShapes
  <2>3. LogShapes'
    BY <1>a, <2>1, <2>2 DEF LogShapes
  <2>4. kept' = [kept EXCEPT ![s] = Queued] /\ mem' \in {[mem EXCEPT ![s] = Queued], [mem EXCEPT ![s] = Sending]}
    BY <1>1 DEF Submit
  <2>5. TabletShapes' /\ kept'[s] = Queued /\ mem'[s] \in {Queued, Sending}
        /\ \A u \in Scans \ {s} : mem'[u] = mem[u] /\ kept'[u] = kept[u]
    BY <1>a, <1>b, <2>4 DEF TabletShapes
  <2>6. NoNewAnswers({s})
    <3>1. CASE UNCHANGED req
      BY <3>1, <1>a DEF NoNewAnswers, RequestShapes
    <3>2. ASSUME NEW r \in Requests, req' = [req EXCEPT ![r] = Request("verify", d, {s})] PROVE NoNewAnswers({s})
      BY <3>2, <1>a, NewRequest
    <3> QED BY <1>1, <3>1, <3>2 DEF Submit
  <2> QED BY <1>b, <1>e, <2>1, <2>2, <2>3, <2>5, <2>6, TabletStep
<1>2. ASSUME NEW d \in Devices, NEW r \in Requests, Sync(d, r) PROVE ShownInv'
  <2>1. UNCHANGED <<row, ticket, undos, scan, taken, kept>>
    BY <1>2 DEF Sync, dbVars
  <2>2. NextBatch(d) \in SUBSET Scans /\ \A u \in NextBatch(d) : mem[u].state # "none"
    BY DEF NextBatch, Pending, ScansOf
  <2>3. /\ mem' = [s \in Scans |-> IF s \in NextBatch(d) THEN Sending ELSE mem[s]]
        /\ req' = [req EXCEPT ![r] = Request("sync", d, NextBatch(d))]
    BY <1>2 DEF Sync
  <2>4. NoNewAnswers(NextBatch(d))
    BY <2>2, <2>3, <1>a, NewRequest
  <2>5. TabletShapes' /\ \A u \in Scans : mem'[u] = mem[u] \/ (u \in NextBatch(d) /\ mem'[u] = Sending)
    BY <1>a, <1>b, <2>1, <2>3 DEF TabletShapes
  <2>6. LogShapes' /\ \A u \in Scans : scan[u] # NoScan \/ u \in NextBatch(d) => scan'[u] # NoScan
    BY <1>a, <2>1, <2>2 DEF LogShapes, TakenOK
  <2> QED BY <1>b, <1>e, <2>1, <2>2, <2>4, <2>5, <2>6, TabletStep
<1>3. ASSUME NEW r \in Requests, TakeAnswer(r) PROVE ShownInv'
  <2> DEFINE shut == req[r].kind = "verify" /\ \E s \in req[r].scans : req[r].answer[s] = "scanner_locked"
  <2>1. UNCHANGED <<row, ticket, undos, scan, taken>> /\ req' = [req EXCEPT ![r] = Idle]
    BY <1>3 DEF TakeAnswer, dbVars
  <2>2. /\ mem' = [s \in Scans |-> mem'[s]] /\ kept' = [s \in Scans |-> kept'[s]]
        /\ \A s \in Scans :
              /\ \/ mem'[s] = mem[s]
                 \/ s \in req[r].scans /\ mem'[s] \in {Done(req[r].answer[s]), Done("scanner_locked")}
                 \/ mem[s].state # "none" /\ mem'[s] = Queued
              /\ kept'[s] \in {kept[s], mem'[s]}
    <3>1. CASE shut
      <4>1. /\ mem' = [s \in Scans |-> IF s \in req[r].scans THEN Done("scanner_locked") ELSE mem[s]]
            /\ kept' = [s \in Scans |-> IF s \in req[r].scans THEN Done("scanner_locked") ELSE kept[s]]
        BY <1>3, <3>1 DEF TakeAnswer
      <4> QED BY <4>1
    <3>2. CASE ~ shut
      <4>1. /\ mem' = [s \in Scans |-> Applied(r, s)]
            /\ kept' = [s \in Scans |-> IF mem'[s] # mem[s] \/ (req[r].kind = "verify" /\ s \in req[r].scans)
                                        THEN mem'[s] ELSE kept[s]]
        BY <1>3, <3>2 DEF TakeAnswer
      <4> QED BY <4>1 DEF Applied, Pending
    <3> QED BY <3>1, <3>2
  <2>3. NoNewAnswers({})
    BY <2>1, <1>a, EndRequest
  <2>4. "scanner_locked" \in Results /\ "scanner_locked" \notin Recorded
    BY DEF Results, Recorded
  <2>5. TabletShapes'
    BY <1>a, <1>b, <1>c, <1>d, <2>2, <2>4 DEF TabletShapes
  <2>6. LogShapes'
    BY <1>a, <2>1 DEF LogShapes
  <2> QED BY <1>b, <1>c, <1>d, <1>e, <2>1, <2>2, <2>3, <2>4, <2>5, <2>6, TabletStep
<1>4. ASSUME NEW r \in Requests, Fail(r) PROVE ShownInv'
  <2>1. UNCHANGED <<row, ticket, undos, scan, taken>>
    BY <1>4 DEF Fail, dbVars
  <2>2. req' = [req EXCEPT ![r].waiting = FALSE]
    BY <1>4 DEF Fail
  <2>3. NoNewAnswers({})
    <3>1. req' = [q \in Requests |-> IF q \in {r} THEN [req[q] EXCEPT !.waiting = FALSE] ELSE req[q]]
      BY <2>2, <1>a DEF RequestShapes
    <3> QED BY <3>1, <1>a, LeaveRequests
  <2>4. /\ mem' = [s \in Scans |-> mem'[s]] /\ kept' = [s \in Scans |-> kept'[s]]
        /\ \A s \in Scans :
              /\ mem'[s] = mem[s] \/ (mem'[s] = Queued /\ (s \in req[r].scans \/ mem[s].state # "none"))
              /\ kept'[s] = kept[s] \/ (kept'[s] = Queued /\ s \in req[r].scans)
    BY <1>4 DEF Fail, PutBack
  <2>5. TabletShapes'
    BY <1>a, <1>b, <2>4 DEF TabletShapes
  <2>6. LogShapes'
    BY <1>a, <2>1 DEF LogShapes
  <2> QED BY <1>b, <1>e, <2>1, <2>3, <2>4, <2>5, <2>6, TabletStep
<1>5. ASSUME NEW r \in Requests, SignedOut(r) \/ Forget(r) PROVE ShownInv'
  <2>1. UNCHANGED <<row, ticket, undos, scan, taken, mem, kept>> /\ req' = [req EXCEPT ![r] = Idle]
    BY <1>5 DEF SignedOut, Forget, dbVars
  <2>2. NoNewAnswers({})
    BY <2>1, <1>a, EndRequest
  <2>3. LogShapes' /\ TabletShapes'
    BY <1>a, <2>1 DEF LogShapes, TabletShapes
  <2> QED BY <2>1, <2>2, <2>3, TabletStep
<1>6. ASSUME NEW r \in Requests, NEW s \in Scans, Lookup(r, s) PROVE ShownInv'
  <2>1. UNCHANGED <<row, ticket, undos, scan, taken, mem, kept>>
    BY <1>6 DEF Lookup, dbVars
  <2>2. PICK a \in {row[s], "missed"} : Answer(r, s, a)
    BY <1>6 DEF Lookup, Replayed
  <2>3. a \in Results /\ (a \in Recorded => row[s] = a)
    BY <2>2, <1>a DEF LogShapes, Results, Recorded
  <2>4. /\ RequestShapes' /\ \A q \in Requests : req'[q].scans = req[q].scans
        /\ \A q \in Requests, u \in Scans : req'[q].answer[u] = IF q = r /\ u = s THEN a ELSE req[q].answer[u]
    BY <2>2, <2>3, <1>a, AnswerChanges
  <2>5. Shapes'
    BY <1>a, <2>1, <2>4 DEF Shapes, LogShapes, TabletShapes
  <2>6. TakenOK' /\ ShownOK'
    BY <1>a, <2>1, <2>3, <2>4 DEF TakenOK, ShownOK
  <2> QED BY <2>5, <2>6 DEF ShownInv
<1>7. ASSUME NEW r \in Requests, NEW s \in Scans, CheckIn(r, s) PROVE ShownInv'
  <2> DEFINE t == scan[s].ticket
  <2>1. UNCHANGED <<undos, scan, taken, mem, kept>> /\ s \in req[r].scans
    BY <1>7 DEF CheckIn, dbVars
  <2>2. scan[s] # NoScan /\ t \in Tickets
    BY <1>a, <2>1 DEF TakenOK, LogShapes
  <2>3. PICK a \in {"error", Decision(t)} :
           /\ Answer(r, s, a)
           /\ \/ UNCHANGED <<row, ticket>> /\ a \notin Recorded
              \/ a \in Recorded /\ row[s] = "none" /\ row' = [row EXCEPT ![s] = a]
                 /\ ticket' \in {ticket, [ticket EXCEPT ![t] = "scanned"]}
    <3>1. CASE Decision(t) \in Recorded /\ row[s] # "none"
      BY <1>7, <3>1 DEF CheckIn, Recorded, dbVars
    <3>2. CASE Decision(t) \in Recorded /\ row[s] = "none"
      <4>1. /\ Answer(r, s, Decision(t))
            /\ row' = [row EXCEPT ![s] = Decision(t)]
            /\ ticket' = [ticket EXCEPT ![t] = IF Decision(t) = "admitted" THEN "scanned" ELSE @]
        BY <1>7, <3>2 DEF CheckIn, Recorded
      <4>2. ticket' \in {ticket, [ticket EXCEPT ![t] = "scanned"]}
        BY <4>1, <1>a DEF LogShapes
      <4> QED BY <3>2, <4>1, <4>2
    <3>3. CASE Decision(t) \notin Recorded
      <4>1. /\ Answer(r, s, Decision(t))
            /\ row' = [row EXCEPT ![s] = @] /\ ticket' = [ticket EXCEPT ![t] = @]
        BY <1>7, <3>3 DEF CheckIn, Recorded
      <4>2. UNCHANGED <<row, ticket>>
        BY <4>1, <1>a DEF LogShapes
      <4> QED BY <3>3, <4>1, <4>2
    <3> QED BY <3>1, <3>2, <3>3
  <2>4. a \in Results
    BY <2>3 DEF Decision, Results, Recorded
  <2>5. /\ RequestShapes' /\ \A q \in Requests : req'[q].scans = req[q].scans
        /\ \A q \in Requests, u \in Scans : req'[q].answer[u] = IF q = r /\ u = s THEN a ELSE req[q].answer[u]
    BY <2>3, <2>4, <1>a, AnswerChanges
  <2>6. LogShapes'
    BY <1>a, <2>1, <2>2, <2>3 DEF LogShapes
  <2>7. \A u \in Scans : row'[u] = row[u] \/ (u = s /\ row[u] = "none" /\ row'[u] = a /\ a \in Recorded)
    BY <1>a, <2>3 DEF LogShapes
  <2>8. Shapes'
    BY <1>a, <2>1, <2>5, <2>6 DEF Shapes, TabletShapes
  <2>9. TakenOK'
    BY <1>a, <2>1, <2>2, <2>5, <2>7 DEF TakenOK
  <2>10. a \in Recorded => row'[s] = a
    BY <2>3, <1>a DEF LogShapes
  <2>11. ShownOK'
    BY <1>a, <1>e, <2>1, <2>5, <2>7, <2>10 DEF ShownOK
  <2> QED BY <2>8, <2>9, <2>11 DEF ShownInv
<1>8. ASSUME NEW r \in Requests, NEW s \in Scans, DbError(r, s) PROVE ShownInv'
  <2>1. UNCHANGED <<row, ticket, undos, scan, taken, mem, kept>> /\ Answer(r, s, "error")
    BY <1>8 DEF DbError, dbVars
  <2>2. "error" \in Results /\ "error" \notin Recorded
    BY DEF Results, Recorded
  <2>3. /\ RequestShapes' /\ \A q \in Requests : req'[q].scans = req[q].scans
        /\ \A q \in Requests, u \in Scans : req'[q].answer[u] = IF q = r /\ u = s THEN "error" ELSE req[q].answer[u]
    BY <2>1, <2>2, <1>a, AnswerChanges
  <2>4. Shapes'
    BY <1>a, <2>1, <2>3 DEF Shapes, LogShapes, TabletShapes
  <2>5. TakenOK' /\ ShownOK'
    BY <1>a, <2>1, <2>2, <2>3 DEF TakenOK, ShownOK
  <2> QED BY <2>4, <2>5 DEF ShownInv
<1>9. ASSUME NEW d \in Devices, Reload(d) PROVE ShownInv'
  <2>1. UNCHANGED <<row, ticket, undos, scan, taken, kept>>
    BY <1>9 DEF Reload, dbVars
  <2>2. NoNewAnswers({})
    <3> DEFINE R == {r \in Requests : req[r].device = d}
    <3>1. req' = [r \in Requests |-> IF r \in R THEN [req[r] EXCEPT !.waiting = FALSE] ELSE req[r]]
      BY <1>9 DEF Reload
    <3> QED BY <3>1, <1>a, LeaveRequests
  <2>3. TabletShapes' /\ \A s \in Scans : mem'[s] \in {mem[s], kept[s]}
    BY <1>9, <1>a DEF Reload, TabletShapes
  <2>4. LogShapes'
    BY <1>a, <2>1 DEF LogShapes
  <2> QED BY <2>1, <2>2, <2>3, <2>4, TabletStep
<1>10. ASSUME NEW s \in Scans, Undo(s) PROVE ShownInv'
  <2> DEFINE t == scan[s].ticket
  <2>1. UNCHANGED <<row, scan, taken, req>> /\ mem[s] = Done("admitted")
    BY <1>10 DEF Undo
  <2>2. "admitted" \in Results /\ "undone" \in Results /\ "undone" \notin Recorded
    BY DEF Results, Recorded
  <2>3. t \in Tickets /\ scan[s] # NoScan
    BY <1>a, <1>c, <2>1, <2>2 DEF TakenOK, LogShapes
  <2>4. ticket' = [ticket EXCEPT ![t] = "valid"] /\ undos' = [undos EXCEPT ![t] = @ + 1]
    BY <1>10 DEF Undo
  <2>5. LogShapes'
    BY <1>a, <2>1, <2>3, <2>4 DEF LogShapes
  <2>6. \/ UNCHANGED <<mem, kept>>
        \/ mem' = [mem EXCEPT ![s] = Done("undone")] /\ kept' = [kept EXCEPT ![s] = Done("undone")]
    BY <1>10 DEF Undo
  <2>7. TabletShapes' /\ \A u \in Scans : /\ mem'[u] = mem[u] \/ (u = s /\ mem'[u] = Done("undone"))
                                          /\ kept'[u] = kept[u] \/ (u = s /\ kept'[u] = Done("undone"))
    BY <1>a, <1>c, <2>2, <2>6 DEF TabletShapes
  <2>8. Shapes'
    BY <1>a, <2>1, <2>5, <2>7 DEF Shapes, RequestShapes
  <2>9. TakenOK' /\ ShownOK'
    BY <1>a, <1>c, <2>1, <2>2, <2>3, <2>7 DEF TakenOK, ShownOK
  <2> QED BY <2>8, <2>9 DEF ShownInv
<1>11. ASSUME NEW t \in Tickets, VoidTicket(t) PROVE ShownInv'
  <2>1. UNCHANGED <<row, undos, scan, taken, mem, kept, req>> /\ ticket' = [ticket EXCEPT ![t] = "void"]
    BY <1>11 DEF VoidTicket
  <2> QED BY <1>a, <2>1 DEF ShownInv, Shapes, LogShapes, TabletShapes, RequestShapes, TakenOK, ShownOK
<1>12. CASE SetLock \/ UNCHANGED vars
  <2>1. UNCHANGED <<row, ticket, undos, scan, taken, mem, kept, req>>
    BY <1>12 DEF SetLock, vars, dbVars
  <2> QED BY <1>a, <2>1 DEF ShownInv, Shapes, LogShapes, TabletShapes, RequestShapes, TakenOK, ShownOK
<1> QED BY <1>1, <1>2, <1>3, <1>4, <1>5, <1>6, <1>7, <1>8, <1>9, <1>10, <1>11, <1>12 DEF Next, Serve

LEMMA ShownAlways == Spec => []ShownInv
BY InitShown, ShownStep, PTL DEF Spec

\* Whatever tablets, retries, reloads and abandoned requests do, what a tablet
\* shows of a scan is what the log has of it (check_in_ticket, applyResults).
THEOREM ShownIsRecordedHolds == Spec => []ShownIsRecorded
<1>1. ShownInv => ShownIsRecorded
  BY DEF ShownInv, ShownOK, ShownIsRecorded, Recorded
<1> QED BY <1>1, ShownAlways, PTL

-----------------------------------------------------------------------------
(* Scans that get lost *)

\* A result the server has recorded or refused, or an error.
Known(log, s, result) ==
    \/ result \in {"error", "void", "scanner_locked"}
    \/ result \in Recorded \cup {"undone"} /\ log[s] # "none"

\* Settled scans and the answers of requests under way are known to the server.
KnownInv ==
    /\ \A s \in Scans : \A record \in {mem[s], kept[s]} : record.state = "done" => Known(row, s, record.result)
    /\ \A r \in Requests : \A s \in req[r].scans :
          req[r].answer[s] \in {"todo", "missed"} \/ Known(row, s, req[r].answer[s])

\* The log only grows, and what is new on a tablet or in a request is known.
LEMMA KnownStays ==
    ASSUME KnownInv, ShownInv,
           \A s \in Scans : row[s] # "none" => row'[s] # "none",
           \A s \in Scans : mem'[s].state = "done" => mem'[s] \in {mem[s], kept[s]} \/ Known(row', s, mem'[s].result),
           \A s \in Scans : kept'[s].state = "done" => kept'[s] \in {mem'[s], kept[s]} \/ Known(row', s, kept'[s].result),
           \A r \in Requests : \A s \in req'[r].scans :
               \/ s \in req[r].scans /\ req'[r].answer[s] = req[r].answer[s]
               \/ req'[r].answer[s] \in {"todo", "missed"} \/ Known(row', s, req'[r].answer[s])
    PROVE  KnownInv'
<1>1. \A s \in Scans : \A a : Known(row, s, a) => Known(row', s, a)
  BY DEF Known
<1>2. \A r \in Requests : req[r].scans \subseteq Scans
  BY DEF ShownInv, Shapes, RequestShapes, Reqs
<1>b. \A s \in Scans : /\ mem[s].state = "done" => Known(row', s, mem[s].result)
                       /\ kept[s].state = "done" => Known(row', s, kept[s].result)
  BY <1>1 DEF KnownInv
<1>3. \A s \in Scans : mem'[s].state = "done" => Known(row', s, mem'[s].result)
  BY <1>b
<1>4. \A s \in Scans : kept'[s].state = "done" => Known(row', s, kept'[s].result)
  BY <1>b, <1>3
<1>5. \A r \in Requests : \A s \in req'[r].scans :
          req'[r].answer[s] \in {"todo", "missed"} \/ Known(row', s, req'[r].answer[s])
  BY <1>1, <1>2 DEF KnownInv
<1> QED BY <1>3, <1>4, <1>5 DEF KnownInv

\* A request is new, or no longer waited for, or over.
LEMMA RequestsGo ==
    ASSUME RequestShapes, NEW r \in Requests,
           \/ req' = [req EXCEPT ![r] = Idle] \/ req' = [req EXCEPT ![r].waiting = FALSE] \/ UNCHANGED req
           \/ \E kind, d, S : req' = [req EXCEPT ![r] = Request(kind, d, S)]
           \/ \E d : req' = [q \in Requests |-> IF req[q].device = d THEN [req[q] EXCEPT !.waiting = FALSE] ELSE req[q]]
    PROVE  \A q \in Requests : \A s \in req'[q].scans :
               \/ s \in req[q].scans /\ req'[q].answer[s] = req[q].answer[s]
               \/ s \in Scans => req'[q].answer[s] = "todo"
<1>1. /\ Idle.scans = {}
      /\ \A kind, d, S : /\ Request(kind, d, S).scans = S
                         /\ \A s \in S \cap Scans : Request(kind, d, S).answer[s] = "todo"
  BY DEF Idle, Request
<1>2. \A q \in Requests : /\ [req[q] EXCEPT !.waiting = FALSE].scans = req[q].scans
                          /\ [req[q] EXCEPT !.waiting = FALSE].answer = req[q].answer
  BY DEF RequestShapes, Reqs
<1>3. \A q \in Requests : \/ req'[q] \in {req[q], Idle, [req[q] EXCEPT !.waiting = FALSE]}
                          \/ \E kind, d, S : req'[q] = Request(kind, d, S)
  BY DEF RequestShapes
<1> SUFFICES ASSUME NEW q \in Requests, NEW s \in req'[q].scans
             PROVE  \/ s \in req[q].scans /\ req'[q].answer[s] = req[q].answer[s]
                    \/ s \in Scans => req'[q].answer[s] = "todo"
  OBVIOUS
<1>4. CASE req'[q] \in {req[q], Idle, [req[q] EXCEPT !.waiting = FALSE]}
  <2>1. req'[q] # Idle
    BY <1>1
  <2>2. req'[q].scans = req[q].scans /\ req'[q].answer = req[q].answer
    BY <1>2, <1>4, <2>1
  <2> QED BY <2>2
<1>5. ASSUME NEW kind, NEW d, NEW S, req'[q] = Request(kind, d, S) PROVE s \in Scans => req'[q].answer[s] = "todo"
  BY <1>1, <1>5
<1> QED BY <1>3, <1>4, <1>5

LEMMA KnownStep == ShownInv /\ ShownInv' /\ KnownInv /\ [Next]_vars => KnownInv'
<1> SUFFICES ASSUME ShownInv, ShownInv', KnownInv, [Next]_vars PROVE KnownInv'
  OBVIOUS
<1>a. /\ TabletShapes /\ RequestShapes /\ LogShapes /\ RequestShapes'
      /\ \A r \in Requests : req[r].scans \subseteq Scans /\ req'[r].scans \subseteq Scans
  BY DEF ShownInv, Shapes, RequestShapes, Reqs
<1>b. Queued.state # "done" /\ Sending.state # "done" /\ \A a : Done(a).result = a
  BY DEF Queued, Sending, Done
<1>1. ASSUME NEW d \in Devices, NEW t \in Tickets, NEW s \in Scans, Submit(d, t, s) PROVE KnownInv'
  <2>1. /\ UNCHANGED row /\ kept' = [kept EXCEPT ![s] = Queued]
        /\ mem' \in {[mem EXCEPT ![s] = Queued], [mem EXCEPT ![s] = Sending]}
    BY <1>1 DEF Submit, dbVars
  <2>2. \A u \in Scans : kept'[u] \in {kept[u], Queued} /\ mem'[u] \in {mem[u], Queued, Sending}
    BY <1>a, <2>1 DEF TabletShapes
  <2>3. CASE UNCHANGED req
    BY <1>b, <2>1, <2>2, <2>3, KnownStays
  <2>4. ASSUME NEW r \in Requests, req' = [req EXCEPT ![r] = Request("verify", d, {s})] PROVE KnownInv'
    BY <1>a, <1>b, <2>1, <2>2, <2>4, RequestsGo, KnownStays
  <2> QED BY <1>1, <2>3, <2>4 DEF Submit
<1>2. ASSUME NEW d \in Devices, NEW r \in Requests, Sync(d, r) PROVE KnownInv'
  <2>1. /\ UNCHANGED <<row, kept>>
        /\ mem' = [s \in Scans |-> IF s \in NextBatch(d) THEN Sending ELSE mem[s]]
        /\ req' = [req EXCEPT ![r] = Request("sync", d, NextBatch(d))]
    BY <1>2 DEF Sync, dbVars
  <2>2. \A u \in Scans : mem'[u] \in {mem[u], Sending}
    BY <2>1
  <2> QED BY <1>a, <1>b, <2>1, <2>2, RequestsGo, KnownStays
<1>3. ASSUME NEW r \in Requests, TakeAnswer(r) PROVE KnownInv'
  <2> DEFINE shut == req[r].kind = "verify" /\ \E s \in req[r].scans : req[r].answer[s] = "scanner_locked"
  <2>1. UNCHANGED row /\ req' = [req EXCEPT ![r] = Idle]
    BY <1>3 DEF TakeAnswer, dbVars
  <2>2. \A s \in req[r].scans : Known(row', s, req[r].answer[s])
    BY <1>3, <2>1 DEF TakeAnswer, Answered, KnownInv, Known
  <2>3. \A s \in Scans : Known(row', s, "scanner_locked")
    BY DEF Known
  <2>4. \A s \in Scans :
              /\ \/ mem'[s] = mem[s] \/ mem'[s] = Queued
                 \/ s \in req[r].scans /\ mem'[s] \in {Done(req[r].answer[s]), Done("scanner_locked")}
              /\ kept'[s] \in {kept[s], mem'[s]}
    <3>1. CASE shut
      <4>1. /\ mem' = [s \in Scans |-> IF s \in req[r].scans THEN Done("scanner_locked") ELSE mem[s]]
            /\ kept' = [s \in Scans |-> IF s \in req[r].scans THEN Done("scanner_locked") ELSE kept[s]]
        BY <1>3, <3>1 DEF TakeAnswer
      <4> QED BY <4>1
    <3>2. CASE ~ shut
      <4>1. /\ mem' = [s \in Scans |-> Applied(r, s)]
            /\ kept' = [s \in Scans |-> IF mem'[s] # mem[s] \/ (req[r].kind = "verify" /\ s \in req[r].scans)
                                        THEN mem'[s] ELSE kept[s]]
        BY <1>3, <3>2 DEF TakeAnswer
      <4> QED BY <4>1 DEF Applied
    <3> QED BY <3>1, <3>2
  <2>5. \A s \in Scans : mem'[s].state = "done" => mem'[s] = mem[s] \/ Known(row', s, mem'[s].result)
    BY <1>b, <2>2, <2>3, <2>4
  <2> QED BY <1>a, <2>1, <2>4, <2>5, RequestsGo, KnownStays
<1>4. ASSUME NEW r \in Requests, Fail(r) PROVE KnownInv'
  <2>1. UNCHANGED row /\ req' = [req EXCEPT ![r].waiting = FALSE]
    BY <1>4 DEF Fail, dbVars
  <2>2. \A s \in Scans : mem'[s] \in {mem[s], Queued} /\ kept'[s] \in {kept[s], Queued}
    BY <1>4 DEF Fail, PutBack
  <2> QED BY <1>a, <1>b, <2>1, <2>2, RequestsGo, KnownStays
<1>5. ASSUME NEW r \in Requests, SignedOut(r) \/ Forget(r) PROVE KnownInv'
  <2>1. UNCHANGED <<row, mem, kept>> /\ req' = [req EXCEPT ![r] = Idle]
    BY <1>5 DEF SignedOut, Forget, dbVars
  <2> QED BY <1>a, <2>1, RequestsGo, KnownStays
<1>6. ASSUME NEW r \in Requests, NEW s \in Scans, Lookup(r, s) \/ CheckIn(r, s) \/ DbError(r, s) PROVE KnownInv'
  <2>1. UNCHANGED <<mem, kept>> /\ s \in req[r].scans
    BY <1>6 DEF Lookup, CheckIn, DbError, dbVars
  <2>2. PICK a \in {"missed", "error", row[s], Decision(scan[s].ticket)} :
           /\ Answer(r, s, a)
           /\ a = "missed" \/ Known(row', s, a)
           /\ \A u \in Scans : row[u] # "none" => row'[u] # "none"
    <3>1. CASE Lookup(r, s)
      <4>1. UNCHANGED row /\ Answer(r, s, IF row[s] # "none" THEN row[s] ELSE "missed")
        BY <3>1 DEF Lookup, Replayed, dbVars
      <4> QED BY <4>1, <1>a DEF LogShapes, Known
    <3>2. CASE DbError(r, s)
      BY <3>2 DEF DbError, Known, dbVars
    <3>3. CASE CheckIn(r, s)
      <4> DEFINE d == Decision(scan[s].ticket)
      <4>1. d \in Recorded \cup {"void", "scanner_locked"}
        BY DEF Decision, Recorded
      <4>2. CASE d \in Recorded /\ row[s] # "none"
        BY <3>3, <4>2 DEF CheckIn, Recorded, Known, dbVars
      <4>3. CASE ~ (d \in Recorded /\ row[s] # "none")
        <5>1. Answer(r, s, d) /\ row' = [row EXCEPT ![s] = IF d \in Recorded THEN d ELSE @]
          BY <3>3, <4>3 DEF CheckIn, Recorded
        <5>2. /\ \A u \in Scans : row[u] # "none" => row'[u] # "none"
              /\ d \in Recorded => row'[s] = d
          BY <1>a, <5>1 DEF LogShapes, Recorded
        <5> QED BY <4>1, <5>1, <5>2 DEF Known, Recorded
      <4> QED BY <4>2, <4>3
    <3> QED BY <1>6, <3>1, <3>2, <3>3
  <2>3. a \in Results
    BY <2>2, <1>a DEF Decision, LogShapes, Results, Recorded
  <2>4. /\ \A q \in Requests : req'[q].scans = req[q].scans
        /\ \A q \in Requests, u \in Scans : req'[q].answer[u] = IF q = r /\ u = s THEN a ELSE req[q].answer[u]
    BY <2>2, <2>3, <1>a, AnswerChanges
  <2> QED BY <1>a, <2>1, <2>2, <2>4, KnownStays
<1>7. ASSUME NEW d \in Devices, Reload(d) PROVE KnownInv'
  <2>1. /\ UNCHANGED <<row, kept>>
        /\ req' = [r \in Requests |-> IF req[r].device = d THEN [req[r] EXCEPT !.waiting = FALSE] ELSE req[r]]
    BY <1>7 DEF Reload, dbVars
  <2>2. \A s \in Scans : mem'[s] \in {mem[s], kept[s]}
    BY <1>7 DEF Reload
  <2> QED BY <1>a, <2>1, <2>2, RequestsGo, KnownStays
<1>8. ASSUME NEW s \in Scans, Undo(s) PROVE KnownInv'
  <2>1. /\ UNCHANGED <<row, req>> /\ mem[s] = Done("admitted")
        /\ \/ UNCHANGED <<mem, kept>>
           \/ mem' = [mem EXCEPT ![s] = Done("undone")] /\ kept' = [kept EXCEPT ![s] = Done("undone")]
    BY <1>8 DEF Undo
  <2>2. Known(row', s, "undone")
    BY <1>b, <2>1 DEF ShownInv, ShownOK, Known, Recorded
  <2>3. \A u \in Scans : /\ mem'[u] = mem[u] \/ (u = s /\ mem'[u] = Done("undone"))
                         /\ kept'[u] = kept[u] \/ (u = s /\ kept'[u] = Done("undone"))
    BY <1>a, <2>1 DEF TabletShapes
  <2>4. \A u \in Scans : /\ mem'[u] = mem[u] \/ Known(row', u, mem'[u].result)
                         /\ kept'[u] = kept[u] \/ Known(row', u, kept'[u].result)
    BY <1>b, <2>2, <2>3
  <2> QED BY <2>1, <2>4, KnownStays
<1>9. CASE (\E t \in Tickets : VoidTicket(t)) \/ SetLock \/ UNCHANGED vars
  <2>1. UNCHANGED <<row, mem, kept, req>>
    BY <1>9 DEF VoidTicket, SetLock, vars, dbVars
  <2> QED BY <2>1, KnownStays
<1> QED BY <1>1, <1>2, <1>3, <1>4, <1>5, <1>6, <1>7, <1>8, <1>9 DEF Next, Serve

\* A tablet settles a scan the server has neither recorded nor refused only as an
\* error (applyResults, check_in_ticket's failed call): whatever gets lost,
\* overlaps, is reloaded or sent again, that is the one way to lose a guest.
THEOREM LostScansAreErrorsHolds == Spec => []LostScansAreErrors
<1>1. Init => KnownInv
  BY DEF Init, KnownInv, Unused, Idle
<1>2. KnownInv => LostScansAreErrors
  BY DEF KnownInv, Known, LostScansAreErrors
<1> QED BY <1>1, <1>2, ShownAlways, KnownStep, PTL DEF Spec

-----------------------------------------------------------------------------
(* Admissions *)

\* The log's admissions of a ticket.
Admitted(t) == {s \in Scans : row[s] = "admitted" /\ scan[s].ticket = t}
Inside(t) == IF ticket[t] = "scanned" THEN 1 ELSE 0

LEMMA AdmittedIsFinite == \A t : IsFiniteSet(Admitted(t))
<1> TAKE t
<1>1. Admitted(t) \subseteq Scans
  BY DEF Admitted
<1> QED BY <1>1, GateAssumption, FS_Subset

LEMMA InitAdmissions == Init => AdmissionsAddUp
<1> SUFFICES ASSUME Init, NEW t \in Tickets PROVE Cardinality(Admitted(t)) = undos[t] + Inside(t)
  BY DEF AdmissionsAddUp, Admitted, Inside
<1>1. Admitted(t) = {}
  BY DEF Init, Admitted
<1>2. undos[t] = 0 /\ Inside(t) = 0
  BY DEF Init, Inside
<1> QED BY <1>1, <1>2, FS_EmptySet

LEMMA AdmissionsStep == ShownInv /\ AdmissionsAddUp /\ [Next]_vars => AdmissionsAddUp'
<1> SUFFICES ASSUME ShownInv, AdmissionsAddUp, [Next]_vars, NEW t \in Tickets
             PROVE Cardinality(Admitted(t)') = undos'[t] + Inside(t)'
  BY DEF AdmissionsAddUp, Admitted, Inside
<1>a. LogShapes /\ TakenOK /\ ShownOK
  BY DEF ShownInv, Shapes
<1>b. Cardinality(Admitted(t)) = undos[t] + Inside(t)
  BY DEF AdmissionsAddUp, Admitted, Inside
<1>c. undos[t] \in Nat /\ Inside(t) \in {0, 1}
  BY <1>a DEF LogShapes, Inside
<1>1. ASSUME NEW d \in Devices, NEW v \in Tickets, NEW s \in Scans, Submit(d, v, s)
      PROVE Cardinality(Admitted(t)') = undos'[t] + Inside(t)'
  <2>1. UNCHANGED <<row, ticket, undos>> /\ scan[s] = NoScan /\ \A u \in Scans \ {s} : scan'[u] = scan[u]
    BY <1>1, <1>a DEF Submit, dbVars, LogShapes
  <2>2. row[s] = "none"
    BY <2>1, <1>a DEF TakenOK
  <2>3. Admitted(t)' = Admitted(t)
    BY <2>1, <2>2 DEF Admitted
  <2> QED BY <2>1, <2>3, <1>b DEF Inside
<1>2. ASSUME NEW r \in Requests, NEW s \in Scans, CheckIn(r, s)
      PROVE Cardinality(Admitted(t)') = undos'[t] + Inside(t)'
  <2> DEFINE v == scan[s].ticket
  <2>1. UNCHANGED <<undos, scan>> /\ s \in req[r].scans
    BY <1>2 DEF CheckIn, dbVars
  <2>2. scan[s] # NoScan /\ v \in Tickets
    BY <1>a, <2>1 DEF TakenOK, LogShapes
  <2>3. CASE Decision(v) = "admitted" /\ row[s] = "none"
    <3>1. row' = [row EXCEPT ![s] = "admitted"] /\ ticket' = [ticket EXCEPT ![v] = "scanned"]
      BY <1>2, <2>3 DEF CheckIn
    <3>2. ticket[v] = "valid"
      BY <2>2, <2>3, <1>a DEF Decision, LogShapes
    <3>3. CASE v = t
      <4>1. Admitted(t)' = Admitted(t) \cup {s} /\ s \notin Admitted(t)
        BY <3>1, <3>3, <2>1, <2>3, <1>a DEF Admitted, LogShapes
      <4>2. Cardinality(Admitted(t)') = Cardinality(Admitted(t)) + 1
        BY <4>1, AdmittedIsFinite, FS_AddElement
      <4>3. Inside(t) = 0 /\ Inside(t)' = 1
        BY <3>1, <3>2, <3>3, <1>a DEF Inside, LogShapes
      <4> QED BY <4>2, <4>3, <2>1, <1>b, <1>c
    <3>4. CASE v # t
      <4>1. Admitted(t)' = Admitted(t) /\ Inside(t)' = Inside(t)
        BY <3>1, <3>4, <2>1, <2>3, <1>a DEF Admitted, Inside, LogShapes
      <4> QED BY <4>1, <2>1, <1>b
    <3> QED BY <3>3, <3>4
  <2>4. CASE ~ (Decision(v) = "admitted" /\ row[s] = "none")
    <3>1. \/ UNCHANGED <<row, ticket>>
          \/ /\ row[s] = "none" /\ row' = [row EXCEPT ![s] = "duplicate"]
             /\ ticket' = [ticket EXCEPT ![v] = @]
      <4>1. CASE Decision(v) \in {"admitted", "duplicate"} /\ row[s] # "none"
        BY <1>2, <4>1 DEF CheckIn, dbVars
      <4>2. CASE Decision(v) = "duplicate" /\ row[s] = "none"
        BY <1>2, <4>2 DEF CheckIn
      <4>3. CASE Decision(v) \notin {"admitted", "duplicate"}
        <5>1. row' = [row EXCEPT ![s] = @] /\ ticket' = [ticket EXCEPT ![v] = @]
          BY <1>2, <4>3 DEF CheckIn
        <5> QED BY <5>1, <1>a DEF LogShapes
      <4> QED BY <2>4, <4>1, <4>2, <4>3
    <3>2. Admitted(t)' = Admitted(t) /\ Inside(t)' = Inside(t)
      BY <3>1, <2>1, <1>a DEF Admitted, Inside, LogShapes
    <3> QED BY <3>2, <2>1, <1>b
  <2> QED BY <2>3, <2>4
<1>3. ASSUME NEW s \in Scans, Undo(s) PROVE Cardinality(Admitted(t)') = undos'[t] + Inside(t)'
  <2> DEFINE v == scan[s].ticket
  <2>1. UNCHANGED <<row, scan>> /\ ticket[v] = "scanned"
        /\ ticket' = [ticket EXCEPT ![v] = "valid"] /\ undos' = [undos EXCEPT ![v] = @ + 1]
    BY <1>3 DEF Undo
  <2>2. Admitted(t)' = Admitted(t)
    BY <2>1 DEF Admitted
  <2>3. undos'[t] + Inside(t)' = undos[t] + Inside(t)
    BY <2>1, <1>a DEF Inside, LogShapes
  <2> QED BY <2>2, <2>3, <1>b
<1>4. ASSUME NEW v \in Tickets, VoidTicket(v) PROVE Cardinality(Admitted(t)') = undos'[t] + Inside(t)'
  <2>1. UNCHANGED <<row, undos, scan>> /\ ticket[v] = "valid" /\ ticket' = [ticket EXCEPT ![v] = "void"]
    BY <1>4 DEF VoidTicket
  <2>2. Admitted(t)' = Admitted(t) /\ Inside(t)' = Inside(t)
    BY <2>1, <1>a DEF Admitted, Inside, LogShapes
  <2> QED BY <2>1, <2>2, <1>b
<1>5. CASE UNCHANGED <<row, ticket, undos, scan>>
  <2>1. Admitted(t)' = Admitted(t) /\ Inside(t)' = Inside(t)
    BY <1>5 DEF Admitted, Inside
  <2> QED BY <1>5, <2>1, <1>b
<1>6. ASSUME NEW r \in Requests, TakeAnswer(r) \/ Fail(r) \/ SignedOut(r) \/ Forget(r)
      PROVE UNCHANGED <<row, ticket, undos, scan>>
  BY <1>6 DEF TakeAnswer, Fail, SignedOut, Forget, dbVars
<1>7. ASSUME NEW r \in Requests, NEW s \in Scans, Lookup(r, s) \/ DbError(r, s)
      PROVE UNCHANGED <<row, ticket, undos, scan>>
  BY <1>7 DEF Lookup, DbError, dbVars
<1>8. ASSUME NEW d \in Devices, Reload(d) \/ \E r \in Requests : Sync(d, r)
      PROVE UNCHANGED <<row, ticket, undos, scan>>
  BY <1>8 DEF Sync, Reload, dbVars
<1>9. ASSUME SetLock \/ UNCHANGED vars PROVE UNCHANGED <<row, ticket, undos, scan>>
  BY <1>9 DEF SetLock, vars, dbVars
<1>10. \/ \E d \in Devices, v \in Tickets, s \in Scans : Submit(d, v, s)
       \/ \E r \in Requests, s \in Scans : CheckIn(r, s)
       \/ \E s \in Scans : Undo(s)
       \/ \E v \in Tickets : VoidTicket(v)
       \/ UNCHANGED <<row, ticket, undos, scan>>
  BY <1>6, <1>7, <1>8, <1>9 DEF Next, Serve
<1> QED BY <1>1, <1>2, <1>3, <1>4, <1>5, <1>10

\* A ticket is admitted once: the log has one more admission than undo for a
\* ticket that is in (check_in_ticket, undo_check_in), however often, late or
\* twice its scans arrive.
THEOREM AdmissionsAddUpHolds == Spec => []AdmissionsAddUp
BY InitAdmissions, AdmissionsStep, ShownAlways, PTL DEF Spec
=============================================================================
