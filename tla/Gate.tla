-------------------------------- MODULE Gate --------------------------------
(***************************************************************************)
(* The door: tablets that scan tickets, keep every scan in a queue of      *)
(* their own (memory, and a copy in IndexedDB), upload it when they can,   *)
(* and the check-in functions of the database.  Requests and answers get   *)
(* lost, tablets are reloaded, tokens expire, and a request the tablet has *)
(* given up may still be running.                                          *)
(*                                                                         *)
(* Codes for another event, and forged ones, are refused before anything   *)
(* is queued and are left out; so is the pruning of settled records.  A    *)
(* scan and its first write to IndexedDB are one step, and so is an undo.  *)
(***************************************************************************)
EXTENDS Naturals, FiniteSets

CONSTANTS
    Devices, Tickets,
    Scans,      \* client scan ids
    Requests,   \* requests that are under way at a time
    BatchSize,  \* BATCH_SIZE
    MaxFaults   \* lost calls, reloads, expired tokens and database errors

ASSUME GateAssumption ==
    /\ BatchSize \in Nat \ {0} /\ MaxFaults \in Nat
    /\ IsFiniteSet(Scans) /\ Scans \subseteq Nat

VARIABLES
    ticket,   \* tickets.status: valid, scanned, void
    row,      \* scans.result of each client scan id, "none": no row
    undos,    \* 'undone' rows of each ticket
    locked,   \* scanner_is_locked
    scan,     \* what each client scan id stands for; NoScan: not used yet
    taken,    \* how many scans were taken: the order of occurredAt
    mem,      \* state and result of each record in its device's memory
    kept,     \* the same, in the device's IndexedDB
    req,      \* the requests under way
    faults

dbVars == <<ticket, row, undos, locked>>
vars == <<dbVars, scan, taken, mem, kept, req, faults>>

NoScan == [device |-> "none", ticket |-> "none", at |-> 0]
Unused == [state |-> "none", result |-> "none"]
Queued == [state |-> "queued", result |-> "none"]
Sending == [state |-> "sending", result |-> "none"]
Done(result) == [state |-> "done", result |-> result]

\* A request: who waits for it, the scans in it, and how far the server is with
\* each: "todo", "missed" (not seen before), or its result.
Idle == [kind |-> "idle", device |-> "none", scans |-> {}, waiting |-> FALSE,
         answer |-> [s \in Scans |-> "none"]]

Request(kind, d, S) ==
    [kind |-> kind, device |-> d, scans |-> S, waiting |-> TRUE,
     answer |-> [s \in Scans |-> IF s \in S THEN "todo" ELSE "none"]]

Init ==
    /\ ticket = [t \in Tickets |-> "valid"]
    /\ row = [s \in Scans |-> "none"]
    /\ undos = [t \in Tickets |-> 0]
    /\ locked = FALSE
    /\ scan = [s \in Scans |-> NoScan] /\ taken = 0
    /\ mem = [s \in Scans |-> Unused] /\ kept = [s \in Scans |-> Unused]
    /\ req = [r \in Requests |-> Idle]
    /\ faults = 0

ScansOf(d) == {s \in Scans : scan[s].device = d}

-----------------------------------------------------------------------------
(* The tablet *)

\* submit: the record is written before anything is sent; online, /scan/verify
\* is asked at once.
Submit(d, t, s) ==
    /\ scan[s] = NoScan
    /\ \A u \in Scans : scan[u] = NoScan => s <= u
    /\ taken' = taken + 1
    /\ scan' = [scan EXCEPT ![s] = [device |-> d, ticket |-> t, at |-> taken']]
    /\ kept' = [kept EXCEPT ![s] = Queued]
    /\ \/ mem' = [mem EXCEPT ![s] = Queued] /\ UNCHANGED req
       \/ \E r \in Requests :
             /\ req[r] = Idle
             /\ mem' = [mem EXCEPT ![s] = Sending]
             /\ req' = [req EXCEPT ![r] = Request("verify", d, {s})]
    /\ UNCHANGED <<dbVars, faults>>

\* Mutation: nextBatch leaves out what is marked as being sent.
Pending_QueuedOnly(s) == mem[s].state = "queued"

\* isPending.
Pending(s) == mem[s].state \in {"queued", "sending"}

\* nextBatch: the oldest pending ones.
NextBatch(d) ==
    LET pending == {s \in ScansOf(d) : Pending(s)}
    IN  {s \in pending : Cardinality({u \in pending : scan[u].at < scan[s].at}) < BatchSize}

Syncing(d) == \E r \in Requests : req[r].kind = "sync" /\ req[r].device = d /\ req[r].waiting

\* sync: one upload of a device at a time.
Sync(d, r) ==
    /\ ~ Syncing(d) /\ req[r] = Idle /\ NextBatch(d) # {}
    /\ mem' = [s \in Scans |-> IF s \in NextBatch(d) THEN Sending ELSE mem[s]]
    /\ req' = [req EXCEPT ![r] = Request("sync", d, NextBatch(d))]
    /\ UNCHANGED <<dbVars, scan, taken, kept, faults>>

Answered(r) == \A s \in req[r].scans : req[r].answer[s] \notin {"todo", "missed"}

\* applyResults: pending records take their answers, and what is marked as being
\* sent without one goes back into the queue.
Applied(r, s) ==
    IF ~ Pending(s) THEN mem[s]
    ELSE IF s \in req[r].scans THEN Done(req[r].answer[s])
    ELSE IF scan[s].device = req[r].device THEN Queued ELSE mem[s]

\* The answer arrives.  A locked gate answers /scan/verify with a 403, which
\* settles the record whatever its state.
TakeAnswer(r) ==
    /\ req[r].waiting /\ Answered(r)
    /\ IF req[r].kind = "verify" /\ \E s \in req[r].scans : req[r].answer[s] = "scanner_locked"
       THEN /\ mem' = [s \in Scans |-> IF s \in req[r].scans THEN Done("scanner_locked") ELSE mem[s]]
            /\ kept' = [s \in Scans |-> IF s \in req[r].scans THEN Done("scanner_locked") ELSE kept[s]]
       ELSE /\ mem' = [s \in Scans |-> Applied(r, s)]
            /\ kept' = [s \in Scans |-> IF mem'[s] # mem[s] \/ (req[r].kind = "verify" /\ s \in req[r].scans)
                                        THEN mem'[s] ELSE kept[s]]
    /\ req' = [req EXCEPT ![r] = Idle]
    /\ UNCHANGED <<dbVars, scan, taken, faults>>

\* What a failed upload leaves of a record it carried.
PutBack(s) == Queued

\* The upload fails or times out; the server may still be at it.
Fail(r) ==
    LET d == req[r].device IN
    /\ req[r].waiting /\ faults < MaxFaults
    /\ mem' = [s \in Scans |->
                 IF req[r].kind = "verify" /\ s \in req[r].scans THEN PutBack(s)
                 ELSE IF req[r].kind = "sync" /\ scan[s].device = d /\ mem[s].state = "sending"
                 THEN PutBack(s) ELSE mem[s]]
    /\ kept' = [s \in Scans |-> IF s \in req[r].scans THEN PutBack(s) ELSE kept[s]]
    /\ req' = [req EXCEPT ![r].waiting = FALSE]
    /\ faults' = faults + 1
    /\ UNCHANGED <<dbVars, scan, taken>>

\* The token has expired (GateAuthError): /scan/verify leaves the record as it
\* is.  The device signs in again.
SignedOut(r) ==
    /\ req[r].kind = "verify" /\ req[r].waiting /\ faults < MaxFaults
    /\ \A s \in Scans : req[r].answer[s] \in {"todo", "none"}
    /\ req' = [req EXCEPT ![r] = Idle]
    /\ faults' = faults + 1
    /\ UNCHANGED <<dbVars, scan, taken, mem, kept>>

\* The page is closed or reloaded: memory is read from IndexedDB again.
Reload(d) ==
    /\ ScansOf(d) # {} /\ faults < MaxFaults
    /\ mem' = [s \in Scans |-> IF s \in ScansOf(d) THEN kept[s] ELSE mem[s]]
    /\ req' = [r \in Requests |-> IF req[r].device = d THEN [req[r] EXCEPT !.waiting = FALSE] ELSE req[r]]
    /\ faults' = faults + 1
    /\ UNCHANGED <<dbVars, scan, taken, kept>>

\* A request nobody waits for ends, or never arrived.
Forget(r) ==
    /\ req[r] # Idle /\ ~ req[r].waiting
    /\ req' = [req EXCEPT ![r] = Idle]
    /\ UNCHANGED <<dbVars, scan, taken, mem, kept, faults>>

-----------------------------------------------------------------------------
(* The database *)

Answer(r, s, result) == req' = [req EXCEPT ![r].answer[s] = result]

\* syncBatch: scans of one code in queue order, others side by side.
Turn(r, s) ==
    \A u \in req[r].scans :
        scan[u].ticket = scan[s].ticket /\ scan[u].at < scan[s].at
            => req[r].answer[u] \notin {"todo", "missed"}

\* Mutation: a scan seen before is answered with a yes.
Replayed_Yes(s) == "admitted"

\* What a scan seen before is answered with.
Replayed(s) == row[s]

\* check_in_ticket: has this scan been recorded?
Lookup(r, s) ==
    /\ s \in req[r].scans /\ req[r].answer[s] = "todo" /\ Turn(r, s)
    /\ Answer(r, s, IF row[s] # "none" THEN Replayed(s) ELSE "missed")
    /\ UNCHANGED <<dbVars, scan, taken, mem, kept, faults>>

\* Mutation: a used ticket is as good as a valid one.
Decision_UsedIsValid(t) ==
    IF locked THEN "scanner_locked" ELSE IF ticket[t] = "void" THEN "void" ELSE "admitted"

\* What the ticket's row, once locked, leads to.
Decision(t) ==
    CASE locked                -> "scanner_locked"
      [] ~ locked /\ ticket[t] = "void"    -> "void"
      [] ~ locked /\ ticket[t] = "scanned" -> "duplicate"
      [] OTHER                 -> "admitted"

\* check_in_ticket from the ticket's row lock on.  client_scan_id is unique: the
\* second of two calls for one scan fails if it got past Lookup.
CheckIn(r, s) ==
    LET t == scan[s].ticket
        d == Decision(t)
    IN
    /\ s \in req[r].scans /\ req[r].answer[s] = "missed"
    /\ IF d \in {"admitted", "duplicate"} /\ row[s] # "none"
       THEN Answer(r, s, "error") /\ UNCHANGED dbVars
       ELSE /\ Answer(r, s, d)
            /\ ticket' = [ticket EXCEPT ![t] = IF d = "admitted" THEN "scanned" ELSE @]
            /\ row' = [row EXCEPT ![s] = IF d \in {"admitted", "duplicate"} THEN d ELSE @]
            /\ UNCHANGED <<undos, locked>>
    /\ UNCHANGED <<scan, taken, mem, kept, faults>>

\* The call fails (a statement time-out, no connection): scan() makes it a result.
DbError(r, s) ==
    /\ faults < MaxFaults
    /\ s \in req[r].scans /\ req[r].answer[s] \in {"todo", "missed"} /\ Turn(r, s)
    /\ Answer(r, s, "error")
    /\ faults' = faults + 1
    /\ UNCHANGED <<dbVars, scan, taken, mem, kept>>

\* undo and undo_check_in; the answer may get lost.
Undo(s) ==
    LET t == scan[s].ticket IN
    /\ mem[s] = Done("admitted") /\ ticket[t] = "scanned"
    /\ ticket' = [ticket EXCEPT ![t] = "valid"]
    /\ undos' = [undos EXCEPT ![t] = @ + 1]
    /\ \/ /\ mem' = [mem EXCEPT ![s] = Done("undone")]
          /\ kept' = [kept EXCEPT ![s] = Done("undone")]
          /\ UNCHANGED faults
       \/ faults < MaxFaults /\ faults' = faults + 1 /\ UNCHANGED <<mem, kept>>
    /\ UNCHANGED <<row, locked, scan, taken, req>>

\* A full refund or a lost dispute: tickets not used become void.
VoidTicket(t) ==
    /\ ticket[t] = "valid"
    /\ ticket' = [ticket EXCEPT ![t] = "void"]
    /\ UNCHANGED <<row, undos, locked, scan, taken, mem, kept, req, faults>>

\* An invoice falls due, or is settled, or the admin overrides.
SetLock ==
    /\ locked' = ~ locked
    /\ UNCHANGED <<ticket, row, undos, scan, taken, mem, kept, req, faults>>

-----------------------------------------------------------------------------
Serve(r) == \E s \in Scans : Lookup(r, s) \/ CheckIn(r, s)

Next ==
    \/ \E d \in Devices, t \in Tickets, s \in Scans : Submit(d, t, s)
    \/ \E d \in Devices, r \in Requests : Sync(d, r)
    \/ \E r \in Requests : TakeAnswer(r) \/ Fail(r) \/ SignedOut(r) \/ Forget(r) \/ Serve(r)
    \/ \E r \in Requests, s \in Scans : DbError(r, s)
    \/ \E d \in Devices : Reload(d)
    \/ \E s \in Scans : Undo(s)
    \/ \E t \in Tickets : VoidTicket(t)
    \/ SetLock

Spec == Init /\ [][Next]_vars

\* A device with something pending tries again every RETRY_MS, and what has been
\* sent is served and answered unless it fails.
Fairness ==
    /\ \A d \in Devices : SF_vars(\E r \in Requests : Sync(d, r))
    /\ \A r \in Requests : WF_vars(TakeAnswer(r) \/ Forget(r)) /\ WF_vars(Serve(r))

FairSpec == Spec /\ Fairness

-----------------------------------------------------------------------------
(* Properties *)

TypeOK ==
    /\ ticket \in [Tickets -> {"valid", "scanned", "void"}]
    /\ row \in [Scans -> {"none", "admitted", "duplicate"}]
    /\ undos \in [Tickets -> Nat] /\ locked \in BOOLEAN
    /\ taken \in 0..Cardinality(Scans) /\ faults \in 0..MaxFaults
    /\ \A s \in Scans : scan[s] = NoScan \/ (scan[s].device \in Devices /\ scan[s].ticket \in Tickets)
    /\ \A s \in Scans : mem[s].state \in {"none", "queued", "sending", "done"}
    /\ \A s \in Scans : kept[s].state \in {"none", "queued", "done"}
    /\ \A r \in Requests : req[r].kind \in {"idle", "verify", "sync"}

\* "Admits a ticket exactly once": however many tablets, retries and abandoned
\* requests there are, the log has one more admission than undo for a ticket that
\* is in, and as many for one that is not.
AdmissionsAddUp ==
    \A t \in Tickets :
        Cardinality({s \in Scans : row[s] = "admitted" /\ scan[s].ticket = t})
            = undos[t] + (IF ticket[t] = "scanned" THEN 1 ELSE 0)

\* What a tablet shows of a scan is what the log has of it: nobody is let in, or
\* turned away as used, on an answer to something else.
ShownIsRecorded ==
    \A s \in Scans : mem[s].result \in {"admitted", "duplicate"} => row[s] = mem[s].result

\* "A queue in the middle that never loses one": an upload files only scans that
\* the server has recorded or refused.  (Asked at once, the operator at least sees
\* the error and can scan again; the guest of an upload is long inside.)
UploadsLoseNoScan ==
    [][\A r \in Requests : TakeAnswer(r) /\ req[r].kind = "sync" =>
          \A s \in req[r].scans : kept'[s].state = "done" =>
              row[s] # "none" \/ kept'[s].result \in {"void", "scanner_locked"}]_vars

\* A scan that a tablet has settled, and that the server has neither recorded nor
\* refused, is settled as an error: nothing else gets lost, in an upload or asked
\* at once, in memory or in IndexedDB.
LostScansAreErrors ==
    \A s \in Scans : \A record \in {mem[s], kept[s]} :
        record.state = "done" /\ record.result # "error" =>
            row[s] # "none" \/ record.result \in {"void", "scanner_locked"}

\* "Retried, not stranded": every scan that was taken is some day decided.
EveryScanIsDecided ==
    \A s \in Scans : scan[s] # NoScan ~> mem[s].state = "done"
=============================================================================
