------------------------------- MODULE Leases -------------------------------
(***************************************************************************)
(* A scheduled job on several API workers: the lease that picks the one to *)
(* run it.  The timer starts the job again whether or not the worker's     *)
(* earlier run is over; the lease is in the name of the worker.            *)
(***************************************************************************)
EXTENDS Naturals, FiniteSets

CONSTANTS
    Workers,    \* API processes, each with its own HOLDER
    Slots,      \* names for the runs a worker may have at once
    NoWorker

ASSUME LeaseAssumption == NoWorker \notin Workers

VARIABLES
    lease,     \* the job_leases row: none, live, or over (locked_until has passed)
    holder,    \* job_leases.holder
    running,   \* runs of the job, <<worker, slot>>
    outlived,  \* those whose lease has ended before them
    dead,      \* workers that have died
    doubled    \* a worker has had two runs at once

leaseVars == <<lease, holder, running, outlived, dead, doubled>>

LeaseInit ==
    /\ lease = "none" /\ holder = NoWorker
    /\ running = {} /\ outlived = {} /\ dead = {}
    /\ doubled = FALSE

RunsOf(w) == {r \in running : r[1] = w}

\* take_job_lease wins: the INSERT of the first run, or the UPDATE of an expired
\* row.
Takes == lease # "live"

\* A tick of the timer: withLeaderLock runs the job if it wins the lease.
TickJob(w, k) ==
    /\ w \notin dead /\ <<w, k>> \notin running
    /\ Takes
    /\ lease' = "live" /\ holder' = w
    /\ running' = running \cup {<<w, k>>}
    /\ doubled' = (doubled \/ RunsOf(w) # {})
    /\ UNCHANGED <<outlived, dead>>

\* Mutation: whoever finishes releases the lease.
MayRelease_Anyone(w) == TRUE

\* release_job_lease: only in the holder's name.
MayRelease(w) == holder = w

\* The run ends, and its finally block releases the lease.
Finish(w, k) ==
    /\ <<w, k>> \in running
    /\ running' = running \ {<<w, k>>}
    /\ outlived' = outlived \ {<<w, k>>}
    /\ lease' = IF MayRelease(w) THEN "over" ELSE lease
    /\ UNCHANGED <<holder, dead, doubled>>

\* Mutation: a lease that ends only when it is given back.
LapseLease_Never == FALSE /\ UNCHANGED leaseVars

\* locked_until passes.
LapseLease ==
    /\ lease = "live"
    /\ lease' = "over"
    /\ outlived' = running
    /\ UNCHANGED <<holder, running, dead, doubled>>

\* A worker dies with its runs; another one is left.
Die(w) ==
    /\ w \notin dead /\ \E o \in Workers \ {w} : o \notin dead
    /\ dead' = dead \cup {w}
    /\ running' = running \ RunsOf(w)
    /\ outlived' = outlived \ RunsOf(w)
    /\ UNCHANGED <<lease, holder, doubled>>

LeaseNext ==
    \/ \E w \in Workers, k \in Slots : TickJob(w, k) \/ Finish(w, k)
    \/ \E w \in Workers : Die(w)
    \/ LapseLease

LeaseSpec == LeaseInit /\ [][LeaseNext]_leaseVars

\* Timers tick in every worker that lives, leases end and a run does some day.
LeaseFairness ==
    /\ WF_leaseVars(LapseLease)
    /\ \A w \in Workers, k \in Slots : WF_leaseVars(Finish(w, k))
    /\ SF_leaseVars(\E w \in Workers, k \in Slots : TickJob(w, k))

FairLeaseSpec == LeaseSpec /\ LeaseFairness

-----------------------------------------------------------------------------
(* Properties *)

LeaseTypeOK ==
    /\ lease \in {"none", "live", "over"} /\ holder \in Workers \cup {NoWorker}
    /\ running \subseteq Workers \X Slots /\ outlived \subseteq running
    /\ dead \subseteq Workers /\ doubled \in BOOLEAN

InLease == running \ outlived

\* "A Postgres ADVISORY LOCK makes exactly one worker win" says the head of
\* scheduler.js, and the lease that took its place is to: of the runs that have not
\* outlived their lease there is one at most, whatever slow runs end beside it.
\* As long as no worker has two runs at once.
OneLeader == ~ doubled => \A r, s \in InLease : r = s

\* "A worker that dies mid-job does not stop that job forever": once started the
\* job is started again and again, whoever dies with the lease.
JobNeverStops == (lease = "live" ~> lease = "over") /\ (lease = "over" ~> lease = "live")
=============================================================================
