---------------------------- MODULE Generations -----------------------------
(***************************************************************************)
(* The daily allowance of AI drafts: a generation is reserved, the model   *)
(* is called, and only then it counts or is given back.  A reservation     *)
(* whose worker has died stops counting after a while; so does one whose   *)
(* worker is only slow.  Reservations of one organizer wait for each       *)
(* other's row lock: each is one step.                                     *)
(***************************************************************************)
EXTENDS Integers, FiniteSets

CONSTANTS
    Organizers,
    Drafts,      \* request ids, each the row of one generation
    Limit,       \* p_limit
    GlobalCap,   \* p_global_cap
    Window, Stale,
    MaxHours     \* bound: the clock

ASSUME GenerationsAssumption ==
    /\ IsFiniteSet(Drafts)
    /\ Limit \in Nat \ {0} /\ GlobalCap \in Nat
    /\ Stale \in Nat \ {0} /\ Window \in Nat /\ Stale < Window /\ MaxHours \in Nat

VARIABLES
    hour,
    draft,    \* ai_generations: organizer, status and created_at
    tardy     \* generations that succeeded after they had stopped counting

draftVars == <<hour, draft, tardy>>

NoDraft == [of |-> "nobody", is |-> "none", at |-> 0]

GenerationsInit ==
    /\ hour = 0
    /\ draft = [d \in Drafts |-> NoDraft]
    /\ tardy = {}

\* Rows younger than an interval.
Since(span) == {d \in Drafts : draft[d].at > hour - span}

\* v_succeeded.
Succeeded(o) == {d \in Since(Window) : draft[d].is = "succeeded" /\ draft[d].of = o}

\* Mutation: what is still being written is not counted.
InFlight_None(o) == {d \in Drafts : draft[d].of = o /\ draft[d].is = "none"}

\* v_inflight.
InFlight(o) == {d \in Since(Stale) : draft[d].is = "reserved" /\ draft[d].of = o}

\* ai_reserve_generation: a request that is repeated, one over the limit and one
\* over the platform's ceiling change nothing.
Reserve(o, d) ==
    /\ draft[d] = NoDraft
    /\ Cardinality(Succeeded(o)) + Cardinality(InFlight(o)) < Limit
    /\ Cardinality(UNION {Succeeded(p) : p \in Organizers}) < GlobalCap
    /\ draft' = [draft EXCEPT ![d] = [of |-> o, is |-> "reserved", at |-> hour]]
    /\ UNCHANGED <<hour, tardy>>

\* The model answered, or did not: ai_finish_generation, WHERE status =
\* 'reserved'.
FinishDraft(d, verdict) ==
    /\ draft[d].is = "reserved"
    /\ draft' = [draft EXCEPT ![d].is = verdict]
    /\ tardy' = IF verdict = "succeeded" /\ d \notin Since(Stale) THEN tardy \cup {d} ELSE tardy
    /\ UNCHANGED hour

PassTime ==
    /\ hour < MaxHours
    /\ hour' = hour + 1
    /\ UNCHANGED <<draft, tardy>>

GenerationsNext ==
    \/ \E o \in Organizers, d \in Drafts : Reserve(o, d)
    \/ \E d \in Drafts, verdict \in {"succeeded", "released"} : FinishDraft(d, verdict)
    \/ PassTime

GenerationsSpec == GenerationsInit /\ [][GenerationsNext]_draftVars

-----------------------------------------------------------------------------
(* Properties *)

\* "Each organizer gets two generations per rolling 24 hours": of the drafts an
\* organizer got in any window no more than the limit were finished in time,
\* and with those still being written they are no more either.
AllowanceHolds ==
    \A o \in Organizers :
        Cardinality(Succeeded(o) \ tardy) + Cardinality(InFlight(o)) <= Limit
=============================================================================
