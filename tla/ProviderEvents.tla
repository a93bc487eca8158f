--------------------------- MODULE ProviderEvents ---------------------------
(***************************************************************************)
(* The middleware webhooks of one channel listing (modules/middleware):    *)
(* intakeEvent persists a provider event before it is acknowledged, and    *)
(* processEvent turns ORDER_CREATED and ORDER_CANCELLED events into orders *)
(* and cancellations.                                                      *)
(*                                                                         *)
(* processEvent runs without a lock or a transaction of its own: it reads  *)
(* the row once, and every later write is an unconditional update by id.   *)
(* Each await is a step, so a call works on a row that others may have     *)
(* changed.  A call that processed a create goes on, nested, with a cancel *)
(* that was waiting for it; parent remembers the create meanwhile.         *)
(***************************************************************************)
EXTENDS Integers, FiniteSets

CONSTANTS
    Orders,                 \* external_refs of the listing
    Creates, Cancels,       \* provider event ids, by kind
    RefOf,                  \* the external_ref an event is about
    Processors,             \* concurrent calls of processEvent
    NoEvent,
    MaxProcessingAttempts,  \* MAX_PROCESSING_ATTEMPTS
    MaxReprocess,           \* bound: reprocess requests
    MaxRestarts             \* bound: restarts of the API process

Events == Creates \cup Cancels

ASSUME ProviderAssumptions ==
    /\ Creates \cap Cancels = {} /\ IsFiniteSet(Events)
    /\ RefOf \in [Events -> Orders]
    /\ NoEvent \notin Events
    /\ MaxProcessingAttempts \in Nat \ {0} 
    /\ MaxReprocess \in Nat /\ MaxRestarts \in Nat

VARIABLES
    enabled,    \* operational flag integration.middleware_processing
    mapped,     \* the merchant resolves to exactly one usable listing
    state,      \* provider_event.state; "ABSENT" before the insert
    attempts,   \* provider_event.attempts
    cooling,    \* next_attempt_at is in the future
    linked,     \* provider_event.order_id is set
    arrival,    \* received_at, as a position
    due,        \* events whose fire-and-forget processing has not started
    stage,      \* the order of a reference, as orders/service.ts keeps it
    pc, event, base, cool, force, parent,   \* a processEvent call: place, row, what it read
                                            \* of attempts and next_attempt_at (still in the
                                            \* future), options, create it is nested in
    reprocessed, restarts

rowVars == <<state, attempts, cooling, linked, arrival>>
callVars == <<pc, event, base, cool, force, parent>>
worldVars == <<reprocessed, restarts>>
vars == <<enabled, mapped, rowVars, due, stage, callVars, worldVars>>

EventStates == {"ABSENT", "PENDING", "PROCESSED", "MAPPING_REQUIRED",
                "WAITING_DEPENDENCY", "FAILED", "QUARANTINED"}
NoParent == [event |-> NoEvent, base |-> 0]

TypeOK ==
    /\ enabled \in BOOLEAN /\ mapped \in BOOLEAN
    /\ state \in [Events -> EventStates]
    /\ attempts \in [Events -> Nat]
    /\ cooling \in [Events -> BOOLEAN]
    /\ linked \in [Events -> BOOLEAN]
    /\ arrival \in [Events -> Nat]
    /\ due \subseteq Events
    /\ stage \in [Orders -> {"ABSENT", "OPEN", "COMPLETED", "CANCELLED"}]
    /\ pc \in [Processors -> {"idle", "load", "gate", "create", "lookup", "cancel", "done",
                              "unmapped", "failing", "waiting", "follow"}]
    /\ event \in [Processors -> Events \cup {NoEvent}]
    /\ base \in [Processors -> Nat]
    /\ cool \in [Processors -> BOOLEAN]
    /\ force \in [Processors -> BOOLEAN]
    /\ parent \in [Processors -> [event : Creates \cup {NoEvent}, base : Nat]]
    /\ reprocessed \in 0..MaxReprocess /\ restarts \in 0..MaxRestarts

Init ==
    /\ enabled \in BOOLEAN /\ mapped \in BOOLEAN
    /\ state = [e \in Events |-> "ABSENT"]
    /\ attempts = [e \in Events |-> 0]
    /\ cooling = [e \in Events |-> FALSE]
    /\ linked = [e \in Events |-> FALSE]
    /\ arrival = [e \in Events |-> 0]
    /\ due = {}
    /\ stage = [o \in Orders |-> "ABSENT"]
    /\ pc = [p \in Processors |-> "idle"]
    /\ event = [p \in Processors |-> NoEvent]
    /\ base = [p \in Processors |-> 0]
    /\ cool = [p \in Processors |-> FALSE]
    /\ force = [p \in Processors |-> FALSE]
    /\ parent = [p \in Processors |-> NoParent]
    /\ reprocessed = 0 /\ restarts = 0

-----------------------------------------------------------------------------
(* Intake                                                                  *)

Known == {e \in Events : state[e] # "ABSENT"}

\* One transaction under the row lock.  A replay with the same raw hash writes
\* nothing; with another hash it quarantines the row, whatever its state.
IntakeEvent(e, sameHash) ==
    /\ \/ /\ state[e] = "ABSENT"
          /\ state' = [state EXCEPT ![e] = "PENDING"]
          /\ arrival' = [arrival EXCEPT ![e] = Cardinality(Known) + 1]
          /\ due' = due \cup {e}
       \/ /\ state[e] # "ABSENT" /\ ~sameHash
          /\ state' = [state EXCEPT ![e] = "QUARANTINED"]
          /\ UNCHANGED <<arrival, due>>
    /\ UNCHANGED <<enabled, mapped, attempts, cooling, linked, stage, callVars, worldVars>>

-----------------------------------------------------------------------------
(* processEvent: where a call goes next.  What it read of the backoff      *)
(* window is used once, at the gate.                                       *)

Goes(p, place) ==
    /\ pc' = [pc EXCEPT ![p] = place]
    /\ cool' = [cool EXCEPT ![p] = FALSE]
    /\ UNCHANGED <<event, base, force, parent>>

Calls(p, e, forced, inside) ==
    /\ pc' = [pc EXCEPT ![p] = "load"]
    /\ event' = [event EXCEPT ![p] = e]
    /\ base' = [base EXCEPT ![p] = 0]
    /\ cool' = [cool EXCEPT ![p] = FALSE]
    /\ force' = [force EXCEPT ![p] = forced]
    /\ parent' = [parent EXCEPT ![p] = inside]

\* The call is over, and with it the create it may be nested in.
Returns(p) ==
    /\ pc' = [pc EXCEPT ![p] = "idle"]
    /\ event' = [event EXCEPT ![p] = NoEvent]
    /\ base' = [base EXCEPT ![p] = 0]
    /\ cool' = [cool EXCEPT ![p] = FALSE]
    /\ force' = [force EXCEPT ![p] = FALSE]
    /\ parent' = [parent EXCEPT ![p] = NoParent]

\* A nested call that throws lands in the create's catch block, which marks
\* the create for retry although its order exists.
Throws(p) ==
    IF parent[p].event = NoEvent THEN Returns(p)
    ELSE /\ pc' = [pc EXCEPT ![p] = "failing"]
         /\ event' = [event EXCEPT ![p] = parent[p].event]
         /\ base' = [base EXCEPT ![p] = parent[p].base]
         /\ cool' = [cool EXCEPT ![p] = FALSE]
         /\ parent' = [parent EXCEPT ![p] = NoParent]
         /\ UNCHANGED force

-----------------------------------------------------------------------------
(* processEvent: the calls                                                 *)

\* The webhook route, after it has answered.
StartProcessing(p, e) ==
    /\ pc[p] = "idle" /\ e \in due
    /\ due' = due \ {e}
    /\ Calls(p, e, FALSE, NoParent)
    /\ UNCHANGED <<enabled, mapped, rowVars, stage, worldVars>>

\* The admin endpoint.
Reprocess(p, e) ==
    /\ pc[p] = "idle" /\ state[e] # "ABSENT"
    /\ reprocessed < MaxReprocess
    /\ reprocessed' = reprocessed + 1
    /\ Calls(p, e, TRUE, NoParent)
    /\ UNCHANGED <<enabled, mapped, rowVars, due, stage, restarts>>

-----------------------------------------------------------------------------
(* processEvent: the steps of a call                                       *)

\* The one read of the row, and the early returns it decides.
LoadEvent(p) ==
    LET e == event[p] IN
    /\ pc[p] = "load"
    /\ \/ state[e] = "QUARANTINED" /\ Throws(p)
       \/ state[e] = "PROCESSED" /\ Returns(p)
       \/ state[e] = "FAILED" /\ ~force[p] /\ Returns(p)
       \/ /\ state[e] \notin {"QUARANTINED", "PROCESSED"}
          /\ state[e] = "FAILED" => force[p]
          /\ pc' = [pc EXCEPT ![p] = "gate"]
          /\ base' = [base EXCEPT ![p] = attempts[e]]
          /\ cool' = [cool EXCEPT ![p] = cooling[e]]
          /\ UNCHANGED <<event, force, parent>>
    /\ UNCHANGED <<enabled, mapped, rowVars, due, stage, worldVars>>

\* Flag, backoff window as the call read it, listing, kind.
PassGates(p) ==
    LET e == event[p] IN
    /\ pc[p] = "gate"
    /\ \/ ~enabled /\ Throws(p)
       \/ enabled /\ ~force[p] /\ cool[p] /\ Returns(p)
       \/ /\ enabled /\ (force[p] \/ ~cool[p])
          /\ Goes(p, IF ~mapped THEN "unmapped"
                     ELSE IF e \in Creates THEN "create" ELSE "lookup")
    /\ UNCHANGED <<enabled, mapped, rowVars, due, stage, worldVars>>

\* ingestOrder: idempotent on (listing, external_ref), or an error.
IngestOrder(p) ==
    LET o == RefOf[event[p]] IN
    /\ pc[p] = "create"
    /\ \/ /\ stage' = [stage EXCEPT ![o] = IF @ = "ABSENT" THEN "OPEN" ELSE @]
          /\ Goes(p, "done")
       \/ \E place \in {"unmapped", "failing"} : Goes(p, place) /\ UNCHANGED stage
    /\ UNCHANGED <<enabled, mapped, rowVars, due, worldVars>>

\* Mutant: an order that is over counts as cancelled.
AfterSloppyLookup(s) ==
    CASE s = "ABSENT" -> "waiting" [] s = "OPEN" -> "cancel" [] OTHER -> "done"
AfterLookup(s) ==
    CASE s = "ABSENT" -> "waiting" [] s = "CANCELLED" -> "done" [] OTHER -> "cancel"

\* processOrderCancelled: the read of the order.
LookUpOrder(p) ==
    /\ pc[p] = "lookup"
    /\ Goes(p, AfterLookup(stage[RefOf[event[p]]]))
    /\ UNCHANGED <<enabled, mapped, rowVars, due, stage, worldVars>>

\* cancelOrder: an error for an order that is over, and for a conflict with
\* the kitchen's own steps.
CancelOrder(p) ==
    LET o == RefOf[event[p]] IN
    /\ pc[p] = "cancel"
    /\ \/ /\ stage[o] = "OPEN"
          /\ stage' = [stage EXCEPT ![o] = "CANCELLED"]
          /\ Goes(p, "done")
       \/ Goes(p, "failing") /\ UNCHANGED stage
    /\ UNCHANGED <<enabled, mapped, rowVars, due, worldVars>>

MarkProcessed(p) ==
    LET e == event[p] IN
    /\ pc[p] = "done"
    /\ state' = [state EXCEPT ![e] = "PROCESSED"]
    /\ linked' = [linked EXCEPT ![e] = TRUE]
    /\ IF e \in Creates THEN Goes(p, "follow") ELSE Returns(p)
    /\ UNCHANGED <<enabled, mapped, attempts, cooling, arrival, due, stage, worldVars>>

\* Mutant: cancels open for retry are looked for, not the parked ones.
PendingCancels(o) ==
    {e \in Cancels : RefOf[e] = o /\ state[e] = "PENDING"}
WaitingCancels(o) ==
    {e \in Cancels : RefOf[e] = o /\ state[e] = "WAITING_DEPENDENCY"}

\* findWaitingCancelEvent: the oldest one, processed by a nested forced call.
FollowUp(p) ==
    LET waiting == WaitingCancels(RefOf[event[p]]) IN
    /\ pc[p] = "follow"
    /\ \/ waiting = {} /\ Returns(p)
       \/ \E e \in waiting :
            /\ \A f \in waiting : arrival[e] <= arrival[f]
            /\ Calls(p, e, TRUE, [event |-> event[p], base |-> base[p]])
    /\ UNCHANGED <<enabled, mapped, rowVars, due, stage, worldVars>>

MarkMappingRequired(p) ==
    /\ pc[p] = "unmapped"
    /\ state' = [state EXCEPT ![event[p]] = "MAPPING_REQUIRED"]
    /\ Returns(p)
    /\ UNCHANGED <<enabled, mapped, attempts, cooling, linked, arrival, due, stage,
                   worldVars>>

MarkWaitingDependency(p) ==
    /\ pc[p] = "waiting"
    /\ state' = [state EXCEPT ![event[p]] = "WAITING_DEPENDENCY"]
    /\ Returns(p)
    /\ UNCHANGED <<enabled, mapped, attempts, cooling, linked, arrival, due, stage,
                   worldVars>>

\* Mutant: one attempt too many.
FailedLate(n) == n > MaxProcessingAttempts
Failed(n) == n >= MaxProcessingAttempts

RetryState(n) == IF Failed(n) THEN "FAILED" ELSE "PENDING"

\* Counts from the attempts the call read.
MarkRetryOrFailed(p) ==
    LET e == event[p]
        n == base[p] + 1
    IN
    /\ pc[p] = "failing"
    /\ state' = [state EXCEPT ![e] = RetryState(n)]
    /\ attempts' = [attempts EXCEPT ![e] = n]
    /\ cooling' = [cooling EXCEPT ![e] = ~Failed(n)]
    /\ Returns(p)
    /\ UNCHANGED <<enabled, mapped, linked, arrival, due, stage, worldVars>>

-----------------------------------------------------------------------------
(* The rest of the system                                                  *)

\* The kitchen completes an order, or staff cancel it.
CloseOrder(o, s) ==
    /\ stage[o] = "OPEN" /\ s \in {"COMPLETED", "CANCELLED"}
    /\ stage' = [stage EXCEPT ![o] = s]
    /\ UNCHANGED <<enabled, mapped, rowVars, due, callVars, worldVars>>

ChangeFlag ==
    /\ enabled' = ~enabled
    /\ UNCHANGED <<mapped, rowVars, due, stage, callVars, worldVars>>

\* A listing is mapped, unmapped or made ambiguous.
ChangeMapping ==
    /\ mapped' = ~mapped
    /\ UNCHANGED <<enabled, rowVars, due, stage, callVars, worldVars>>

CoolingElapses(e) ==
    /\ cooling[e]
    /\ cooling' = [cooling EXCEPT ![e] = FALSE]
    /\ UNCHANGED <<enabled, mapped, state, attempts, linked, arrival, due, stage,
                   callVars, worldVars>>

\* The time a call read passes before its gate compares it with the clock; the
\* row may have been given another by then.
ReadElapses(p) ==
    /\ cool[p]
    /\ cool' = [cool EXCEPT ![p] = FALSE]
    /\ UNCHANGED <<enabled, mapped, rowVars, due, stage, pc, event, base, force, parent,
                   worldVars>>

\* The API process restarts: calls, and calls that were to start, are lost.
Restart ==
    /\ restarts < MaxRestarts
    /\ due # {} \/ \E p \in Processors : pc[p] # "idle"
    /\ restarts' = restarts + 1
    /\ due' = {}
    /\ pc' = [p \in Processors |-> "idle"]
    /\ event' = [p \in Processors |-> NoEvent]
    /\ base' = [p \in Processors |-> 0]
    /\ cool' = [p \in Processors |-> FALSE]
    /\ force' = [p \in Processors |-> FALSE]
    /\ parent' = [p \in Processors |-> NoParent]
    /\ UNCHANGED <<enabled, mapped, rowVars, stage, reprocessed>>

CallStep(p) ==
    \/ LoadEvent(p) \/ PassGates(p) \/ IngestOrder(p) \/ LookUpOrder(p) \/ CancelOrder(p)
    \/ MarkProcessed(p) \/ FollowUp(p) \/ MarkMappingRequired(p)
    \/ MarkWaitingDependency(p) \/ MarkRetryOrFailed(p)

Next ==
    \/ \E e \in Events, sameHash \in BOOLEAN : IntakeEvent(e, sameHash)
    \/ \E p \in Processors, e \in Events : StartProcessing(p, e) \/ Reprocess(p, e)
    \/ \E p \in Processors : CallStep(p)
    \/ \E o \in Orders, s \in {"COMPLETED", "CANCELLED"} : CloseOrder(o, s)
    \/ \E e \in Events : CoolingElapses(e)
    \/ \E p \in Processors : ReadElapses(p)
    \/ ChangeFlag \/ ChangeMapping \/ Restart

Spec == Init /\ [][Next]_vars

\* A call that has begun runs on: nothing it awaits blocks for ever.
FairSpec == Spec /\ \A p \in Processors : WF_vars(CallStep(p))

-----------------------------------------------------------------------------
(* Properties                                                              *)

\* PROCESSED tells the truth about the order: a create's order exists, a
\* cancel's order is cancelled, and the row links it, also when several calls
\* work on the same event.
ProcessedIsTrue ==
    \A e \in Events : state[e] = "PROCESSED" =>
        /\ linked[e]
        /\ stage[RefOf[e]] # "ABSENT"
        /\ e \in Cancels => stage[RefOf[e]] = "CANCELLED"

\* A row open for retry has attempts left, and a FAILED row has used them up,
\* whatever stale count a concurrent call wrote.
RetryBudget ==
    \A e \in Events :
        /\ state[e] = "PENDING" => attempts[e] < MaxProcessingAttempts
        /\ state[e] = "FAILED" => attempts[e] >= MaxProcessingAttempts

\* While the flag is on and the process up, a create that succeeds takes up a
\* cancel that was parked before it: some cancel of that order leaves
\* WAITING_DEPENDENCY.
ParkedCancelTakenUp ==
    ([]enabled /\ [](restarts = 0)) =>
        \A e \in Cancels, p \in Processors :
            (/\ state[e] = "WAITING_DEPENDENCY" /\ pc[p] = "done"
             /\ event[p] \in Creates /\ RefOf[event[p]] = RefOf[e])
            ~> \E f \in Cancels : /\ RefOf[f] = RefOf[e]
                                  /\ state[f] \notin {"ABSENT", "WAITING_DEPENDENCY"}

\* What processor.ts says of a parked cancel: it is resolved automatically when
\* its create succeeds.  So once no call is under way, a cancel that waits has
\* no order.
NoCancelLeftWaiting ==
    (due = {} /\ \A p \in Processors : pc[p] = "idle") =>
        \A e \in Cancels : state[e] = "WAITING_DEPENDENCY" => stage[RefOf[e]] # "OPEN"
=============================================================================
