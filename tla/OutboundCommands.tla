-------------------------- MODULE OutboundCommands --------------------------
(***************************************************************************)
(* The outbound command queue of one channel listing: what the kitchen     *)
(* tells Grab or foodpanda (accept, reject, ready, contest a cancellation, *)
(* menu changes).  Requests and the order-lifecycle hook enqueue rows      *)
(* (outbound/service.ts), worker runs claim, send and resolve them         *)
(* (outbound/worker.ts), and disputes hang on the contest command.         *)
(*                                                                         *)
(* enqueueCommand makes its checks in separate reads before its insert     *)
(* transaction; a caller keeps where it is in its pc.  A worker run takes  *)
(* a fresh lease owner name, so a row left behind by a run that died is    *)
(* owned by Orphan: no later run can have that name.                       *)
(***************************************************************************)
EXTENDS Integers, FiniteSets

CONSTANTS
    Orders,           \* orders of this listing
    NoOrder,          \* order part of a listing-scoped command
    Commands,         \* stored keys that may be asked for: <<order, type, key>>
    Callers,          \* concurrent HTTP requests
    Workers,          \* worker processes
    Orphan,           \* lease owner of a run that no longer exists
    NoOwner,
    NoCommand,
    MaxSendAttempts,  \* MAX_SEND_ATTEMPTS
    BatchLimit,       \* rows one run may take
    MaxCrashes,       \* bound: worker crashes
    MaxSlowSends      \* bound: leases that lapse while their run is alive

CommandTypes == {"ACCEPT_ORDER", "REJECT_ORDER", "MARK_READY",
                 "CONTEST_CANCELLATION", "PAUSE_STORE", "NOTIFY_MENU_UPDATED"}
OrderScoped == {"ACCEPT_ORDER", "REJECT_ORDER", "MARK_READY", "CONTEST_CANCELLATION"}
BLOCKED_AFTER_REJECT == {"ACCEPT_ORDER", "MARK_READY"}
SHADOW_MODE_ALLOWED_COMMAND_TYPES == {"NOTIFY_MENU_UPDATED"}
Modes == {"DEVICE", "SHADOW", "API"}
Stages == {"NEW", "PREPARING", "READY", "CANCELLED"}
DisputeStatuses == {"OPEN", "CONTESTED", "RESOLVED_MERCHANT_FAVOR",
                    "RESOLVED_AGGREGATOR_FAVOR", "EXPIRED"}

OrderOf(k) == k[1]
TypeOf(k) == k[2]
KeyOf(k) == k[3]

ASSUME OutboundAssumptions ==
    /\ MaxSendAttempts \in Nat \ {0} /\ BatchLimit \in Nat \ {0}
    /\ MaxCrashes \in Nat /\ MaxSlowSends \in Nat
    /\ NoOrder \notin Orders /\ IsFiniteSet(Commands)
    /\ NoCommand \notin Commands
    /\ Orphan \notin Workers /\ NoOwner \notin Workers /\ Orphan # NoOwner
    /\ \A k \in Commands : /\ TypeOf(k) \in CommandTypes
                           /\ OrderOf(k) \in IF TypeOf(k) \in OrderScoped
                                               THEN Orders ELSE {NoOrder}

VARIABLES
    enabled,    \* operational flag integration.outbound_commands
    mode,       \* aggregator_account.control_mode
    stage,      \* orders.status, as far as this queue reads it
    status,     \* aggregator_command.status; "ABSENT" before the insert
    attempts,   \* aggregator_command.attempts
    owner,      \* aggregator_command.lease_owner
    leased,     \* lease_until is in the future
    waiting,    \* next_attempt_at is in the future
    born,       \* creation order (created_at)
    dispute,    \* order_dispute row of an order
    cpc, req, contest,            \* a caller: place, command asked for, dispute flow?
    wpc, batch, current, result,  \* a worker run: place, ids left, row, send result
    sends,      \* provider calls made for a command
    delivered,  \* commands the provider has acted on
    crashes, slow

rowVars == <<status, attempts, owner, leased, waiting, born>>
callerVars == <<cpc, req, contest>>
workerVars == <<wpc, batch, current, result>>
worldVars == <<sends, delivered, crashes, slow>>
vars == <<enabled, mode, stage, rowVars, dispute, callerVars, workerVars, worldVars>>

NoDispute == [command |-> NoCommand, status |-> "NONE"]
Dispute == {NoDispute} \cup [command : Commands, status : DisputeStatuses]

TypeOK ==
    /\ enabled \in BOOLEAN /\ mode \in Modes
    /\ stage \in [Orders -> Stages]
    /\ status \in [Commands -> {"ABSENT", "PENDING", "CLAIMED", "SENT", "DEAD"}]
    /\ attempts \in [Commands -> Nat]
    /\ owner \in [Commands -> Workers \cup {Orphan, NoOwner}]
    /\ leased \in [Commands -> BOOLEAN]
    /\ waiting \in [Commands -> BOOLEAN]
    /\ born \in [Commands -> Nat]
    /\ dispute \in [Orders -> Dispute]
    /\ cpc \in [Callers -> {"idle", "hook", "request", "gated", "checked", "contest"}]
    /\ req \in [Callers -> Commands \cup {NoCommand}]
    /\ contest \in [Callers -> BOOLEAN]
    /\ wpc \in [Workers -> {"idle", "loop", "claimed", "answered"}]
    /\ batch \in [Workers -> SUBSET Commands]
    /\ current \in [Workers -> Commands \cup {NoCommand}]
    /\ result \in [Workers -> {"none", "ok", "RETRYABLE", "TERMINAL"}]
    /\ sends \in [Commands -> Nat]
    /\ delivered \subseteq Commands
    /\ crashes \in 0..MaxCrashes /\ slow \in 0..MaxSlowSends

Init ==
    /\ enabled \in BOOLEAN /\ mode \in Modes
    /\ stage = [o \in Orders |-> "NEW"]
    /\ status = [k \in Commands |-> "ABSENT"]
    /\ attempts = [k \in Commands |-> 0]
    /\ owner = [k \in Commands |-> NoOwner]
    /\ leased = [k \in Commands |-> FALSE]
    /\ waiting = [k \in Commands |-> FALSE]
    /\ born = [k \in Commands |-> 0]
    /\ dispute = [o \in Orders |-> NoDispute]
    /\ cpc = [p \in Callers |-> "idle"]
    /\ req = [p \in Callers |-> NoCommand]
    /\ contest = [p \in Callers |-> FALSE]
    /\ wpc = [w \in Workers |-> "idle"]
    /\ batch = [w \in Workers |-> {}]
    /\ current = [w \in Workers |-> NoCommand]
    /\ result = [w \in Workers |-> "none"]
    /\ sends = [k \in Commands |-> 0]
    /\ delivered = {}
    /\ crashes = 0 /\ slow = 0

-----------------------------------------------------------------------------
(* Requests                                                                *)

CallerAt(p, place, k, forDispute) ==
    /\ cpc' = [cpc EXCEPT ![p] = place]
    /\ req' = [req EXCEPT ![p] = k]
    /\ contest' = [contest EXCEPT ![p] = forDispute]

CallerDone(p) == CallerAt(p, "idle", NoCommand, FALSE)

Enters(p, place) ==
    /\ cpc' = [cpc EXCEPT ![p] = place]
    /\ UNCHANGED <<req, contest>>

\* A console request for one command; the contest commands come from
\* createDispute and the AUTO key belongs to the lifecycle hook.
RequestCommand(p, k) ==
    /\ cpc[p] = "idle"
    /\ KeyOf(k) # "AUTO" /\ TypeOf(k) # "CONTEST_CANCELLATION"
    /\ CallerAt(p, "request", k, FALSE)
    /\ UNCHANGED <<enabled, mode, stage, rowVars, dispute, workerVars, worldVars>>

NextStage(s) == CASE s = "NEW" -> "PREPARING" [] s = "PREPARING" -> "READY"
HookType(s) == IF s = "PREPARING" THEN "ACCEPT_ORDER" ELSE "MARK_READY"

\* advanceOrder commits the stage, then awaits the hook in the same request.
AdvanceOrder(p, o) ==
    /\ cpc[p] = "idle" /\ stage[o] \in {"NEW", "PREPARING"}
    /\ LET k == <<o, HookType(NextStage(stage[o])), "AUTO">> IN
         /\ k \in Commands
         /\ CallerAt(p, "hook", k, FALSE)
    /\ stage' = [stage EXCEPT ![o] = NextStage(@)]
    /\ UNCHANGED <<enabled, mode, rowVars, dispute, workerVars, worldVars>>

CancelOrder(o) ==
    /\ stage[o] # "CANCELLED"
    /\ stage' = [stage EXCEPT ![o] = "CANCELLED"]
    /\ UNCHANGED <<enabled, mode, rowVars, dispute, callerVars, workerVars, worldVars>>

\* enqueueLifecycleCommand: a no-op unless the flag is on and the mode is API.
EnqueueLifecycleCommand(p) ==
    /\ cpc[p] = "hook"
    /\ IF enabled /\ mode = "API" THEN Enters(p, "request") ELSE CallerDone(p)
    /\ UNCHANGED <<enabled, mode, stage, rowVars, dispute, workerVars, worldVars>>

ControlModeAllows(type) ==
    \/ mode = "API"
    \/ mode = "SHADOW" /\ type \in SHADOW_MODE_ALLOWED_COMMAND_TYPES

\* enqueueCommand, the flag, listing and control-mode reads.
CheckGates(p) ==
    /\ cpc[p] = "request"
    /\ IF enabled /\ ControlModeAllows(TypeOf(req[p]))
         THEN Enters(p, "gated") ELSE CallerDone(p)
    /\ UNCHANGED <<enabled, mode, stage, rowVars, dispute, workerVars, worldVars>>

Rejected(o) ==
    \E k \in Commands : OrderOf(k) = o /\ TypeOf(k) = "REJECT_ORDER" /\ status[k] # "ABSENT"

\* enqueueCommand, the out-of-order guard: a read of its own.
CheckOutOfOrder(p) ==
    /\ cpc[p] = "gated"
    /\ IF TypeOf(req[p]) \in BLOCKED_AFTER_REJECT /\ Rejected(OrderOf(req[p]))
         THEN CallerDone(p) ELSE Enters(p, "checked")
    /\ UNCHANGED <<enabled, mode, stage, rowVars, dispute, workerVars, worldVars>>

Existing == {k \in Commands : status[k] # "ABSENT"}

\* enqueueCommand, the transaction: insert, or return the row of that key.
InsertCommand(p) ==
    LET k == req[p] IN
    /\ cpc[p] = "checked"
    /\ IF status[k] = "ABSENT"
         THEN /\ status' = [status EXCEPT ![k] = "PENDING"]
              /\ born' = [born EXCEPT ![k] = Cardinality(Existing) + 1]
         ELSE UNCHANGED <<status, born>>
    /\ IF contest[p] THEN Enters(p, "contest") ELSE CallerDone(p)
    /\ UNCHANGED <<enabled, mode, stage, attempts, owner, leased, waiting, dispute,
                   workerVars, worldVars>>

\* createDispute, the reads: a CANCELLED order without a dispute.
CreateDispute(p, k) ==
    /\ cpc[p] = "idle" /\ TypeOf(k) = "CONTEST_CANCELLATION"
    /\ stage[OrderOf(k)] = "CANCELLED"
    /\ dispute[OrderOf(k)] = NoDispute
    /\ CallerAt(p, "request", k, TRUE)
    /\ UNCHANGED <<enabled, mode, stage, rowVars, dispute, workerVars, worldVars>>

\* Mutant: an upsert on the order's unique constraint.
UpsertDispute(p) ==
    /\ cpc[p] = "contest"
    /\ dispute' = [dispute EXCEPT ![OrderOf(req[p])] = [command |-> req[p], status |-> "OPEN"]]
    /\ CallerDone(p)
    /\ UNCHANGED <<enabled, mode, stage, rowVars, workerVars, worldVars>>

\* createDispute, the transaction: the loser of a race on the order's unique
\* constraint returns the winner's row.
RecordDispute(p) ==
    LET o == OrderOf(req[p]) IN
    /\ cpc[p] = "contest"
    /\ dispute' = [dispute EXCEPT ![o] =
                     IF @ = NoDispute THEN [command |-> req[p], status |-> "OPEN"] ELSE @]
    /\ CallerDone(p)
    /\ UNCHANGED <<enabled, mode, stage, rowVars, workerVars, worldVars>>

HasDispute(o) == dispute[o] # NoDispute

ResolveDispute(o, s) ==
    /\ HasDispute(o)
    /\ s # "OPEN"
    /\ dispute' = [dispute EXCEPT ![o].status = s]
    /\ UNCHANGED <<enabled, mode, stage, rowVars, callerVars, workerVars, worldVars>>

UpdateControlMode(m) ==
    /\ mode # m
    /\ mode' = m
    /\ UNCHANGED <<enabled, stage, rowVars, dispute, callerVars, workerVars, worldVars>>

ToggleFlag ==
    /\ enabled' = ~enabled
    /\ UNCHANGED <<mode, stage, rowVars, dispute, callerVars, workerVars, worldVars>>

\* The request dies between two statements.
CallerCrash(p) ==
    /\ cpc[p] # "idle"
    /\ CallerDone(p)
    /\ UNCHANGED <<enabled, mode, stage, rowVars, dispute, workerVars, worldVars>>

-----------------------------------------------------------------------------
(* Worker runs (processCommands)                                           *)

\* Mutant: a row whose worker died is never looked at again.
ClaimablePending(k) == status[k] = "PENDING" /\ ~waiting[k]
Claimable(k) ==
    \/ status[k] = "PENDING" /\ ~waiting[k]
    \/ status[k] = "CLAIMED" /\ ~leased[k]

Oldest(S) == {k \in S : Cardinality({l \in S : born[l] < born[k]}) < BatchLimit}

SelectBatch(w) ==
    /\ wpc[w] = "idle"
    /\ \E k \in Commands : Claimable(k)
    /\ batch' = [batch EXCEPT ![w] = Oldest({k \in Commands : Claimable(k)})]
    /\ wpc' = [wpc EXCEPT ![w] = "loop"]
    /\ UNCHANGED <<enabled, mode, stage, rowVars, dispute, callerVars, current, result, worldVars>>

\* The conditional update of the next row; a row somebody else took is skipped.
ClaimOne(w, k) ==
    /\ wpc[w] = "loop"
    /\ k \in batch[w] /\ \A l \in batch[w] : born[k] <= born[l]
    /\ batch' = [batch EXCEPT ![w] = @ \ {k}]
    /\ IF Claimable(k)
         THEN /\ status' = [status EXCEPT ![k] = "CLAIMED"]
              /\ owner' = [owner EXCEPT ![k] = w]
              /\ leased' = [leased EXCEPT ![k] = TRUE]
              /\ wpc' = [wpc EXCEPT ![w] = "claimed"]
              /\ current' = [current EXCEPT ![w] = k]
         ELSE UNCHANGED <<status, owner, leased, wpc, current>>
    /\ UNCHANGED <<enabled, mode, stage, attempts, waiting, born, dispute, callerVars,
                   result, worldVars>>

\* The provider call.  A failure reported as retryable (a timeout, say) may
\* have reached the provider all the same.
SendCommand(w, r) ==
    LET k == current[w] IN
    /\ wpc[w] = "claimed"
    /\ sends' = [sends EXCEPT ![k] = @ + 1]
    /\ \/ r = "ok" /\ delivered' = delivered \cup {k}
       \/ r = "RETRYABLE" /\ delivered' \in {delivered, delivered \cup {k}}
       \/ r = "TERMINAL" /\ delivered' = delivered
    /\ result' = [result EXCEPT ![w] = r]
    /\ wpc' = [wpc EXCEPT ![w] = "answered"]
    /\ UNCHANGED <<enabled, mode, stage, rowVars, dispute, callerVars, batch, current,
                   crashes, slow>>

\* Mutant: one attempt too many.
ExhaustedLate(k, r) == r = "TERMINAL" \/ attempts[k] >= MaxSendAttempts
Exhausted(k, r) == r = "TERMINAL" \/ attempts[k] + 1 >= MaxSendAttempts

\* Mutant: a failed row that is out of attempts counts as sent.
NoDead(k, r) == IF r = "ok" \/ Exhausted(k, r) THEN "SENT" ELSE "PENDING"
StatusAfter(k, r) == IF r = "ok" THEN "SENT" ELSE IF Exhausted(k, r) THEN "DEAD" ELSE "PENDING"

\* Mutant: the update names the row and not the lease owner.
AnyOwner(w, k) == TRUE
OwnsLease(w, k) == owner[k] = w

\* Mutant: the lease ends and the owner's name stays.
OwnerStays(k) == leased' = [leased EXCEPT ![k] = FALSE] /\ UNCHANGED owner
ReleaseLease(k) ==
    /\ owner' = [owner EXCEPT ![k] = NoOwner]
    /\ leased' = [leased EXCEPT ![k] = FALSE]

\* sendOne's update: only the row's current lease owner changes it.
ResolveSend(w) ==
    LET k == current[w]
        r == result[w]
    IN
    /\ wpc[w] = "answered"
    /\ IF OwnsLease(w, k)
         THEN /\ attempts' = [attempts EXCEPT ![k] = @ + 1]
              /\ status' = [status EXCEPT ![k] = StatusAfter(k, r)]
              /\ waiting' = [waiting EXCEPT ![k] = StatusAfter(k, r) = "PENDING"]
              /\ ReleaseLease(k)
         ELSE UNCHANGED <<attempts, status, waiting, owner, leased>>
    /\ wpc' = [wpc EXCEPT ![w] = "loop"]
    /\ current' = [current EXCEPT ![w] = NoCommand]
    /\ result' = [result EXCEPT ![w] = "none"]
    /\ UNCHANGED <<enabled, mode, stage, born, dispute, callerVars, batch, worldVars>>

RunEnds(w) ==
    /\ wpc[w] = "loop" /\ batch[w] = {}
    /\ wpc' = [wpc EXCEPT ![w] = "idle"]
    /\ UNCHANGED <<enabled, mode, stage, rowVars, dispute, callerVars, batch, current,
                   result, worldVars>>

WorkerCrash(w) ==
    /\ wpc[w] # "idle" /\ crashes < MaxCrashes
    /\ crashes' = crashes + 1
    /\ owner' = [k \in Commands |-> IF owner[k] = w THEN Orphan ELSE owner[k]]
    /\ wpc' = [wpc EXCEPT ![w] = "idle"]
    /\ batch' = [batch EXCEPT ![w] = {}]
    /\ current' = [current EXCEPT ![w] = NoCommand]
    /\ result' = [result EXCEPT ![w] = "none"]
    /\ UNCHANGED <<enabled, mode, stage, status, attempts, leased, waiting, born, dispute,
                   callerVars, sends, delivered, slow>>

\* lease_until passes: always, in the end, for a dead run; for a live one when
\* its send outlasts the lease.
LeaseLapses(k) ==
    /\ leased[k]
    /\ IF owner[k] = Orphan THEN UNCHANGED slow
       ELSE slow < MaxSlowSends /\ slow' = slow + 1
    /\ leased' = [leased EXCEPT ![k] = FALSE]
    /\ UNCHANGED <<enabled, mode, stage, status, attempts, owner, waiting, born, dispute,
                   callerVars, workerVars, sends, delivered, crashes>>

BackoffElapses(k) ==
    /\ waiting[k]
    /\ waiting' = [waiting EXCEPT ![k] = FALSE]
    /\ UNCHANGED <<enabled, mode, stage, status, attempts, owner, leased, born, dispute,
                   callerVars, workerVars, worldVars>>

-----------------------------------------------------------------------------

CallerStep(p) ==
    \/ \E k \in Commands : RequestCommand(p, k) \/ CreateDispute(p, k)
    \/ \E o \in Orders : AdvanceOrder(p, o)
    \/ EnqueueLifecycleCommand(p) \/ CheckGates(p) \/ CheckOutOfOrder(p)
    \/ InsertCommand(p) \/ RecordDispute(p) \/ CallerCrash(p)

WorkerStep(w) ==
    \/ SelectBatch(w)
    \/ \E k \in Commands : ClaimOne(w, k)
    \/ \E r \in {"ok", "RETRYABLE", "TERMINAL"} : SendCommand(w, r)
    \/ ResolveSend(w) \/ RunEnds(w)

TimeStep(k) == LeaseLapses(k) \/ BackoffElapses(k)

Next ==
    \/ \E p \in Callers : CallerStep(p)
    \/ \E o \in Orders : CancelOrder(o)
    \/ \E o \in Orders, s \in DisputeStatuses : ResolveDispute(o, s)
    \/ \E m \in Modes : UpdateControlMode(m)
    \/ ToggleFlag
    \/ \E w \in Workers : WorkerStep(w) \/ WorkerCrash(w)
    \/ \E k \in Commands : TimeStep(k)

Spec == Init /\ [][Next]_vars

\* run-workers.ts ticks for ever, a run's loop goes on to its end, leases of
\* dead runs and backoffs run out with the clock.
FairSpec ==
    /\ Spec
    /\ \A w \in Workers : WF_vars(WorkerStep(w))
    /\ \A k \in Commands : /\ WF_vars(BackoffElapses(k))
                           /\ WF_vars(owner[k] = Orphan /\ LeaseLapses(k))

-----------------------------------------------------------------------------
(* Properties                                                              *)

\* A row says SENT only when the provider really acted on the command, and
\* the attempts it counts never exceed the provider calls made for it.
SentIsDelivered ==
    \A k \in Commands :
        /\ status[k] = "SENT" => k \in delivered
        /\ attempts[k] <= sends[k]

\* An open row still has an attempt left: the worker can never be stuck with
\* a PENDING or CLAIMED row it has already exhausted.
OpenHasBudget ==
    \A k \in Commands :
        status[k] \in {"PENDING", "CLAIMED"} => attempts[k] < MaxSendAttempts

\* A lease names at most the one run that is really sending the row: a run
\* that lost its lease to another never resolves it (the conditional resolve).
LeaseOwnerIsSending ==
    \A k \in Commands, w \in Workers :
        owner[k] = w => /\ status[k] = "CLAIMED"
                        /\ wpc[w] \in {"claimed", "answered"}
                        /\ current[w] = k

\* A late result of a run that lost its lease never reopens or rewrites a row
\* that was resolved meanwhile.
ResolvedStaysResolved ==
    [][\A k \in Commands : status[k] \in {"SENT", "DEAD"} =>
          status'[k] = status[k] /\ attempts'[k] = attempts[k]]_vars

\* The dispute of an order names a contest command of that order in the queue.
DisputeHasCommand ==
    \A o \in Orders : dispute[o] # NoDispute =>
        LET k == dispute[o].command IN
        /\ status[k] # "ABSENT" /\ OrderOf(k) = o
        /\ TypeOf(k) = "CONTEST_CANCELLATION"

\* The first contest of an order to be recorded stands: of two createDispute
\* calls that both read no dispute, the later one neither puts its own command
\* in the place of the first nor reopens what was resolved meanwhile, and no
\* dispute exists before its command, also when a call dies half way.
FirstContestStands ==
    [][/\ DisputeHasCommand'
       /\ \A o \in Orders : dispute[o] # NoDispute =>
             /\ dispute'[o].command = dispute[o].command
             /\ dispute'[o].status = "OPEN" => dispute[o].status = "OPEN"]_vars

\* Every queued command is resolved in the end, whatever the provider answers.
EveryCommandResolves ==
    \A k \in Commands : status[k] = "PENDING" ~> status[k] \in {"SENT", "DEAD"}

\* What policies.ts says of BLOCKED_AFTER_REJECT: once REJECT_ORDER has been
\* enqueued for an order, no ACCEPT_ORDER or MARK_READY follows it.
NothingFollowsReject ==
    \A k, l \in Existing :
        /\ TypeOf(k) = "REJECT_ORDER" /\ OrderOf(l) = OrderOf(k)
        /\ TypeOf(l) \in BLOCKED_AFTER_REJECT
        => born[l] < born[k]
=============================================================================
