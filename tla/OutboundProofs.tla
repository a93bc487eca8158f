--------------------------- MODULE OutboundProofs ---------------------------
(***************************************************************************)
(* Proofs about OutboundCommands, for any commands, callers, worker runs,  *)
(* crashes and slow sends: type correctness, who may resolve a row, the    *)
(* attempt budget, what SENT means, and that resolved rows stay resolved.  *)
(***************************************************************************)
EXTENDS OutboundCommands, FiniteSetTheorems, TLAPS

SendResults == {"ok", "RETRYABLE", "TERMINAL"}

-----------------------------------------------------------------------------
(* Type correctness, with what callers and runs under way carry            *)

\* A request under way names a command, a contest one for a dispute; a run
\* that has claimed a row knows which, and one that has sent it knows how.
Informed ==
    /\ \A p \in Callers : /\ cpc[p] # "idle" => req[p] \in Commands
                          /\ contest[p] => TypeOf(req[p]) = "CONTEST_CANCELLATION"
                          /\ cpc[p] = "contest" => contest[p]
    /\ \A w \in Workers : /\ wpc[w] \in {"claimed", "answered"} => current[w] \in Commands
                          /\ wpc[w] = "answered" => result[w] \in SendResults

TypeInv == TypeOK /\ Informed

CallerTypes ==
    /\ cpc \in [Callers -> {"idle", "hook", "request", "gated", "checked", "contest"}]
    /\ req \in [Callers -> Commands \cup {NoCommand}]
    /\ contest \in [Callers -> BOOLEAN]
    /\ \A p \in Callers : /\ cpc[p] # "idle" => req[p] \in Commands
                          /\ contest[p] => TypeOf(req[p]) = "CONTEST_CANCELLATION"
                          /\ cpc[p] = "contest" => contest[p]

WorkerTypes ==
    /\ wpc \in [Workers -> {"idle", "loop", "claimed", "answered"}]
    /\ batch \in [Workers -> SUBSET Commands]
    /\ current \in [Workers -> Commands \cup {NoCommand}]
    /\ result \in [Workers -> {"none", "ok", "RETRYABLE", "TERMINAL"}]
    /\ \A w \in Workers : /\ wpc[w] \in {"claimed", "answered"} => current[w] \in Commands
                          /\ wpc[w] = "answered" => result[w] \in SendResults

RowTypes ==
    /\ status \in [Commands -> {"ABSENT", "PENDING", "CLAIMED", "SENT", "DEAD"}]
    /\ attempts \in [Commands -> Nat]
    /\ owner \in [Commands -> Workers \cup {Orphan, NoOwner}]
    /\ leased \in [Commands -> BOOLEAN]
    /\ waiting \in [Commands -> BOOLEAN]
    /\ born \in [Commands -> Nat]

WorldTypes ==
    /\ sends \in [Commands -> Nat] /\ delivered \subseteq Commands
    /\ crashes \in 0..MaxCrashes /\ slow \in 0..MaxSlowSends

SettingTypes ==
    /\ enabled \in BOOLEAN /\ mode \in Modes /\ stage \in [Orders -> Stages]

\* The types, split by who writes the variables.
LEMMA TypeParts ==
    TypeInv <=> /\ SettingTypes /\ RowTypes /\ dispute \in [Orders -> Dispute]
                /\ CallerTypes /\ WorkerTypes /\ WorldTypes
BY DEF TypeInv, TypeOK, Informed, CallerTypes, WorkerTypes, RowTypes, WorldTypes, SettingTypes

\* A caller that takes up a command, goes on with it or is done.
LEMMA CallerMoves ==
    ASSUME CallerTypes, NEW p \in Callers,
           \/ \E place \in {"hook", "request"}, k \in Commands :
                 CallerAt(p, place, k, FALSE)
           \/ \E k \in Commands : TypeOf(k) = "CONTEST_CANCELLATION" /\ CallerAt(p, "request", k, TRUE)
           \/ \E place \in {"request", "gated", "checked"} : cpc[p] # "idle" /\ Enters(p, place)
           \/ cpc[p] # "idle" /\ contest[p] /\ Enters(p, "contest")
           \/ CallerDone(p)
    PROVE  CallerTypes'
<1>1. ASSUME NEW place \in {"hook", "request"}, NEW k \in Commands, CallerAt(p, place, k, FALSE)
      PROVE  CallerTypes'
  BY <1>1 DEF CallerAt, CallerTypes
<1>2. ASSUME NEW k \in Commands, TypeOf(k) = "CONTEST_CANCELLATION", CallerAt(p, "request", k, TRUE)
      PROVE  CallerTypes'
  BY <1>2 DEF CallerAt, CallerTypes
<1>3. ASSUME NEW place \in {"request", "gated", "checked", "contest"}, cpc[p] # "idle",
             place = "contest" => contest[p], Enters(p, place)
      PROVE  CallerTypes'
  BY <1>3 DEF Enters, CallerTypes
<1>4. CASE CallerDone(p)
  BY <1>4 DEF CallerDone, CallerAt, CallerTypes
<1> QED BY <1>1, <1>2, <1>3, <1>4

\* The steps of a caller keep the types.
LEMMA CallerKeepsTypes ==
    ASSUME TypeInv, NEW p \in Callers, CallerStep(p) PROVE TypeInv'
<1>0. /\ SettingTypes /\ RowTypes /\ dispute \in [Orders -> Dispute]
      /\ CallerTypes /\ WorkerTypes /\ WorldTypes
  BY TypeParts
<1>1. ASSUME UNCHANGED <<enabled, mode, stage, rowVars, dispute, workerVars, worldVars>>, CallerTypes'
      PROVE  TypeInv'
  BY <1>0, <1>1 DEF TypeInv, TypeOK, Informed, CallerTypes, WorkerTypes, RowTypes, WorldTypes,
                   SettingTypes, rowVars, workerVars, worldVars
<1>2. ASSUME NEW k \in Commands, RequestCommand(p, k) PROVE TypeInv'
  BY <1>0, <1>1, <1>2, CallerMoves DEF RequestCommand
<1>3. ASSUME NEW k \in Commands, CreateDispute(p, k) PROVE TypeInv'
  BY <1>0, <1>1, <1>3, CallerMoves DEF CreateDispute
<1>4. ASSUME NEW o \in Orders, AdvanceOrder(p, o) PROVE TypeInv'
  <2>1. CallerTypes'
    BY <1>0, <1>4, CallerMoves DEF AdvanceOrder
  <2>2. stage' \in [Orders -> Stages]
    <3>1. NextStage(stage[o]) \in Stages
      BY <1>4 DEF AdvanceOrder, NextStage, Stages
    <3> QED BY <1>0, <1>4, <3>1 DEF AdvanceOrder, SettingTypes
  <2> QED BY <1>0, <1>4, <2>1, <2>2 DEF AdvanceOrder, TypeInv, TypeOK, Informed, CallerTypes,
            WorkerTypes, RowTypes, WorldTypes, SettingTypes, rowVars, workerVars, worldVars
<1>5. CASE EnqueueLifecycleCommand(p)
  BY <1>0, <1>1, <1>5, CallerMoves DEF EnqueueLifecycleCommand
<1>6. CASE CheckGates(p)
  BY <1>0, <1>1, <1>6, CallerMoves DEF CheckGates
<1>7. CASE CheckOutOfOrder(p)
  BY <1>0, <1>1, <1>7, CallerMoves DEF CheckOutOfOrder
<1>8. CASE InsertCommand(p)
  <2>1. CallerTypes'
    BY <1>0, <1>8, CallerMoves DEF InsertCommand
  <2>2. Cardinality(Existing) \in Nat
    BY FS_Subset, FS_CardinalityType, OutboundAssumptions DEF Existing
  <2>3. req[p] \in Commands
    BY <1>0, <1>8 DEF InsertCommand, CallerTypes
  <2>4. /\ status' \in [Commands -> {"ABSENT", "PENDING", "CLAIMED", "SENT", "DEAD"}]
        /\ born' \in [Commands -> Nat]
    BY <1>0, <1>8, <2>2, <2>3 DEF InsertCommand, RowTypes
  <2> QED BY <1>0, <1>8, <2>1, <2>4 DEF InsertCommand, TypeInv, TypeOK, Informed, CallerTypes,
            WorkerTypes, RowTypes, WorldTypes, SettingTypes, workerVars, worldVars
<1>9. CASE RecordDispute(p)
  <2>1. CallerTypes'
    BY <1>0, <1>9, CallerMoves DEF RecordDispute
  <2>2. dispute' \in [Orders -> Dispute]
    <3>1. req[p] \in Commands
      BY <1>0, <1>9 DEF RecordDispute, CallerTypes
    <3>2. [command |-> req[p], status |-> "OPEN"] \in Dispute
      BY <3>1 DEF Dispute, DisputeStatuses
    <3> QED BY <1>0, <1>9, <3>2 DEF RecordDispute
  <2> QED BY <1>0, <1>9, <2>1, <2>2 DEF RecordDispute, TypeInv, TypeOK, Informed, CallerTypes,
            WorkerTypes, RowTypes, WorldTypes, SettingTypes, rowVars, workerVars, worldVars
<1>10. CASE CallerCrash(p)
  BY <1>0, <1>1, <1>10, CallerMoves DEF CallerCrash
<1> QED BY <1>2, <1>3, <1>4, <1>5, <1>6, <1>7, <1>8, <1>9, <1>10 DEF CallerStep

\* The steps of a worker run, and its crash, keep the types.
LEMMA WorkerKeepsTypes ==
    ASSUME TypeInv, NEW w \in Workers, WorkerStep(w) \/ WorkerCrash(w) PROVE TypeInv'
<1>0. /\ SettingTypes /\ RowTypes /\ dispute \in [Orders -> Dispute]
      /\ CallerTypes /\ WorkerTypes /\ WorldTypes
  BY TypeParts
<1> USE DEF TypeInv, TypeOK, Informed, CallerTypes, SettingTypes, callerVars
<1>1. CASE SelectBatch(w)
  <2>1. Oldest({k \in Commands : Claimable(k)}) \subseteq Commands
    BY DEF Oldest
  <2>2. WorkerTypes'
    BY <1>0, <1>1, <2>1 DEF SelectBatch, WorkerTypes
  <2> QED BY <1>0, <1>1, <2>2 DEF SelectBatch, WorkerTypes, RowTypes, WorldTypes, rowVars, worldVars
<1>2. ASSUME NEW k \in Commands, ClaimOne(w, k) PROVE TypeInv'
  <2>1. WorkerTypes'
    BY <1>0, <1>2 DEF ClaimOne, WorkerTypes
  <2>2. RowTypes'
    <3>1. CASE Claimable(k)
      <4>1. status' \in [Commands -> {"ABSENT", "PENDING", "CLAIMED", "SENT", "DEAD"}]
        BY <1>0, <1>2, <3>1 DEF ClaimOne, RowTypes
      <4>2. owner' \in [Commands -> Workers \cup {Orphan, NoOwner}]
        BY <1>0, <1>2, <3>1 DEF ClaimOne, RowTypes
      <4>3. leased' \in [Commands -> BOOLEAN]
        BY <1>0, <1>2, <3>1 DEF ClaimOne, RowTypes
      <4> QED BY <1>0, <1>2, <4>1, <4>2, <4>3 DEF ClaimOne, RowTypes
    <3>2. CASE ~Claimable(k)
      BY <1>0, <1>2, <3>2 DEF ClaimOne, RowTypes
    <3> QED BY <3>1, <3>2
  <2> QED BY <1>0, <1>2, <2>1, <2>2 DEF ClaimOne, WorkerTypes, RowTypes, WorldTypes, worldVars
<1>3. ASSUME NEW r \in SendResults, SendCommand(w, r) PROVE TypeInv'
  <2>1. current[w] \in Commands
    BY <1>0, <1>3 DEF SendCommand, WorkerTypes
  <2>2. WorkerTypes'
    BY <1>0, <1>3 DEF SendCommand, WorkerTypes, SendResults
  <2>3. WorldTypes'
    <3>1. sends' \in [Commands -> Nat]
      BY <1>0, <1>3, <2>1 DEF SendCommand, WorldTypes
    <3>2. delivered' \subseteq Commands
      BY <1>0, <1>3, <2>1 DEF SendCommand, WorldTypes
    <3> QED BY <1>0, <1>3, <3>1, <3>2 DEF SendCommand, WorldTypes
  <2> QED BY <1>0, <1>3, <2>2, <2>3 DEF SendCommand, WorkerTypes, RowTypes, WorldTypes, rowVars
<1>4. CASE ResolveSend(w)
  <2>1. current[w] \in Commands
    BY <1>0, <1>4 DEF ResolveSend, WorkerTypes
  <2>2. WorkerTypes'
    BY <1>0, <1>4 DEF ResolveSend, WorkerTypes
  <2>3. RowTypes'
    <3>1. StatusAfter(current[w], result[w]) \in {"PENDING", "SENT", "DEAD"}
      BY DEF StatusAfter
    <3>2. CASE OwnsLease(w, current[w])
      <4>1. status' \in [Commands -> {"ABSENT", "PENDING", "CLAIMED", "SENT", "DEAD"}]
        BY <1>0, <1>4, <2>1, <3>1, <3>2 DEF ResolveSend, RowTypes
      <4>2. owner' \in [Commands -> Workers \cup {Orphan, NoOwner}]
        BY <1>0, <1>4, <3>2 DEF ResolveSend, ReleaseLease, RowTypes
      <4>3. leased' \in [Commands -> BOOLEAN] /\ waiting' \in [Commands -> BOOLEAN]
        BY <1>0, <1>4, <3>2 DEF ResolveSend, ReleaseLease, RowTypes
      <4>4. attempts' \in [Commands -> Nat]
        BY <1>0, <1>4, <2>1, <3>2 DEF ResolveSend, RowTypes
      <4> QED BY <1>0, <1>4, <4>1, <4>2, <4>3, <4>4 DEF ResolveSend, RowTypes
    <3>3. CASE ~OwnsLease(w, current[w])
      BY <1>0, <1>4, <3>3 DEF ResolveSend, RowTypes
    <3> QED BY <3>2, <3>3
  <2> QED BY <1>0, <1>4, <2>2, <2>3 DEF ResolveSend, WorkerTypes, RowTypes, WorldTypes, worldVars
<1>5. CASE RunEnds(w)
  <2>1. WorkerTypes'
    BY <1>0, <1>5 DEF RunEnds, WorkerTypes
  <2> QED BY <1>0, <1>5, <2>1 DEF RunEnds, WorkerTypes, RowTypes, WorldTypes, rowVars, worldVars
<1>6. CASE WorkerCrash(w)
  <2>1. WorkerTypes'
    BY <1>0, <1>6 DEF WorkerCrash, WorkerTypes
  <2>2. owner' \in [Commands -> Workers \cup {Orphan, NoOwner}]
    BY <1>0, <1>6 DEF WorkerCrash, RowTypes
  <2>3. crashes' \in 0..MaxCrashes
    BY <1>0, <1>6, OutboundAssumptions DEF WorkerCrash, WorldTypes
  <2> QED BY <1>0, <1>6, <2>1, <2>2, <2>3 DEF WorkerCrash, WorkerTypes, RowTypes, WorldTypes
<1> QED BY <1>1, <1>2, <1>3, <1>4, <1>5, <1>6 DEF WorkerStep, SendResults

\* The types are inductive.
LEMMA TypeStep == TypeInv /\ [Next]_vars => TypeInv'
<1> SUFFICES ASSUME TypeInv, [Next]_vars PROVE TypeInv'
  OBVIOUS
<1>1. ASSUME NEW o \in Orders, CancelOrder(o) PROVE TypeInv'
  <2>1. stage' \in [Orders -> Stages]
    BY <1>1 DEF CancelOrder, TypeInv, TypeOK, Stages
  <2> QED BY <1>1, <2>1 DEF CancelOrder, TypeInv, TypeOK, Informed, rowVars, callerVars, workerVars,
                           worldVars
<1>2. ASSUME NEW o \in Orders, NEW s \in DisputeStatuses, ResolveDispute(o, s) PROVE TypeInv'
  <2>1. dispute[o] \in [command : Commands, status : DisputeStatuses]
    BY <1>2 DEF ResolveDispute, HasDispute, TypeInv, TypeOK, Dispute
  <2>2. [dispute[o] EXCEPT !.status = s] \in Dispute
    BY <2>1 DEF Dispute
  <2>3. dispute' \in [Orders -> Dispute]
    BY <1>2, <2>2 DEF ResolveDispute, TypeInv, TypeOK
  <2> QED BY <1>2, <2>3 DEF ResolveDispute, TypeInv, TypeOK, Informed, rowVars, callerVars,
                           workerVars, worldVars
<1>3. ASSUME NEW m \in Modes, UpdateControlMode(m) PROVE TypeInv'
  BY <1>3 DEF UpdateControlMode, TypeInv, TypeOK, Informed, rowVars, callerVars, workerVars, worldVars
<1>4. CASE ToggleFlag
  BY <1>4 DEF ToggleFlag, TypeInv, TypeOK, Informed, rowVars, callerVars, workerVars, worldVars
<1>5. ASSUME NEW k \in Commands, LeaseLapses(k) PROVE TypeInv'
  <2>1. slow' \in 0..MaxSlowSends /\ leased' \in [Commands -> BOOLEAN]
    BY <1>5, OutboundAssumptions DEF LeaseLapses, TypeInv, TypeOK
  <2> QED BY <1>5, <2>1 DEF LeaseLapses, TypeInv, TypeOK, Informed, callerVars, workerVars
<1>6. ASSUME NEW k \in Commands, BackoffElapses(k) PROVE TypeInv'
  BY <1>6 DEF BackoffElapses, TypeInv, TypeOK, Informed, callerVars, workerVars, worldVars
<1>7. CASE UNCHANGED vars
  BY <1>7 DEF vars, TypeInv, TypeOK, Informed, rowVars, callerVars, workerVars, worldVars
<1> QED BY <1>1, <1>2, <1>3, <1>4, <1>5, <1>6, <1>7, CallerKeepsTypes, WorkerKeepsTypes
        DEF Next, TimeStep

\* The types hold in every reachable state.
LEMMA TypeInductive == Spec => []TypeInv
<1>1. Init => TypeInv
  <2> SUFFICES ASSUME Init PROVE TypeInv
    OBVIOUS
  <2>1. dispute \in [Orders -> Dispute] /\ stage \in [Orders -> Stages]
    BY DEF Init, Dispute, Stages
  <2> QED BY <2>1, OutboundAssumptions DEF Init, TypeInv, TypeOK, Informed
<1> QED BY <1>1, TypeStep, PTL DEF Spec

\* Every reachable state is well typed; requests and runs under way carry the
\* command they work on.
THEOREM TypeCorrect == Spec => []TypeOK
<1>1. TypeInv => TypeOK
  BY DEF TypeInv
<1> QED BY <1>1, TypeInductive, PTL

-----------------------------------------------------------------------------
(* The queue.  Beyond the three properties, the invariant says that a row  *)
(* not inserted yet has no attempts, and that the answer a run holds is    *)
(* one the provider gave it after the attempts its row counts.             *)

AbsentIsFresh == \A k \in Commands : status[k] = "ABSENT" => attempts[k] = 0

AnswersAreTrue ==
    \A w \in Workers : wpc[w] = "answered" =>
        /\ result[w] = "ok" => current[w] \in delivered
        /\ owner[current[w]] = w => attempts[current[w]] < sends[current[w]]

QueueInv ==
    /\ TypeInv
    /\ LeaseOwnerIsSending
    /\ OpenHasBudget
    /\ SentIsDelivered
    /\ AbsentIsFresh
    /\ AnswersAreTrue

queueVars == <<status, attempts, owner, current, result, sends, delivered>>

\* Steps that leave the queue alone; a run may begin or end.
QueueQuiet ==
    /\ UNCHANGED queueVars
    /\ \A w \in Workers : wpc'[w] = wpc[w] \/ {wpc[w], wpc'[w]} \subseteq {"idle", "loop"}

Inserted(k) ==
    /\ status[k] = "ABSENT"
    /\ status' = [status EXCEPT ![k] = "PENDING"]
    /\ UNCHANGED <<attempts, owner, current, result, sends, delivered, wpc>>

\* Every step is quiet, an insert, or one of the four steps of a run.
LEMMA StepKinds ==
    ASSUME TypeInv, [Next]_vars
    PROVE  \/ QueueQuiet
           \/ \E k \in Commands : Inserted(k)
           \/ \E w \in Workers, k \in Commands : ClaimOne(w, k) /\ Claimable(k)
           \/ \E w \in Workers, r \in SendResults : SendCommand(w, r)
           \/ \E w \in Workers : ResolveSend(w) \/ WorkerCrash(w)
<1> USE DEF QueueQuiet, queueVars, rowVars, workerVars, worldVars, callerVars
<1>1. ASSUME NEW p \in Callers, CallerStep(p) PROVE QueueQuiet \/ \E k \in Commands : Inserted(k)
  <2>1. CASE InsertCommand(p)
    <3>1. req[p] \in Commands
      BY <2>1 DEF InsertCommand, TypeInv, Informed
    <3> QED BY <2>1, <3>1 DEF InsertCommand, Inserted
  <2> QED BY <1>1, <2>1 DEF CallerStep, RequestCommand, CreateDispute, AdvanceOrder,
            EnqueueLifecycleCommand, CheckGates, CheckOutOfOrder, RecordDispute, CallerCrash
<1>2. ASSUME \/ \E o \in Orders : CancelOrder(o)
             \/ \E o \in Orders, s \in DisputeStatuses : ResolveDispute(o, s)
             \/ \E m \in Modes : UpdateControlMode(m)
             \/ ToggleFlag
             \/ \E k \in Commands : TimeStep(k)
             \/ UNCHANGED vars
      PROVE  QueueQuiet
  BY <1>2 DEF CancelOrder, ResolveDispute, UpdateControlMode, ToggleFlag, TimeStep, LeaseLapses,
              BackoffElapses, vars
<1>3. ASSUME NEW w \in Workers, SelectBatch(w) \/ RunEnds(w) PROVE QueueQuiet
  <2>1. wpc \in [Workers -> {"idle", "loop", "claimed", "answered"}]
    BY DEF TypeInv, TypeOK
  <2> QED BY <1>3, <2>1 DEF SelectBatch, RunEnds
<1>4. ASSUME NEW w \in Workers, NEW k \in Commands, ClaimOne(w, k), ~Claimable(k) PROVE QueueQuiet
  BY <1>4 DEF ClaimOne
<1> QED BY <1>1, <1>2, <1>3, <1>4 DEF Next, WorkerStep, SendResults

\* The whole of QueueInv but the types, one command and one run at a time.
QueueOK ==
    LeaseOwnerIsSending /\ OpenHasBudget /\ SentIsDelivered /\ AbsentIsFresh /\ AnswersAreTrue

\* QueueInv is inductive: claims, sends, resolves, inserts and crashes keep it.
LEMMA QueueStep == QueueInv /\ [Next]_vars => QueueInv'
<1> SUFFICES ASSUME QueueInv, [Next]_vars PROVE QueueInv'
  OBVIOUS
<1>1. TypeInv /\ TypeInv' /\ QueueOK
  BY TypeStep DEF QueueInv, QueueOK
<1>2. /\ status \in [Commands -> {"ABSENT", "PENDING", "CLAIMED", "SENT", "DEAD"}]
      /\ attempts \in [Commands -> Nat] /\ sends \in [Commands -> Nat]
      /\ owner \in [Commands -> Workers \cup {Orphan, NoOwner}]
      /\ wpc \in [Workers -> {"idle", "loop", "claimed", "answered"}]
      /\ current \in [Workers -> Commands \cup {NoCommand}]
      /\ result \in [Workers -> {"none", "ok", "RETRYABLE", "TERMINAL"}]
      /\ \A w \in Workers : wpc[w] \in {"claimed", "answered"} => current[w] \in Commands
  BY <1>1 DEF TypeInv, TypeOK, Informed
<1>3. MaxSendAttempts \in Nat \ {0} /\ Orphan \notin Workers /\ NoOwner \notin Workers
  BY OutboundAssumptions
<1>4. CASE QueueQuiet
  <2>1. LeaseOwnerIsSending'
    BY <1>1, <1>4 DEF QueueQuiet, queueVars, QueueOK, LeaseOwnerIsSending
  <2>2. OpenHasBudget' /\ SentIsDelivered' /\ AbsentIsFresh'
    BY <1>1, <1>4 DEF QueueQuiet, queueVars, QueueOK, OpenHasBudget, SentIsDelivered, AbsentIsFresh
  <2>3. AnswersAreTrue'
    BY <1>1, <1>4 DEF QueueQuiet, queueVars, QueueOK, AnswersAreTrue
  <2> QED BY <1>1, <2>1, <2>2, <2>3 DEF QueueInv
<1>5. ASSUME NEW k \in Commands, Inserted(k) PROVE QueueInv'
  <2>1. /\ status'[k] = "PENDING" /\ status[k] = "ABSENT"
        /\ \A l \in Commands \ {k} : status'[l] = status[l]
    BY <1>2, <1>5 DEF Inserted
  <2>2. LeaseOwnerIsSending' /\ AnswersAreTrue'
    BY <1>1, <1>5, <2>1 DEF Inserted, QueueOK, LeaseOwnerIsSending, AnswersAreTrue
  <2>3. OpenHasBudget' /\ SentIsDelivered' /\ AbsentIsFresh'
    BY <1>1, <1>3, <1>5, <2>1 DEF Inserted, QueueOK, OpenHasBudget, SentIsDelivered, AbsentIsFresh
  <2> QED BY <1>1, <2>2, <2>3 DEF QueueInv
<1>6. ASSUME NEW w \in Workers, NEW k \in Commands, ClaimOne(w, k), Claimable(k) PROVE QueueInv'
  <2>1. /\ wpc[w] = "loop" /\ status[k] \in {"PENDING", "CLAIMED"}
        /\ status'[k] = "CLAIMED" /\ owner'[k] = w /\ wpc'[w] = "claimed" /\ current'[w] = k
        /\ \A l \in Commands \ {k} : status'[l] = status[l] /\ owner'[l] = owner[l]
        /\ \A v \in Workers \ {w} : wpc'[v] = wpc[v] /\ current'[v] = current[v]
        /\ UNCHANGED <<attempts, sends, delivered, result>>
    BY <1>2, <1>6 DEF ClaimOne, Claimable, worldVars
  <2>2. LeaseOwnerIsSending'
    BY <1>1, <2>1 DEF QueueOK, LeaseOwnerIsSending
  <2>3. OpenHasBudget' /\ SentIsDelivered' /\ AbsentIsFresh'
    BY <1>1, <2>1 DEF QueueOK, OpenHasBudget, SentIsDelivered, AbsentIsFresh
  <2>4. AnswersAreTrue'
    BY <1>1, <1>2, <2>1 DEF QueueOK, AnswersAreTrue
  <2> QED BY <1>1, <2>2, <2>3, <2>4 DEF QueueInv
<1>7. ASSUME NEW w \in Workers, NEW r \in SendResults, SendCommand(w, r) PROVE QueueInv'
  <2> DEFINE k == current[w]
  <2>1. /\ wpc[w] = "claimed" /\ k \in Commands
        /\ sends'[k] = sends[k] + 1 /\ \A l \in Commands \ {k} : sends'[l] = sends[l]
        /\ delivered \subseteq delivered'
        /\ r = "ok" => k \in delivered'
        /\ wpc'[w] = "answered" /\ \A v \in Workers \ {w} : wpc'[v] = wpc[v] /\ result'[v] = result[v]
        /\ result'[w] = r
        /\ UNCHANGED <<status, attempts, owner, current>>
    BY <1>2, <1>7 DEF SendCommand, rowVars
  <2> HIDE DEF k
  <2>2. LeaseOwnerIsSending'
    BY <1>1, <2>1 DEF QueueOK, LeaseOwnerIsSending
  <2>3. \A l \in Commands : attempts[l] <= sends[l] /\ sends[l] <= sends'[l]
                            /\ attempts[l] \in Nat /\ sends[l] \in Nat /\ sends'[l] \in Nat
    BY <1>1, <1>2, <2>1 DEF QueueOK, SentIsDelivered
  <2>4. SentIsDelivered'
    BY <1>1, <2>1, <2>3 DEF QueueOK, SentIsDelivered
  <2>5. AnswersAreTrue'
    <3> SUFFICES ASSUME NEW v \in Workers, wpc'[v] = "answered"
                 PROVE  /\ result'[v] = "ok" => current[v] \in delivered'
                        /\ owner[current[v]] = v => attempts[current[v]] < sends'[current[v]]
      BY <2>1 DEF AnswersAreTrue
    <3>1. CASE v = w
      BY <2>1, <2>3, <3>1 DEF k
    <3>2. CASE v # w
      <4>1. wpc[v] = "answered" /\ result'[v] = result[v] /\ current[v] \in Commands
        BY <1>2, <2>1, <3>2
      <4> QED BY <1>1, <2>1, <2>3, <4>1 DEF QueueOK, AnswersAreTrue
    <3> QED BY <3>1, <3>2
  <2>6. OpenHasBudget' /\ AbsentIsFresh'
    BY <1>1, <2>1 DEF QueueOK, OpenHasBudget, AbsentIsFresh
  <2> QED BY <1>1, <2>2, <2>4, <2>5, <2>6 DEF QueueInv
<1>8. ASSUME NEW w \in Workers, ResolveSend(w) PROVE QueueInv'
  <2> DEFINE k == current[w]
             r == result[w]
  <2>1. /\ wpc[w] = "answered" /\ k \in Commands /\ wpc'[w] = "loop"
        /\ \A v \in Workers \ {w} : /\ wpc'[v] = wpc[v] /\ current'[v] = current[v]
                                    /\ result'[v] = result[v]
        /\ UNCHANGED <<sends, delivered>>
    BY <1>2, <1>8 DEF ResolveSend, worldVars
  <2>2. CASE owner[k] = w
    <3>1. /\ attempts'[k] = attempts[k] + 1 /\ status'[k] = StatusAfter(k, r) /\ owner'[k] = NoOwner
          /\ \A l \in Commands \ {k} : /\ attempts'[l] = attempts[l] /\ status'[l] = status[l]
                                       /\ owner'[l] = owner[l]
      BY <1>2, <1>8, <2>1, <2>2 DEF ResolveSend, OwnsLease, ReleaseLease
    <3>2. /\ status'[k] = "SENT" => r = "ok"
          /\ status'[k] \in {"PENDING", "CLAIMED"} => ~(attempts[k] + 1 >= MaxSendAttempts)
          /\ status'[k] # "ABSENT"
      BY <3>1 DEF StatusAfter, Exhausted
    <3>3. (r = "ok" => k \in delivered) /\ attempts[k] < sends[k]
      BY <1>1, <2>1, <2>2 DEF QueueOK, AnswersAreTrue
    <3> HIDE DEF k, r
    <3>4. LeaseOwnerIsSending'
      BY <1>1, <1>3, <2>1, <3>1 DEF QueueOK, LeaseOwnerIsSending, k
    <3>5. OpenHasBudget'
      BY <1>1, <1>2, <1>3, <2>1, <3>1, <3>2 DEF QueueOK, OpenHasBudget
    <3>6. SentIsDelivered'
      BY <1>1, <1>2, <2>1, <3>1, <3>2, <3>3 DEF QueueOK, SentIsDelivered
    <3>7. AbsentIsFresh'
      BY <1>1, <3>1, <3>2 DEF QueueOK, AbsentIsFresh
    <3>8. AnswersAreTrue'
      <4> SUFFICES ASSUME NEW v \in Workers, wpc'[v] = "answered"
                   PROVE  /\ result'[v] = "ok" => current'[v] \in delivered
                          /\ owner'[current'[v]] = v => attempts'[current'[v]] < sends[current'[v]]
        BY <2>1 DEF AnswersAreTrue
      <4>1. /\ v # w /\ wpc[v] = "answered" /\ result'[v] = result[v] /\ current'[v] = current[v]
            /\ current[v] \in Commands
        BY <1>2, <2>1
      <4>2. CASE current[v] = k
        BY <1>1, <1>3, <3>1, <4>1, <4>2 DEF QueueOK, AnswersAreTrue
      <4>3. CASE current[v] # k
        BY <1>1, <3>1, <4>1, <4>3 DEF QueueOK, AnswersAreTrue
      <4> QED BY <4>2, <4>3
    <3> QED BY <1>1, <3>4, <3>5, <3>6, <3>7, <3>8 DEF QueueInv
  <2>3. CASE owner[k] # w
    <3>1. UNCHANGED <<attempts, status, owner>>
      BY <1>8, <2>3 DEF ResolveSend, OwnsLease
    <3>2. LeaseOwnerIsSending'
      BY <1>1, <2>1, <2>3, <3>1 DEF QueueOK, LeaseOwnerIsSending
    <3>3. OpenHasBudget' /\ SentIsDelivered' /\ AbsentIsFresh'
      BY <1>1, <2>1, <3>1 DEF QueueOK, OpenHasBudget, SentIsDelivered, AbsentIsFresh
    <3>4. AnswersAreTrue'
      BY <1>1, <2>1, <3>1 DEF QueueOK, AnswersAreTrue
    <3> QED BY <1>1, <3>2, <3>3, <3>4 DEF QueueInv
  <2> QED BY <2>2, <2>3
<1>9. ASSUME NEW w \in Workers, WorkerCrash(w) PROVE QueueInv'
  <2>1. /\ wpc'[w] = "idle"
        /\ \A v \in Workers \ {w} : /\ wpc'[v] = wpc[v] /\ current'[v] = current[v]
                                    /\ result'[v] = result[v]
        /\ \A k \in Commands : owner'[k] = IF owner[k] = w THEN Orphan ELSE owner[k]
        /\ UNCHANGED <<status, attempts, sends, delivered>>
    BY <1>2, <1>9 DEF WorkerCrash
  <2>2. LeaseOwnerIsSending'
    BY <1>1, <1>3, <2>1 DEF QueueOK, LeaseOwnerIsSending
  <2>3. OpenHasBudget' /\ SentIsDelivered' /\ AbsentIsFresh'
    BY <1>1, <2>1 DEF QueueOK, OpenHasBudget, SentIsDelivered, AbsentIsFresh
  <2>4. AnswersAreTrue'
    BY <1>1, <1>2, <1>3, <2>1 DEF QueueOK, AnswersAreTrue
  <2> QED BY <1>1, <2>2, <2>3, <2>4 DEF QueueInv
<1> QED BY <1>1, <1>4, <1>5, <1>6, <1>7, <1>8, <1>9, StepKinds

\* QueueInv holds in every reachable state.
LEMMA QueueInductive == Spec => []QueueInv
<1>1. Init /\ TypeInv => QueueInv
  BY OutboundAssumptions DEF Init, QueueInv, LeaseOwnerIsSending, OpenHasBudget, SentIsDelivered,
        AbsentIsFresh, AnswersAreTrue
<1>2. Spec => TypeInv
  BY TypeInductive, PTL
<1> QED BY <1>1, <1>2, QueueStep, PTL DEF Spec

\* A lease owner's name on a row is that of the one run that is sending it.
THEOREM OwnerIsSending == Spec => []LeaseOwnerIsSending
<1>1. QueueInv => LeaseOwnerIsSending
  BY DEF QueueInv
<1> QED BY <1>1, QueueInductive, PTL

\* An open row always has an attempt left, whatever runs crash or overtake
\* each other.
THEOREM BudgetLeft == Spec => []OpenHasBudget
<1>1. QueueInv => OpenHasBudget
  BY DEF QueueInv
<1> QED BY <1>1, QueueInductive, PTL

\* SENT is only ever written for a command the provider acted on.
THEOREM SentMeansDelivered == Spec => []SentIsDelivered
<1>1. QueueInv => SentIsDelivered
  BY DEF QueueInv
<1> QED BY <1>1, QueueInductive, PTL

\* A resolved row is final: no late answer of a run that lost its lease, no
\* second claim and no replayed request rewrites it.
THEOREM ResolvedIsFinal == Spec => ResolvedStaysResolved
<1>1. QueueInv /\ [Next]_vars =>
        [\A k \in Commands : status[k] \in {"SENT", "DEAD"} =>
            status'[k] = status[k] /\ attempts'[k] = attempts[k]]_vars
  <2> SUFFICES ASSUME QueueInv, [Next]_vars, NEW k \in Commands, status[k] \in {"SENT", "DEAD"}
               PROVE  status'[k] = status[k] /\ attempts'[k] = attempts[k]
    OBVIOUS
  <2>1. /\ status \in [Commands -> {"ABSENT", "PENDING", "CLAIMED", "SENT", "DEAD"}]
        /\ attempts \in [Commands -> Nat]
        /\ TypeInv
    BY DEF QueueInv, TypeInv, TypeOK
  <2>2. ASSUME NEW l \in Commands, Inserted(l) PROVE status'[k] = status[k] /\ attempts'[k] = attempts[k]
    BY <2>1, <2>2 DEF Inserted
  <2>3. ASSUME NEW w \in Workers, NEW l \in Commands, ClaimOne(w, l), Claimable(l)
        PROVE  status'[k] = status[k] /\ attempts'[k] = attempts[k]
    BY <2>1, <2>3 DEF ClaimOne, Claimable
  <2>4. ASSUME NEW w \in Workers, ResolveSend(w)
        PROVE  status'[k] = status[k] /\ attempts'[k] = attempts[k]
    <3>1. OwnsLease(w, current[w]) => current[w] # k
      BY <2>4 DEF OwnsLease, QueueInv, LeaseOwnerIsSending
    <3> QED BY <2>1, <2>4, <3>1 DEF ResolveSend
  <2>5. ASSUME NEW w \in Workers, (\E r \in SendResults : SendCommand(w, r)) \/ WorkerCrash(w)
        PROVE  status'[k] = status[k] /\ attempts'[k] = attempts[k]
    BY <2>5 DEF SendCommand, WorkerCrash, rowVars
  <2> QED BY <2>1, <2>2, <2>3, <2>4, <2>5, StepKinds DEF QueueQuiet, queueVars
<1> QED BY <1>1, QueueInductive, PTL DEF Spec, ResolvedStaysResolved

-----------------------------------------------------------------------------
(* Disputes.  Between its two transactions a dispute request relies on the *)
(* command row it enqueued; rows are never deleted.                        *)

ContestIsQueued ==
    \A p \in Callers : cpc[p] = "contest" => status[req[p]] # "ABSENT"

DisputeInv == TypeInv /\ DisputeHasCommand /\ ContestIsQueued

\* A command row is never deleted.
LEMMA RowsStay ==
    ASSUME TypeInv, [Next]_vars, NEW k \in Commands, status[k] # "ABSENT"
    PROVE  status'[k] # "ABSENT"
<1>1. status \in [Commands -> {"ABSENT", "PENDING", "CLAIMED", "SENT", "DEAD"}]
  BY DEF TypeInv, TypeOK
<1>2. ASSUME NEW w \in Workers, ResolveSend(w) PROVE status'[k] # "ABSENT"
  <2>1. StatusAfter(current[w], result[w]) # "ABSENT"
    BY DEF StatusAfter
  <2> QED BY <1>1, <1>2, <2>1 DEF ResolveSend
<1>3. ASSUME NEW w \in Workers, NEW l \in Commands, ClaimOne(w, l) PROVE status'[k] # "ABSENT"
  BY <1>1, <1>3 DEF ClaimOne
<1>4. ASSUME NEW w \in Workers, (\E r \in SendResults : SendCommand(w, r)) \/ WorkerCrash(w)
      PROVE  status'[k] # "ABSENT"
  BY <1>4 DEF SendCommand, WorkerCrash, rowVars
<1>5. ASSUME NEW l \in Commands, Inserted(l) PROVE status'[k] # "ABSENT"
  BY <1>1, <1>5 DEF Inserted
<1> QED BY <1>2, <1>3, <1>4, <1>5, StepKinds DEF QueueQuiet, queueVars

\* A step that leaves disputes alone and brings no caller to the second
\* transaction keeps the dispute invariant.
LEMMA DisputeQuiet ==
    ASSUME DisputeInv, [Next]_vars, UNCHANGED dispute,
           \A p \in Callers : cpc'[p] = "contest" => cpc[p] = "contest" /\ req'[p] = req[p]
    PROVE  DisputeInv'
<1>1. TypeInv /\ TypeInv'
  BY TypeStep DEF DisputeInv
<1>2. \A o \in Orders : dispute[o] # NoDispute => dispute[o].command \in Commands
  BY <1>1 DEF TypeInv, TypeOK, Dispute
<1>3. DisputeHasCommand'
  BY <1>1, <1>2, RowsStay DEF DisputeInv, DisputeHasCommand
<1>4. \A p \in Callers : cpc[p] = "contest" => req[p] \in Commands
  BY <1>1 DEF TypeInv, Informed
<1>5. ContestIsQueued'
  BY <1>1, <1>4, RowsStay DEF DisputeInv, ContestIsQueued
<1> QED BY <1>1, <1>3, <1>5 DEF DisputeInv

\* The dispute invariant is inductive.
LEMMA DisputeStep == DisputeInv /\ [Next]_vars => DisputeInv'
<1> SUFFICES ASSUME DisputeInv, [Next]_vars PROVE DisputeInv'
  OBVIOUS
<1>1. TypeInv /\ TypeInv'
  BY TypeStep DEF DisputeInv
<1>2. /\ cpc \in [Callers -> {"idle", "hook", "request", "gated", "checked", "contest"}]
      /\ req \in [Callers -> Commands \cup {NoCommand}]
      /\ \A p \in Callers : cpc[p] # "idle" => req[p] \in Commands
      /\ \A p \in Callers : contest[p] => TypeOf(req[p]) = "CONTEST_CANCELLATION"
      /\ dispute \in [Orders -> Dispute]
      /\ \A p \in Callers : cpc[p] = "contest" => contest[p]
  BY <1>1 DEF TypeInv, TypeOK, Informed
<1>3. ASSUME NEW p \in Callers, CallerStep(p), ~InsertCommand(p), ~RecordDispute(p) PROVE DisputeInv'
  <2>1. UNCHANGED dispute /\ \A q \in Callers : cpc'[q] = "contest" =>
                                cpc[q] = "contest" /\ req'[q] = req[q]
    BY <1>2, <1>3 DEF CallerStep, RequestCommand, CreateDispute, AdvanceOrder, EnqueueLifecycleCommand,
          CheckGates, CheckOutOfOrder, CallerCrash, CallerDone, CallerAt, Enters
  <2> QED BY <2>1, DisputeQuiet
<1>4. ASSUME NEW p \in Callers, InsertCommand(p) PROVE DisputeInv'
  <2>1. /\ req[p] \in Commands /\ status'[req[p]] # "ABSENT" /\ UNCHANGED dispute
        /\ \A q \in Callers : cpc'[q] = "contest" =>
              req'[q] = req[q] /\ (q = p \/ cpc[q] = "contest")
    <3>1. req[p] \in Commands
      BY <1>2, <1>4 DEF InsertCommand
    <3>2. status'[req[p]] # "ABSENT"
      BY <1>1, <1>4, <3>1 DEF InsertCommand, TypeInv, TypeOK
    <3>3. \A q \in Callers : cpc'[q] = "contest" =>
              req'[q] = req[q] /\ (q = p \/ cpc[q] = "contest")
      BY <1>2, <1>4 DEF InsertCommand, CallerDone, CallerAt, Enters
    <3> QED BY <1>4, <3>1, <3>2, <3>3 DEF InsertCommand
  <2>2. \A q \in Callers : cpc[q] = "contest" => status'[req[q]] # "ABSENT"
    BY <1>1, <1>2, RowsStay DEF DisputeInv, ContestIsQueued
  <2>3. ContestIsQueued'
    BY <2>1, <2>2 DEF ContestIsQueued
  <2>4. DisputeHasCommand'
    <3>1. \A o \in Orders : dispute[o] # NoDispute => dispute[o].command \in Commands
      BY <1>2 DEF Dispute
    <3> QED BY <1>1, <2>1, <3>1, RowsStay DEF DisputeInv, DisputeHasCommand
  <2> QED BY <1>1, <2>3, <2>4 DEF DisputeInv
<1>5. ASSUME NEW p \in Callers, RecordDispute(p) PROVE DisputeInv'
  <2> DEFINE o == OrderOf(req[p])
             d == [command |-> req[p], status |-> "OPEN"]
  <2>1. /\ req[p] \in Commands /\ status[req[p]] # "ABSENT"
        /\ TypeOf(req[p]) = "CONTEST_CANCELLATION"
    BY <1>2, <1>5 DEF RecordDispute, DisputeInv, ContestIsQueued
  <2>2. UNCHANGED status
    BY <1>5 DEF RecordDispute, rowVars
  <2>3. \A c \in Orders : dispute'[c] = dispute[c] \/ (c = o /\ dispute'[c] = d)
    BY <1>2, <1>5 DEF RecordDispute
  <2>4. d.command = req[p]
    OBVIOUS
  <2> HIDE DEF d
  <2>5. DisputeHasCommand'
    <3> SUFFICES ASSUME NEW c \in Orders, dispute'[c] # NoDispute
                 PROVE  /\ status[dispute'[c].command] # "ABSENT" /\ OrderOf(dispute'[c].command) = c
                        /\ TypeOf(dispute'[c].command) = "CONTEST_CANCELLATION"
      BY <2>2 DEF DisputeHasCommand
    <3>1. CASE dispute'[c] = dispute[c]
      BY <3>1 DEF DisputeInv, DisputeHasCommand
    <3>2. CASE c = o /\ dispute'[c] = d
      BY <2>1, <2>4, <3>2
    <3> QED BY <2>3, <3>1, <3>2
  <2>6. ContestIsQueued'
    <3>1. \A q \in Callers : cpc'[q] = "contest" => cpc[q] = "contest" /\ req'[q] = req[q]
      BY <1>2, <1>5 DEF RecordDispute, CallerDone, CallerAt
    <3> QED BY <2>2, <3>1 DEF DisputeInv, ContestIsQueued
  <2> QED BY <1>1, <2>5, <2>6 DEF DisputeInv
<1>6. ASSUME NEW o \in Orders, NEW s \in DisputeStatuses, ResolveDispute(o, s) PROVE DisputeInv'
  <2>1. dispute[o] \in [command : Commands, status : DisputeStatuses] /\ dispute[o] # NoDispute
    BY <1>2, <1>6 DEF ResolveDispute, HasDispute, Dispute
  <2>2. /\ dispute'[o].command = dispute[o].command
        /\ \A c \in Orders \ {o} : dispute'[c] = dispute[c]
        /\ UNCHANGED <<status, cpc, req>>
    BY <1>2, <1>6, <2>1 DEF ResolveDispute, rowVars, callerVars
  <2>3. DisputeHasCommand'
    BY <2>1, <2>2 DEF DisputeInv, DisputeHasCommand
  <2>4. ContestIsQueued'
    BY <2>2 DEF DisputeInv, ContestIsQueued
  <2> QED BY <1>1, <2>3, <2>4 DEF DisputeInv
<1>7. ASSUME UNCHANGED <<dispute, callerVars>> PROVE DisputeInv'
  BY <1>7, DisputeQuiet DEF callerVars
<1>8. ASSUME \/ \E o \in Orders : CancelOrder(o)
             \/ \E m \in Modes : UpdateControlMode(m)
             \/ ToggleFlag
             \/ \E w \in Workers : WorkerStep(w) \/ WorkerCrash(w)
             \/ \E k \in Commands : TimeStep(k)
             \/ UNCHANGED vars
      PROVE  UNCHANGED <<dispute, callerVars>>
  <2>1. ASSUME NEW w \in Workers, WorkerStep(w) \/ WorkerCrash(w) PROVE UNCHANGED <<dispute, callerVars>>
    BY <2>1 DEF WorkerStep, SelectBatch, ClaimOne, SendCommand, ResolveSend, RunEnds, WorkerCrash
  <2> QED BY <1>8, <2>1 DEF CancelOrder, UpdateControlMode, ToggleFlag, TimeStep, LeaseLapses,
            BackoffElapses, vars
<1> QED BY <1>3, <1>4, <1>5, <1>6, <1>7, <1>8 DEF Next

\* A step changes a recorded dispute by resolving it or not at all.
LEMMA DisputeStays ==
    ASSUME TypeInv, [Next]_vars, NEW o \in Orders, dispute[o] # NoDispute
    PROVE  /\ dispute'[o].command = dispute[o].command
           /\ dispute'[o].status = "OPEN" => dispute[o].status = "OPEN"
<1>1. dispute \in [Orders -> Dispute] /\ dispute[o] \in [command : Commands, status : DisputeStatuses]
  BY DEF TypeInv, TypeOK, Dispute
<1>2. ASSUME NEW p \in Callers, RecordDispute(p) PROVE dispute'[o] = dispute[o]
  BY <1>1, <1>2 DEF RecordDispute
<1>3. ASSUME NEW c \in Orders, NEW s \in DisputeStatuses, ResolveDispute(c, s)
      PROVE  /\ dispute'[o].command = dispute[o].command
             /\ dispute'[o].status = "OPEN" => dispute[o].status = "OPEN"
  BY <1>1, <1>3 DEF ResolveDispute
<1>4. ASSUME NEW p \in Callers, CallerStep(p), ~RecordDispute(p) PROVE UNCHANGED dispute
  BY <1>4 DEF CallerStep, RequestCommand, CreateDispute, AdvanceOrder, EnqueueLifecycleCommand,
        CheckGates, CheckOutOfOrder, InsertCommand, CallerCrash
<1>5. ASSUME \/ \E c \in Orders : CancelOrder(c)
             \/ \E m \in Modes : UpdateControlMode(m)
             \/ ToggleFlag
             \/ \E w \in Workers : WorkerStep(w) \/ WorkerCrash(w)
             \/ \E k \in Commands : TimeStep(k)
             \/ UNCHANGED vars
      PROVE  UNCHANGED dispute
  <2>1. ASSUME NEW w \in Workers, WorkerStep(w) \/ WorkerCrash(w) PROVE UNCHANGED dispute
    BY <2>1 DEF WorkerStep, SelectBatch, ClaimOne, SendCommand, ResolveSend, RunEnds, WorkerCrash
  <2> QED BY <1>5, <2>1 DEF CancelOrder, UpdateControlMode, ToggleFlag, TimeStep, LeaseLapses,
            BackoffElapses, vars
<1> QED BY <1>2, <1>3, <1>4, <1>5 DEF Next

\* The first contest recorded for an order stands, backed by its queued command,
\* however contests race, calls die half way and disputes are resolved.
THEOREM FirstContestWins == Spec => FirstContestStands
<1>1. Init /\ TypeInv => DisputeInv
  BY DEF Init, DisputeInv, DisputeHasCommand, ContestIsQueued
<1>2. Spec => TypeInv
  BY TypeInductive, PTL
<1>3. DisputeInv /\ [Next]_vars =>
          /\ DisputeHasCommand'
          /\ \A o \in Orders : dispute[o] # NoDispute =>
                /\ dispute'[o].command = dispute[o].command
                /\ dispute'[o].status = "OPEN" => dispute[o].status = "OPEN"
  BY DisputeStep, DisputeStays DEF DisputeInv
<1> QED BY <1>1, <1>2, <1>3, DisputeStep, PTL DEF Spec, FirstContestStands
=============================================================================
