-------------------------- MODULE ProductionProofs --------------------------
(***************************************************************************)
(* What is proved of production for every set of warehouses, lots, bills,  *)
(* jobs, orders, users and callers: types, that the rows of a job or of an *)
(* order tell its postings, that no unit is promised twice, and that no    *)
(* bill of materials needs what it makes.  Of HqDocumentsProofs only the   *)
(* first part, on the posting service, is used.                            *)
(***************************************************************************)
EXTENDS Production, HqDocumentsProofs

JobSlots(j) == {ConsumeSlot(j), OutputSlot(j)}
OrderSlots(o) == {GeneralSlot(o), JobOutSlot(o)}
AllOrderSlots == UNION {OrderSlots(o) : o \in Orders}
ProductionSlots == (UNION {JobSlots(j) : j \in Jobs}) \cup AllOrderSlots

\* Production posts to the slots its jobs and orders name.
LEMMA ProductionSlotsKnown == ProductionSlots \subseteq Slots
<1>1. \A j \in Jobs : ConsumeSlot(j) \in Slots /\ OutputSlot(j) \in Slots
  BY JobAssumptions DEF ConsumeSlot, OutputSlot
<1>2. \A o \in Orders : GeneralSlot(o) \in Slots /\ JobOutSlot(o) \in Slots
  BY OrderAssumptions DEF GeneralSlot, JobOutSlot
<1> QED BY <1>1, <1>2 DEF ProductionSlots, AllOrderSlots, JobSlots, OrderSlots

\* A job has two slots of its own, and none is an order's.
LEMMA ProductionSlotsApart ==
    /\ \A j : ConsumeSlot(j) # OutputSlot(j)
    /\ \A j, k : k # j => JobSlots(k) \cap JobSlots(j) = {}
    /\ \A j : AllOrderSlots \cap JobSlots(j) = {}
<1>1. \A j : ConsumeSlot(j) # OutputSlot(j) BY DEF ConsumeSlot, OutputSlot
<1>2. \A j, k : k # j => JobSlots(k) \cap JobSlots(j) = {}
  BY DEF JobSlots, ConsumeSlot, OutputSlot
<1>3. \A j : AllOrderSlots \cap JobSlots(j) = {}
  BY DEF AllOrderSlots, OrderSlots, JobSlots, ConsumeSlot, OutputSlot, GeneralSlot,
         JobOutSlot
<1> QED BY <1>1, <1>2, <1>3

-----------------------------------------------------------------------------
(* The steps of the documents, by what they do to the ledger.              *)

\* What a request still has to post belongs to a customer order.
RestOfOrders == \A c \in Callers : \A t \in call[c].rest : t.slot \in AllOrderSlots
ProductionLedger == LedgerInv(ProductionSlots) /\ RestOfOrders

JobStarting(c, j) ==
    /\ posting' = posting
    /\ \E s \in JobSlots(j) : \E plan, version : Prepared(c, s, plan, {}, version)
JobKind(j) == Passing \/ \E c \in Callers : JobStarting(c, j)

\* Every job operation but its two starts touches no posting.
LEMMA JobKinds ==
    ASSUME LedgerShape, NEW j \in Jobs, JobStep(j)
    PROVE  Passing \/ \E c \in Callers, u \in Users :
             StartJobPrepare(c, j, u) \/ \E q \in Quantity : CompleteJobPrepare(c, j, u, q)
<1>1. ASSUME NEW u \in Users,
             \/ \E d \in JobDrafts : CreateJobOrderDraft(j, u, d)
             \/ SubmitJobOrder(j, u) \/ ApproveJobOrder(j, u)
             \/ CancelJobOrder(j, u) \/ FailJobOrder(j, u)
      PROVE  Still
  BY <1>1 DEF CreateJobOrderDraft, SubmitJobOrder, ApproveJobOrder, CancelJobOrder,
     FailJobOrder, Still, stockVars
<1>2. ASSUME NEW u \in Users, ReleaseJobOrder(j, u) PROVE Still
  <2>1. doc' = [doc EXCEPT ![ConsumeSlot(j)] = Ensured(ConsumeSlot(j)),
                           ![OutputSlot(j)] = Ensured(OutputSlot(j))]
    BY <1>2 DEF ReleaseJobOrder
  <2>2. Opened BY <2>1 DEF LedgerShape, Opened
  <2> QED BY <1>2, <2>2 DEF ReleaseJobOrder, Still
<1>3. ASSUME NEW c \in Callers, StartJobFinalize(c, j) \/ CompleteJobFinalize(c, j)
      PROVE  Ending(c)
  BY <1>3 DEF StartJobFinalize, CompleteJobFinalize, Ending
<1> QED BY <1>1, <1>2, <1>3 DEF JobStep, JobDesk, Passing

\* The two start one of the job's postings.
LEMMA JobSteps ==
    ASSUME LedgerShape, NEW j \in Jobs, JobStep(j) PROVE JobKind(j)
<1>0. ConsumeSlot(j) \in JobSlots(j) /\ OutputSlot(j) \in JobSlots(j) BY DEF JobSlots
<1>1. ASSUME NEW c \in Callers, NEW u \in Users, StartJobPrepare(c, j, u)
      PROVE  JobStarting(c, j)
  BY <1>0, <1>1 DEF StartJobPrepare, JobStarting
<1>2. ASSUME NEW c \in Callers, NEW u \in Users, NEW q, CompleteJobPrepare(c, j, u, q)
      PROVE  JobStarting(c, j)
  BY <1>0, <1>2 DEF CompleteJobPrepare, JobStarting
<1> QED BY <1>1, <1>2, JobKinds DEF JobKind

\* A request for the postings of an order starts on the order's slots.
LEMMA FulfillStarts ==
    ASSUME NEW o \in Orders, NEW c \in Callers, NEW u \in Users, FulfillPrepare(c, o, u)
    PROVE  Starting(c, OrderSlots(o))
<1> DEFINE general == ShipPlan(o, "ACTIVE", FALSE)
           jobOut == ShipPlan(o, "ACTIVE", TRUE)
           more == IF jobOut = {} THEN {} ELSE {<<JobOutSlot(o), jobOut>>}
<1>0. GeneralSlot(o) \in OrderSlots(o) /\ JobOutSlot(o) \in OrderSlots(o)
  BY DEF OrderSlots
<1>1. posting' = posting BY DEF FulfillPrepare
<1>2. \/ Prepared(c, GeneralSlot(o), general, more, oVersion[o])
      \/ Prepared(c, JobOutSlot(o), jobOut, {}, oVersion[o])
  BY DEF FulfillPrepare
<1>3. \A x \in more : x[1] \in OrderSlots(o)
  <2>1. CASE jobOut = {} BY <2>1
  <2>2. CASE jobOut # {}
    <3>1. \A x \in more : x = <<JobOutSlot(o), jobOut>> BY <2>2
    <3> HIDE DEF more, jobOut
    <3> QED BY <1>0, <3>1
  <2> QED BY <2>1, <2>2
<1> HIDE DEF general, jobOut, more
<1>4. CASE Prepared(c, GeneralSlot(o), general, more, oVersion[o])
  BY <1>0, <1>1, <1>3, <1>4 DEF Starting
<1>5. CASE Prepared(c, JobOutSlot(o), jobOut, {}, oVersion[o])
  BY <1>0, <1>1, <1>5 DEF Starting
<1> QED BY <1>2, <1>4, <1>5

\* Every order operation starts its posting for the outlet stock or touches
\* none; what a fulfilment leaves to post is of the order.
LEMMA OrderKinds ==
    ASSUME NEW o \in Orders, OrderStep(o)
    PROVE  Passing \/ \E c \in Callers, u \in Users : FulfillPrepare(c, o, u)
<1>1. ASSUME NEW u \in Users,
             \/ OrderDesk(o, u) \/ AllocateCustomerOrder(o, u)
             \/ MarkCustomerOrderInProduction(o, u) \/ MarkCustomerOrderReady(o, u)
             \/ CancelCustomerOrder(o, u)
      PROVE  Still
  <2>1. CASE OrderDesk(o, u)
    BY <2>1 DEF OrderDesk, CreateCustomerOrderDraft, UpdateCustomerOrderDraft,
       SubmitCustomerOrder, ApproveCustomerOrder, Still, stockVars
  <2>2. CASE AllocateCustomerOrder(o, u)
    BY <2>2 DEF AllocateCustomerOrder, Still, stockVars
  <2>3. CASE MarkCustomerOrderInProduction(o, u)
    BY <2>3 DEF MarkCustomerOrderInProduction, Still, stockVars
  <2>4. CASE MarkCustomerOrderReady(o, u)
    BY <2>4 DEF MarkCustomerOrderReady, Still, stockVars
  <2>5. CASE CancelCustomerOrder(o, u)
    BY <2>5 DEF CancelCustomerOrder, Still, stockVars
  <2> QED BY <1>1, <2>1, <2>2, <2>3, <2>4, <2>5
<1>2. ASSUME NEW c \in Callers, FulfillFinalize(c, o) PROVE Ending(c)
  BY <1>2 DEF FulfillFinalize, Ending
<1> QED BY <1>1, <1>2 DEF OrderStep, Passing

\* An order's operations are ledger steps on the order's two slots.
LEMMA OrderSteps ==
    ASSUME NEW o \in Orders, OrderStep(o) PROVE LedgerStep(OrderSlots(o))
BY OrderKinds, FulfillStarts DEF LedgerStep

\* A second posting is of an order.
LEMMA ContinueSteps ==
    ASSUME RestOfOrders, NEW c \in Callers, FulfillContinue(c)
    PROVE  Continuing(c, AllOrderSlots)
BY DEF RestOfOrders, FulfillContinue, Continuing

\* The bills of materials post nothing.
LEMMA BomSteps == ASSUME BomNext PROVE Still
BY DEF BomNext, BomStep, CreateBomHeader, CreateDraftVersion, ReplaceDraftComponents,
   ActivateVersion, RetireVersion, Still, stockVars

\* Every step is one of a job, one of an order, or passes by both.
LEMMA ProductionStepKinds ==
    ASSUME ProductionLedger, [ProductionNext]_productionVars
    PROVE  LedgerStep(AllOrderSlots) \/ \E j \in Jobs : JobStep(j) /\ JobKind(j)
<1>0. LedgerShape /\ CallShape(ProductionSlots) /\ RestOfOrders
  BY DEF ProductionLedger, LedgerInv
<1>1. CASE PostingNext \/ \E c \in Callers : FulfillCompensate(c)
  <2>1. PostingNext \/ \E c \in Callers : Compensate(c) BY <1>1 DEF FulfillCompensate
  <2> QED BY <1>0, <2>1, PostingSteps DEF LedgerStep
<1>2. CASE BomNext BY <1>2, BomSteps DEF LedgerStep, Passing
<1>3. CASE JobNext BY <1>0, <1>3, JobSteps DEF JobNext
<1>4. CASE OrderNext
  <2>1. ASSUME NEW o \in Orders, OrderStep(o) PROVE LedgerStep(AllOrderSlots)
    <3>1. OrderSlots(o) \in SUBSET AllOrderSlots BY DEF AllOrderSlots
    <3> QED BY <2>1, <3>1, OrderSteps, LedgerStepWidens
  <2> QED BY <1>0, <1>4, <2>1, ContinueSteps DEF OrderNext, LedgerStep
<1>5. CASE UNCHANGED productionVars
  BY <1>5 DEF productionVars, stockVars, LedgerStep, Passing, Still
<1> QED BY <1>1, <1>2, <1>3, <1>4, <1>5 DEF ProductionNext

\* What a job's operation does is a ledger step on the job's two slots.
LEMMA JobKindSteps ==
    ASSUME NEW j \in Jobs, JobKind(j) PROVE LedgerStep(JobSlots(j))
<1>1. ASSUME NEW c \in Callers, JobStarting(c, j) PROVE Starting(c, JobSlots(j))
  <2>1. PICK s \in JobSlots(j) : \E plan, v : Prepared(c, s, plan, {}, v)
    BY <1>1 DEF JobStarting
  <2>2. PICK plan, v : Prepared(c, s, plan, {}, v) BY <2>1
  <2>3. posting' = posting BY <1>1 DEF JobStarting
  <2> QED BY <2>2, <2>3 DEF Starting
<1> QED BY <1>1 DEF JobKind, LedgerStep

\* Every step keeps the ledger.
LEMMA ProductionLedgerKept ==
    ASSUME ProductionLedger, [ProductionNext]_productionVars PROVE ProductionLedger'
<1>0. CallShape(ProductionSlots) /\ RestOfOrders /\ LedgerInv(ProductionSlots)
  BY DEF ProductionLedger, LedgerInv
<1>1. AllOrderSlots \subseteq ProductionSlots
        /\ \A j \in Jobs : JobSlots(j) \subseteq ProductionSlots
  BY DEF ProductionSlots
<1>2. LedgerStep(ProductionSlots)
  BY <1>1, ProductionStepKinds, JobKindSteps, LedgerStepWidens
<1>3. LedgerInv(ProductionSlots)'
  BY <1>0, <1>2, ProductionSlotsKnown, LedgerKept
<1>4. ASSUME Passing PROVE RestOfOrders'
  <2>1. CASE Still BY <1>0, <2>1 DEF Still, RestOfOrders
  <2>2. ASSUME NEW c \in Callers, Answering(c) \/ Committing(c) PROVE RestOfOrders'
    BY <1>0, <2>2, AnsweredCall DEF RestOfOrders
  <2>3. ASSUME NEW c \in Callers, Ending(c) PROVE RestOfOrders'
    <3>1. Finished(c) BY <2>3 DEF Ending
    <3> QED BY <1>0, <3>1, EndedCall, IdleCall DEF RestOfOrders
  <2> QED BY <1>4, <2>1, <2>2, <2>3 DEF Passing
<1>5. ASSUME NEW c \in Callers, Starting(c, AllOrderSlots) \/ Continuing(c, AllOrderSlots)
      PROVE  RestOfOrders'
  BY <1>0, <1>5, TakenCall DEF RestOfOrders
<1>6. ASSUME NEW c \in Callers, NEW j \in Jobs, JobStarting(c, j) PROVE RestOfOrders'
  <2>1. PICK s \in JobSlots(j) : \E plan, v : Prepared(c, s, plan, {}, v)
    BY <1>6 DEF JobStarting
  <2>2. PICK plan, v : Prepared(c, s, plan, {}, v) BY <2>1
  <2>3. call'[c].rest = {} /\ \A k \in Callers \ {c} : call'[k] = call[k]
    BY <1>0, <2>2, StartsWith
  <2> QED BY <1>0, <2>3 DEF RestOfOrders
<1>7. RestOfOrders'
  BY <1>4, <1>5, <1>6, ProductionStepKinds DEF LedgerStep, JobKind
<1> QED BY <1>3, <1>7 DEF ProductionLedger

-----------------------------------------------------------------------------
(* The history of a job: what its status says of its two postings and of   *)
(* the requests at work on them.                                           *)

JobShape ==
    /\ DOMAIN jStatus = Jobs /\ DOMAIN jSite = Jobs
    /\ DOMAIN jLines = Jobs /\ DOMAIN jActual = Jobs

\* Components leave the job's warehouse; the output enters it, in some quantity.
FromWarehouse(P, w) ==
    \A m \in P : m = ConsumeMove(m.line, [wh |-> w, lot |-> m.lot, qty |-> m.qty])
IsOutput(P, j) == \E q : P = {OutputMove(j, q)}
DrawnLots(j) ==
    {ConsumeMove(l.no, [wh |-> JobWarehouse(j), lot |-> l.lot, qty |-> l.qty]) :
       l \in jLines[j]}

JobEarly(j) ==
    jStatus[j] \in {"ABSENT", "DRAFT", "SUBMITTED", "APPROVED"} =>
        Untouched(ConsumeSlot(j))
JobUnstarted(j) ==
    jStatus[j] \notin {"IN_PROGRESS", "COMPLETED", "FAILED"} => Untouched(OutputSlot(j))
JobReleased(j) ==
    jStatus[j] = "RELEASED" =>
        /\ FromWarehouse(posting[ConsumeSlot(j)], JobWarehouse(j))
        /\ \A c \in Callers : call[c].slot = ConsumeSlot(j) =>
             FromWarehouse(call[c].plan, JobWarehouse(j))
JobStarted(j) ==
    jStatus[j] \in {"IN_PROGRESS", "COMPLETED", "FAILED"} =>
        posting[ConsumeSlot(j)] = DrawnLots(j) /\ posting[ConsumeSlot(j)] # {}
JobOutput(j) ==
    jStatus[j] = "IN_PROGRESS" =>
        \A c \in Callers : call[c].slot = OutputSlot(j) => IsOutput(call[c].plan, j)
JobDone(j) == jStatus[j] = "COMPLETED" => posting[OutputSlot(j)] = {OutputMove(j, jActual[j])}

JobInv(j) ==
    /\ jStatus[j] \in JobStatuses
    /\ JobEarly(j) /\ JobUnstarted(j) /\ JobReleased(j) /\ JobStarted(j)
    /\ JobOutput(j) /\ JobDone(j)
JobHistory == JobShape /\ \A j \in Jobs : JobInv(j)

SameJob(j) ==
    /\ jStatus'[j] = jStatus[j] /\ jSite'[j] = jSite[j]
    /\ jLines'[j] = jLines[j] /\ jActual'[j] = jActual[j]

\* Every step keeps the jobs' status and rows functions of the jobs.
LEMMA JobShapeKept == ASSUME JobShape, [ProductionNext]_productionVars PROVE JobShape'
<1>1. ASSUME NEW j \in Jobs, JobStep(j) PROVE JobShape'
  <2>1. ASSUME NEW u \in Users, JobDesk(j, u) \/ CancelJobOrder(j, u) \/ FailJobOrder(j, u)
        PROVE  JobShape'
    BY <2>1 DEF JobDesk, CreateJobOrderDraft, SubmitJobOrder, ApproveJobOrder,
       ReleaseJobOrder, CancelJobOrder, FailJobOrder, JobAdvances, JobShape
  <2>2. ASSUME NEW c \in Callers, StartJobFinalize(c, j) \/ CompleteJobFinalize(c, j)
        PROVE  JobShape'
    BY <2>2 DEF StartJobFinalize, CompleteJobFinalize, JobAdvances, JobShape
  <2>3. ASSUME NEW c \in Callers, NEW u \in Users,
               StartJobPrepare(c, j, u) \/ \E q \in Quantity : CompleteJobPrepare(c, j, u, q)
        PROVE  JobShape'
    BY <2>3 DEF StartJobPrepare, CompleteJobPrepare, jobVars, JobShape
  <2> QED BY <1>1, <2>1, <2>2, <2>3 DEF JobStep
<1>2. ASSUME UNCHANGED jobVars PROVE JobShape'
  BY <1>2 DEF jobVars, JobShape
<1> QED BY <1>1, <1>2 DEF ProductionNext, JobNext, productionVars

\* An operation on one job leaves the rows and postings of another alone.
LEMMA OtherJobs ==
    ASSUME JobShape, NEW j \in Jobs, NEW k \in Jobs, k # j, JobStep(k) PROVE SameJob(j)
<1>1. ASSUME NEW u \in Users, JobDesk(k, u) \/ CancelJobOrder(k, u) \/ FailJobOrder(k, u)
      PROVE  SameJob(j)
  BY <1>1 DEF JobDesk, CreateJobOrderDraft, SubmitJobOrder, ApproveJobOrder,
     ReleaseJobOrder, CancelJobOrder, FailJobOrder, JobAdvances, JobShape, SameJob
<1>2. ASSUME NEW c \in Callers, StartJobFinalize(c, k) \/ CompleteJobFinalize(c, k)
      PROVE  SameJob(j)
  BY <1>2 DEF StartJobFinalize, CompleteJobFinalize, JobAdvances, JobShape, SameJob
<1>3. ASSUME NEW c \in Callers, NEW u \in Users,
             StartJobPrepare(c, k, u) \/ \E q \in Quantity : CompleteJobPrepare(c, k, u, q)
      PROVE  SameJob(j)
  BY <1>3 DEF StartJobPrepare, CompleteJobPrepare, jobVars, SameJob
<1> QED BY <1>1, <1>2, <1>3 DEF JobStep

\* Steps that are not the job's own leave its history as it is.
LEMMA JobFrame ==
    ASSUME ProductionLedger, JobShape, [ProductionNext]_productionVars, NEW j \in Jobs
    PROVE  JobStep(j) \/ (SameJob(j) /\ Undisturbed(JobSlots(j)))
<1>0. JobSlots(j) \in SUBSET Slots BY ProductionSlotsKnown DEF ProductionSlots
<1>1. ASSUME NEW T, LedgerStep(T), T \cap JobSlots(j) = {} PROVE Undisturbed(JobSlots(j))
  BY <1>0, <1>1, QuietSteps DEF ProductionLedger
<1>2. CASE \E k \in Jobs : JobStep(k)
  <2>1. PICK k \in Jobs : JobStep(k) BY <1>2
  <2>2. CASE k # j
    <3>1. LedgerStep(JobSlots(k))
      BY <2>1, JobSteps, JobKindSteps DEF ProductionLedger, LedgerInv
    <3> QED BY <1>1, <2>1, <2>2, <3>1, OtherJobs, ProductionSlotsApart
  <2> QED BY <2>1, <2>2
<1>3. CASE ~\E k \in Jobs : JobStep(k)
  <2>1. UNCHANGED jobVars BY <1>3 DEF ProductionNext, JobNext, productionVars
  <2>2. LedgerStep(AllOrderSlots) BY <1>3, ProductionStepKinds
  <2> QED BY <1>1, <2>1, <2>2, ProductionSlotsApart DEF jobVars, SameJob
<1> QED BY <1>2, <1>3

\* A job's warehouse and output lot are read from its outlet.
LEMMA SameWarehouse ==
    ASSUME NEW j \in Jobs, jSite'[j] = jSite[j]
    PROVE  /\ JobWarehouse(j)' = JobWarehouse(j)
           /\ \A q : OutputMove(j, q)' = OutputMove(j, q)
<1>1. JobWarehouse(j)' = JobWarehouse(j) BY DEF JobWarehouse, ProductionWarehouses
<1> QED BY <1>1 DEF OutputMove

\* With rows, postings and requests unchanged, a job's history stands.
LEMMA JobQuiet ==
    ASSUME NEW j \in Jobs, JobInv(j), SameJob(j), Undisturbed(JobSlots(j)) PROVE JobInv(j)'
<1> DEFINE s == ConsumeSlot(j)
           t == OutputSlot(j)
<1>0. s \in JobSlots(j) /\ t \in JobSlots(j) BY DEF JobSlots
<1>1. /\ jStatus'[j] = jStatus[j] /\ jLines'[j] = jLines[j] /\ jActual'[j] = jActual[j]
      /\ jSite'[j] = jSite[j]
  BY DEF SameJob
<1>2. JobWarehouse(j)' = JobWarehouse(j) /\ \A q : OutputMove(j, q)' = OutputMove(j, q)
  BY <1>1, SameWarehouse
<1>3. DrawnLots(j)' = DrawnLots(j) BY <1>1, <1>2 DEF DrawnLots, ConsumeMove
<1>4. s' = s /\ t' = t BY DEF ConsumeSlot, OutputSlot
<1>5. /\ Untouched(s) => Untouched(s)'
      /\ Untouched(t) => Untouched(t)'
  BY <1>0, UntouchedKept
<1>6. /\ posting'[s] = posting[s] \/ PostedMeanwhile(s)
      /\ posting'[t] = posting[t] \/ PostedMeanwhile(t)
      /\ \A c \in Callers : call'[c].slot \in {s, t} =>
           call'[c].slot = call[c].slot /\ call'[c].plan = call[c].plan
  BY <1>0 DEF Undisturbed
<1>7. JobEarly(j)' /\ JobUnstarted(j)'
  BY <1>1, <1>5 DEF JobInv, JobEarly, JobUnstarted
<1>8. JobReleased(j)'
  BY <1>1, <1>2, <1>6 DEF JobInv, JobReleased, PostedMeanwhile, FromWarehouse, ConsumeMove
<1>9. JobStarted(j)'
  BY <1>1, <1>3, <1>6 DEF JobInv, JobStarted, PostedMeanwhile
<1>10. JobOutput(j)'
  BY <1>1, <1>2, <1>6 DEF JobInv, JobOutput, IsOutput
<1>11. JobDone(j)'
  BY <1>1, <1>2, <1>6 DEF JobInv, JobDone, PostedMeanwhile
<1> QED BY <1>1, <1>7, <1>8, <1>9, <1>10, <1>11 DEF JobInv

\* Every portion of a need comes from one of the candidate balances.
LEMMA PortionsFrom ==
    ASSUME NEW w, NEW L, NEW free, NEW need, NEW p \in Portions({w} \X L, free, need)
    PROVE  p.wh = w
<1> DEFINE cand == {w} \X L
           ahead(x) == {y \in cand : Fefo[y] < Fefo[x]}
           open(x) == need - SumFunctionOnSet(free, ahead(x))
           willing == {y \in cand : open(y) > 0}
<1>1. PICK x \in willing :
           p = [wh |-> x[1], lot |-> x[2], qty |-> MinOf(free[x], open(x))]
  BY DEF Portions
<1>2. x \in cand OBVIOUS
<1> HIDE DEF open, willing
<1>3. x[1] = w BY <1>2
<1> QED BY <1>1, <1>3

\* A job consumes from its production warehouse only.
LEMMA ConsumeFromWarehouse ==
    ASSUME NEW j \in Jobs PROVE FromWarehouse(ConsumePlan(j), JobWarehouse(j))
<1> SUFFICES ASSUME NEW m \in ConsumePlan(j)
             PROVE  m = ConsumeMove(m.line, [wh |-> JobWarehouse(j), lot |-> m.lot,
                                             qty |-> m.qty])
  BY DEF FromWarehouse
<1>1. PICK l \in jLines[j] :
        \E p \in Portions(JobCandidates(j, l.item), OnShelf, l.qty) : m = ConsumeMove(l.no, p)
  BY DEF ConsumePlan
<1>2. PICK p \in Portions(JobCandidates(j, l.item), OnShelf, l.qty) : m = ConsumeMove(l.no, p)
  BY <1>1
<1>3. p.wh = JobWarehouse(j) BY <1>2, PortionsFrom DEF JobCandidates
<1> QED BY <1>2, <1>3 DEF ConsumeMove

\* Every operation on a job keeps its history.
LEMMA JobStepKeeps ==
    ASSUME ProductionLedger, JobShape, NEW j \in Jobs, JobInv(j), JobStep(j)
    PROVE  JobInv(j)'
<1> DEFINE s == ConsumeSlot(j)
           t == OutputSlot(j)
<1>0. /\ CallShape(ProductionSlots) /\ Answer
      /\ s \in JobSlots(j) /\ t \in JobSlots(j) /\ s # t
  BY ProductionSlotsApart DEF ProductionLedger, LedgerInv, JobSlots
<1>1. ASSUME NEW u \in Users, JobDesk(j, u) \/ CancelJobOrder(j, u) \/ FailJobOrder(j, u)
      PROVE  JobInv(j)'
  <2>1. call' = call /\ posting' = posting
    BY <1>1 DEF JobDesk, CreateJobOrderDraft, SubmitJobOrder, ApproveJobOrder,
       ReleaseJobOrder, CancelJobOrder, FailJobOrder, stockVars
  <2>2. CASE \/ (\E d \in JobDrafts : CreateJobOrderDraft(j, u, d))
             \/ SubmitJobOrder(j, u) \/ ApproveJobOrder(j, u)
    <3>1. /\ jStatus[j] \in {"ABSENT", "DRAFT", "SUBMITTED"}
          /\ jStatus'[j] \in {"DRAFT", "SUBMITTED", "APPROVED"}
      BY <2>2 DEF CreateJobOrderDraft, SubmitJobOrder, ApproveJobOrder, JobAdvances, JobShape
    <3> QED BY <2>1, <3>1 DEF JobInv, JobStatuses, JobEarly, JobUnstarted, JobReleased,
               JobStarted, JobOutput, JobDone, Untouched
  <2>3. CASE ReleaseJobOrder(j, u)
    <3>1. jStatus[j] = "APPROVED" /\ jStatus'[j] = "RELEASED"
      BY <2>3 DEF ReleaseJobOrder, JobAdvances, JobShape
    <3>2. Untouched(s) /\ Untouched(t) BY <3>1 DEF JobInv, JobEarly, JobUnstarted
    <3>3. JobReleased(j)' BY <2>1, <3>2 DEF JobReleased, Untouched, FromWarehouse
    <3>4. JobUnstarted(j)' BY <2>1, <3>2 DEF JobUnstarted, Untouched
    <3> QED BY <3>1, <3>3, <3>4 DEF JobInv, JobStatuses, JobEarly, JobStarted, JobOutput,
               JobDone
  <2>4. CASE CancelJobOrder(j, u)
    <3>1. /\ jStatus[j] \in {"DRAFT", "SUBMITTED", "APPROVED", "RELEASED"}
          /\ jStatus'[j] = "CANCELLED"
      BY <2>4 DEF CancelJobOrder, JobAdvances, JobShape
    <3>2. JobUnstarted(j)' BY <2>1, <3>1 DEF JobInv, JobUnstarted, Untouched
    <3> QED BY <3>1, <3>2 DEF JobInv, JobStatuses, JobEarly, JobReleased, JobStarted,
               JobOutput, JobDone
  <2>5. CASE FailJobOrder(j, u)
    <3>1. /\ jStatus[j] = "IN_PROGRESS" /\ jStatus'[j] = "FAILED"
          /\ jSite' = jSite /\ jLines' = jLines
      BY <2>5 DEF FailJobOrder, JobAdvances, JobShape
    <3>2. DrawnLots(j)' = DrawnLots(j)
      BY <3>1, SameWarehouse DEF DrawnLots, ConsumeMove
    <3>3. JobStarted(j)' BY <2>1, <3>1, <3>2 DEF JobInv, JobStarted
    <3> QED BY <3>1, <3>3 DEF JobInv, JobStatuses, JobEarly, JobUnstarted, JobReleased,
               JobOutput, JobDone
  <2> QED BY <1>1, <2>2, <2>3, <2>4, <2>5 DEF JobDesk
<1>2. ASSUME NEW c \in Callers, NEW u \in Users, StartJobPrepare(c, j, u) PROVE JobInv(j)'
  <2>1. /\ Prepared(c, s, ConsumePlan(j), {}, jVersion[j])
        /\ posting' = posting /\ jStatus[j] = "RELEASED"
        /\ jStatus' = jStatus /\ jSite' = jSite
    BY <1>2 DEF StartJobPrepare, jobVars
  <2>2. /\ call'[c].slot = s /\ call'[c].plan = ConsumePlan(j)
        /\ \A k \in Callers \ {c} : call'[k] = call[k]
    BY <1>0, <2>1, StartsWith
  <2>3. JobWarehouse(j)' = JobWarehouse(j) BY <2>1, SameWarehouse
  <2>4. JobReleased(j)'
    BY <2>1, <2>2, <2>3, ConsumeFromWarehouse DEF JobInv, JobReleased, FromWarehouse,
       ConsumeMove
  <2>5. JobUnstarted(j)' BY <1>0, <2>1, <2>2 DEF JobInv, JobUnstarted, Untouched
  <2> QED BY <2>1, <2>4, <2>5 DEF JobInv, JobEarly, JobStarted, JobOutput, JobDone
<1>3. ASSUME NEW c \in Callers, NEW u \in Users, NEW q, CompleteJobPrepare(c, j, u, q)
      PROVE  JobInv(j)'
  <2>1. /\ Prepared(c, t, {OutputMove(j, q)}, {}, jVersion[j])
        /\ posting' = posting /\ jStatus[j] = "IN_PROGRESS"
        /\ jStatus' = jStatus /\ jSite' = jSite /\ jLines' = jLines
    BY <1>3 DEF CompleteJobPrepare
  <2>2. /\ call'[c].slot = t /\ call'[c].plan = {OutputMove(j, q)}
        /\ \A k \in Callers \ {c} : call'[k] = call[k]
    BY <1>0, <2>1, StartsWith
  <2>3. JobWarehouse(j)' = JobWarehouse(j) /\ \A x : OutputMove(j, x)' = OutputMove(j, x)
    BY <2>1, SameWarehouse
  <2>4. DrawnLots(j)' = DrawnLots(j) BY <2>1, <2>3 DEF DrawnLots, ConsumeMove
  <2>5. JobStarted(j)' BY <2>1, <2>4 DEF JobInv, JobStarted
  <2>6. JobOutput(j)' BY <2>1, <2>2, <2>3 DEF JobInv, JobOutput, IsOutput
  <2> QED BY <2>1, <2>5, <2>6 DEF JobInv, JobEarly, JobUnstarted, JobReleased, JobDone
<1>4. ASSUME NEW c \in Callers, Finished(c), posting' = posting, SameJob(j)
      PROVE  JobInv(j)'
  <2>1. JobSlots(j) \in SUBSET Slots BY ProductionSlotsKnown DEF ProductionSlots
  <2> QED BY <1>0, <1>4, <2>1, FinishedDisturbsNothing, JobQuiet
<1>5. ASSUME NEW c \in Callers, StartJobFinalize(c, j) PROVE JobInv(j)'
  <2>1. /\ call[c].phase = "posted" /\ call[c].slot = s /\ Finished(c)
        /\ posting' = posting /\ jSite' = jSite /\ jActual' = jActual
    BY <1>5 DEF StartJobFinalize
  <2>2. posting[s] = call[c].plan /\ call[c].plan # {} BY <1>0, <2>1 DEF Answer
  <2>3. \A k \in Callers : call'[k] = call[k] \/ call'[k] = Idle
    BY <1>0, <2>1, EndedCall
  <2>4. CASE UNCHANGED <<jStatus, jVersion, jLines>>
    BY <1>4, <2>1, <2>4 DEF SameJob
  <2>5. CASE /\ JobAdvances(j, {"RELEASED"}, "IN_PROGRESS")
             /\ jLines' = [jLines EXCEPT ![j] =
                  {[no |-> m.line, item |-> ItemOf[m.lot], lot |-> m.lot, qty |-> m.qty] :
                     m \in call[c].plan}]
    <3>1. jStatus[j] = "RELEASED" /\ jStatus'[j] = "IN_PROGRESS"
      BY <2>5 DEF JobAdvances, JobShape
    <3> DEFINE P == call[c].plan
               w == JobWarehouse(j)
               Row(m) == [no |-> m.line, item |-> ItemOf[m.lot], lot |-> m.lot,
                          qty |-> m.qty]
               Drawn(l) == ConsumeMove(l.no, [wh |-> w, lot |-> l.lot, qty |-> l.qty])
    <3>2. jLines'[j] = {Row(m) : m \in P} BY <2>5 DEF JobShape
    <3>3. FromWarehouse(P, w) BY <2>1, <3>1 DEF JobInv, JobReleased
    <3>4. JobWarehouse(j)' = w BY <2>1, SameWarehouse
    <3>5. DrawnLots(j)' = {Drawn(l) : l \in jLines'[j]}
      BY <3>4 DEF DrawnLots, ConsumeMove
    <3>6. DrawnLots(j)' = P
      <4>1. ASSUME NEW m \in P PROVE Drawn(Row(m)) = m
        <5>1. Drawn(Row(m)) = ConsumeMove(m.line, [wh |-> w, lot |-> m.lot, qty |-> m.qty])
          BY DEF ConsumeMove
        <5> QED BY <3>3, <5>1 DEF FromWarehouse
      <4> HIDE DEF P, Row, Drawn
      <4> QED BY <3>2, <3>5, <4>1
    <3>7. JobStarted(j)' BY <2>1, <2>2, <3>6 DEF JobStarted
    <3>8. Untouched(t) BY <3>1 DEF JobInv, JobUnstarted
    <3>9. JobOutput(j)'
      <4>1. t # NoSlot BY <1>0, ProductionSlotsKnown, NoSlotIsNone DEF ProductionSlots
      <4>2. \A k \in Callers : call'[k].slot # t
        BY <2>3, <3>8, <4>1, IdleCall DEF Untouched
      <4> QED BY <4>2 DEF JobOutput
    <3> QED BY <3>1, <3>7, <3>9 DEF JobInv, JobStatuses, JobEarly, JobUnstarted,
               JobReleased, JobDone
  <2> QED BY <1>5, <2>4, <2>5 DEF StartJobFinalize
<1>6. ASSUME NEW c \in Callers, CompleteJobFinalize(c, j) PROVE JobInv(j)'
  <2>1. /\ call[c].phase = "posted" /\ call[c].slot = t /\ Finished(c)
        /\ posting' = posting /\ jSite' = jSite /\ jLines' = jLines
    BY <1>6 DEF CompleteJobFinalize
  <2>2. posting[t] = call[c].plan BY <1>0, <2>1 DEF Answer
  <2>3. CASE UNCHANGED <<jStatus, jVersion, jActual>>
    BY <1>4, <2>1, <2>3 DEF SameJob
  <2>4. CASE /\ JobAdvances(j, {"IN_PROGRESS"}, "COMPLETED")
             /\ jActual' = [jActual EXCEPT ![j] = (CHOOSE m \in call[c].plan : TRUE).qty]
    <3>1. jStatus[j] = "IN_PROGRESS" /\ jStatus'[j] = "COMPLETED"
      BY <2>4 DEF JobAdvances, JobShape
    <3>2. PICK q : call[c].plan = {OutputMove(j, q)}
      BY <2>1, <3>1 DEF JobInv, JobOutput, IsOutput
    <3>3. (CHOOSE m \in call[c].plan : TRUE) = OutputMove(j, q) BY <3>2
    <3>4. OutputMove(j, q).qty = q BY DEF OutputMove
    <3>5. jActual'[j] = q BY <2>4, <3>3, <3>4 DEF JobShape
    <3>6. JobWarehouse(j)' = JobWarehouse(j) /\ \A x : OutputMove(j, x)' = OutputMove(j, x)
      BY <2>1, SameWarehouse
    <3>7. DrawnLots(j)' = DrawnLots(j) BY <2>1, <3>6 DEF DrawnLots, ConsumeMove
    <3>8. JobStarted(j)' BY <2>1, <3>1, <3>7 DEF JobInv, JobStarted
    <3>9. JobDone(j)'
      <4>1. OutputMove(j, jActual[j])' = OutputMove(j, q) BY <3>5, <3>6 DEF OutputMove
      <4> QED BY <2>1, <2>2, <3>2, <4>1 DEF JobDone
    <3> QED BY <3>1, <3>8, <3>9 DEF JobInv, JobStatuses, JobEarly, JobUnstarted,
               JobReleased, JobOutput
  <2> QED BY <1>6, <2>3, <2>4 DEF CompleteJobFinalize
<1> QED BY <1>1, <1>2, <1>3, <1>5, <1>6 DEF JobStep

\* At first no job has a history.
LEMMA JobInitial == ASSUME ProductionInit PROVE JobHistory
<1>1. JobInit /\ StockInit BY DEF ProductionInit
<1>2. Idle.slot = NoSlot BY DEF Idle
<1>3. JobShape BY <1>1 DEF JobInit, JobShape
<1>4. ASSUME NEW j \in Jobs PROVE JobInv(j)
  <2>1. jStatus[j] = "ABSENT" BY <1>1 DEF JobInit
  <2>2. ConsumeSlot(j) \in ProductionSlots /\ OutputSlot(j) \in ProductionSlots
    BY DEF ProductionSlots, JobSlots
  <2>3. Untouched(ConsumeSlot(j)) /\ Untouched(OutputSlot(j))
    BY <1>1, <1>2, <2>2, ProductionSlotsKnown, NoSlotIsNone DEF StockInit, Untouched
  <2> QED BY <2>1, <2>3 DEF JobInv, JobStatuses, JobEarly, JobUnstarted, JobReleased,
             JobStarted, JobOutput, JobDone
<1> QED BY <1>3, <1>4 DEF JobHistory

\* Every step keeps the history of every job.
LEMMA JobsKept ==
    ASSUME ProductionLedger, JobHistory, [ProductionNext]_productionVars PROVE JobHistory'
<1>1. JobShape BY DEF JobHistory
<1>2. JobShape' BY <1>1, JobShapeKept
<1>3. ASSUME NEW j \in Jobs PROVE JobInv(j)'
  <2>0. JobInv(j) BY DEF JobHistory
  <2> QED BY <1>1, <2>0, JobStepKeeps, JobQuiet, JobFrame
<1> QED BY <1>2, <1>3 DEF JobHistory

-----------------------------------------------------------------------------

\* A job that has been started consumed exactly the lots its rows name, and a
\* completed one brought exactly what it reports (startJobOrder and
\* completeJobOrder under crashes, lost answers, replanned retries and a job
\* cancelled or failed on the way), for any number of jobs and callers.
THEOREM JobsBacked == ProductionSpec => []JobsBackedByPosting
<1>1. ProductionInit => ProductionLedger /\ JobHistory
  <2> SUFFICES ASSUME ProductionInit PROVE ProductionLedger /\ JobHistory OBVIOUS
  <2>1. StockInit BY DEF ProductionInit
  <2>2. RestOfOrders BY <2>1, IdleCall DEF StockInit, RestOfOrders
  <2> QED BY <2>1, <2>2, LedgerInitial, JobInitial DEF ProductionLedger
<1>2. ProductionLedger /\ JobHistory /\ [ProductionNext]_productionVars => (ProductionLedger /\ JobHistory)'
  BY ProductionLedgerKept, JobsKept
<1>3. JobHistory => JobsBackedByPosting
  <2> SUFFICES ASSUME JobHistory, NEW j \in Jobs
               PROVE  /\ jStatus[j] \in {"IN_PROGRESS", "COMPLETED", "FAILED"} =>
                           posting[ConsumeSlot(j)] = DrawnLots(j)
                      /\ jStatus[j] = "COMPLETED" =>
                           posting[OutputSlot(j)] = {OutputMove(j, jActual[j])}
                      /\ posting[OutputSlot(j)] # {} => posting[ConsumeSlot(j)] # {}
    BY DEF JobsBackedByPosting, DrawnLots
  <2> QED BY DEF JobHistory, JobInv, JobStarted, JobDone, JobUnstarted, Untouched
<1> QED BY <1>1, <1>2, <1>3, PTL DEF ProductionSpec

-----------------------------------------------------------------------------
(* First expiring, first out.                                              *)

\* What a need is met with: at most one portion of a balance, no more than is
\* free of it and no more than is needed.
LEMMA PortionsTyped ==
    ASSUME NEW cand \in SUBSET (Warehouses \X Lots), NEW free, NEW need \in Quantity,
           \A x \in cand : free[x] \in Nat \ {0}
    PROVE  /\ IsFiniteSet(Portions(cand, free, need))
           /\ \A p \in Portions(cand, free, need) :
                /\ p = [wh |-> p.wh, lot |-> p.lot, qty |-> p.qty]
                /\ <<p.wh, p.lot>> \in cand /\ p.qty \in Quantity
                /\ p.qty <= free[<<p.wh, p.lot>>]
           /\ \A p, k \in Portions(cand, free, need) : p.wh = k.wh /\ p.lot = k.lot => p = k
<1> DEFINE ahead(x) == {y \in cand : Fefo[y] < Fefo[x]}
           open(x) == need - SumFunctionOnSet(free, ahead(x))
           willing == {y \in cand : open(y) > 0}
           f == [x \in willing |-> [wh |-> x[1], lot |-> x[2], qty |-> MinOf(free[x], open(x))]]
<1>1. Portions(cand, free, need) = {f[x] : x \in willing}
  BY DEF Portions
<1>2. IsFiniteSet(cand) /\ willing \subseteq cand
  <2>1. IsFiniteSet(Warehouses \X Lots)
    BY JobAssumptions, FS_Product
  <2> QED BY <2>1, FS_Subset
<1>3. ASSUME NEW x \in cand PROVE open(x) \in Int /\ open(x) <= need
  <2>1. IsFiniteSet(ahead(x)) /\ \A y \in ahead(x) : free[y] \in Nat
    BY <1>2, FS_Subset
  <2>2. SumFunctionOnSet(free, ahead(x)) \in Nat
    BY <2>1, SumNat
  <2>3. need \in Int
    BY StockAssumptions DEF Quantity
  <2> HIDE DEF ahead
  <2> QED BY <2>2, <2>3
<1>4. ASSUME NEW x \in willing
      PROVE  /\ f[x] = [wh |-> x[1], lot |-> x[2], qty |-> f[x].qty]
             /\ x \in cand /\ x = <<x[1], x[2]>>
             /\ f[x].qty \in Quantity /\ f[x].qty <= free[x]
  <2>1. x \in cand /\ open(x) > 0
    OBVIOUS
  <2>2. open(x) \in Int /\ open(x) <= need /\ free[x] \in Nat \ {0} /\ need \in 1..MaxQty
    BY <1>3, <2>1 DEF Quantity
  <2>3. f[x] = [wh |-> x[1], lot |-> x[2], qty |-> MinOf(free[x], open(x))]
    OBVIOUS
  <2> HIDE DEF open, f, willing
  <2>4. MinOf(free[x], open(x)) \in Quantity /\ MinOf(free[x], open(x)) <= free[x]
    BY <2>1, <2>2, StockAssumptions DEF MinOf, Quantity
  <2> QED BY <2>1, <2>3, <2>4
<1>5. DOMAIN f = willing /\ f = [x \in willing |-> f[x]]
  OBVIOUS
<1>6. IsFiniteSet(willing)
  BY <1>2, FS_Subset
<1> HIDE DEF f, willing
<1>7. IsFiniteSet({f[x] : x \in willing})
  BY <1>5, <1>6, FiniteImage
<1> DEFINE P == {f[x] : x \in willing}
<1>8. ASSUME NEW p \in P
      PROVE  /\ p = [wh |-> p.wh, lot |-> p.lot, qty |-> p.qty]
             /\ <<p.wh, p.lot>> \in cand /\ p.qty \in Quantity
             /\ p.qty <= free[<<p.wh, p.lot>>]
             /\ p = f[<<p.wh, p.lot>>]
  <2>1. PICK x \in willing : p = f[x]
    OBVIOUS
  <2>2. /\ f[x] = [wh |-> x[1], lot |-> x[2], qty |-> f[x].qty] /\ x = <<x[1], x[2]>>
        /\ x \in cand /\ f[x].qty \in Quantity /\ f[x].qty <= free[x]
    BY <1>4
  <2>3. f[x].wh = x[1] /\ f[x].lot = x[2]
    BY <2>2
  <2> HIDE DEF P
  <2>4. p.wh = x[1] /\ p.lot = x[2] /\ <<p.wh, p.lot>> = x
    BY <2>1, <2>2, <2>3
  <2>5. p = [wh |-> p.wh, lot |-> p.lot, qty |-> p.qty]
    BY <2>1, <2>2, <2>4
  <2> QED BY <2>1, <2>2, <2>4, <2>5
<1>9. Portions(cand, free, need) = P /\ IsFiniteSet(P)
  BY <1>1, <1>7
<1> HIDE DEF P
<1>10. \A p, k \in P : p.wh = k.wh /\ p.lot = k.lot => p = k
  <2> TAKE p, k \in P
  <2> HAVE p.wh = k.wh /\ p.lot = k.lot
  <2>1. p = f[<<p.wh, p.lot>>] /\ k = f[<<k.wh, k.lot>>]
    BY <1>8
  <2> QED BY <2>1
<1>11. \A p \in P :
        /\ p = [wh |-> p.wh, lot |-> p.lot, qty |-> p.qty]
        /\ <<p.wh, p.lot>> \in cand /\ p.qty \in Quantity
        /\ p.qty <= free[<<p.wh, p.lot>>]
  BY <1>8
<1> QED BY <1>9, <1>10, <1>11

-----------------------------------------------------------------------------
(* The types of bills, jobs and orders.                                    *)

BomTyped == BomTypeOK /\ \A v \in Versions : IsFiniteSet(bParts[v])
JobTyped ==
    /\ JobTypeOK
    /\ \A j \in Jobs :
         /\ IsFiniteSet(jLines[j])
         /\ jStatus[j] # "ABSENT" => ProductionWarehouses(jSite[j]) # {}

\* Every operation on a bill keeps its type.
LEMMA BomsTyped == ASSUME BomTyped, BomNext PROVE BomTyped'
<1>0. /\ bOutput \in [Headers -> Items \cup {None}] /\ bStatus \in [Versions -> BomStatuses]
      /\ bYield \in [Versions -> Yields \cup {0}]
      /\ bParts \in [Versions -> {p \in SUBSET Component : IsFiniteSet(p)}]
  BY DEF BomTyped, BomTypeOK
<1>1. ASSUME /\ bOutput' \in [Headers -> Items \cup {None}]
             /\ bStatus' \in [Versions -> BomStatuses]
             /\ bYield' \in [Versions -> Yields \cup {0}]
             /\ bParts' \in [Versions -> {p \in SUBSET Component : IsFiniteSet(p)}]
      PROVE  BomTyped'
  BY <1>1 DEF BomTyped, BomTypeOK
<1>2. ASSUME NEW u \in Users, NEW h \in Headers, NEW item \in Items, CreateBomHeader(h, u, item)
      PROVE  BomTyped'
  BY <1>0, <1>1, <1>2 DEF CreateBomHeader
<1>3. ASSUME NEW u \in Users, NEW h \in Headers, NEW n \in 1..MaxVersions, NEW y \in Yields,
             CreateDraftVersion(h, n, u, y)
      PROVE  BomTyped'
  <2>1. bStatus' \in [Versions -> BomStatuses]
    BY <1>0, <1>3 DEF CreateDraftVersion, BomStatuses
  <2>2. bYield' \in [Versions -> Yields \cup {0}]
    BY <1>0, <1>3 DEF CreateDraftVersion
  <2> QED BY <1>0, <1>1, <1>3, <2>1, <2>2 DEF CreateDraftVersion
<1>4. ASSUME NEW u \in Users, NEW v \in Versions, NEW r \in Recipes,
             ReplaceDraftComponents(v, u, r)
      PROVE  BomTyped'
  <2>1. r \in {p \in SUBSET Component : IsFiniteSet(p)}
    BY BomAssumptions DEF Recipe
  <2> QED BY <1>0, <1>1, <1>4, <2>1 DEF ReplaceDraftComponents
<1>5. ASSUME NEW u \in Users, NEW v \in Versions, ActivateVersion(v, u) PROVE BomTyped'
  <2>1. bStatus' \in [Versions -> BomStatuses]
    BY <1>0, <1>5 DEF ActivateVersion, BomStatuses
  <2> QED BY <1>0, <1>1, <1>5, <2>1 DEF ActivateVersion
<1>6. ASSUME NEW u \in Users, NEW v \in Versions, RetireVersion(v, u) PROVE BomTyped'
  <2>1. bStatus' \in [Versions -> BomStatuses]
    BY <1>0, <1>6 DEF RetireVersion, BomStatuses
  <2> QED BY <1>0, <1>1, <1>6, <2>1 DEF RetireVersion
<1> QED BY <1>2, <1>3, <1>4, <1>5, <1>6 DEF BomNext, BomStep

\* A job that exists works in a known warehouse.
LEMMA JobWarehouseKnown ==
    ASSUME JobTyped, NEW j \in Jobs, jStatus[j] # "ABSENT"
    PROVE  JobWarehouse(j) \in Warehouses
<1>1. ProductionWarehouses(jSite[j]) # {}
  BY DEF JobTyped
<1>2. JobWarehouse(j) \in ProductionWarehouses(jSite[j])
  BY <1>1 DEF JobWarehouse
<1> QED BY <1>2 DEF ProductionWarehouses

\* A job's consumption is a finite plan of moves.
LEMMA ConsumePlanTyped ==
    ASSUME StockTyped, JobTyped, NEW j \in Jobs, jStatus[j] # "ABSENT"
    PROVE  ConsumePlan(j) \in Plans
<1> DEFINE lines == jLines[j]
           Of(l) == Portions(JobCandidates(j, l.item), OnShelf, l.qty)
           part == [l \in lines |-> {ConsumeMove(l.no, p) : p \in Of(l)}]
<1>0. /\ IsFiniteSet(lines) /\ JobWarehouse(j) \in Warehouses
      /\ \A l \in lines : l.no \in Nat /\ l.qty \in Quantity
  BY JobWarehouseKnown DEF JobTyped, JobTypeOK, JobLine
<1>1. ASSUME NEW l \in lines PROVE part[l] \in Plans
  <2> DEFINE cand == JobCandidates(j, l.item)
             move == [p \in Of(l) |-> ConsumeMove(l.no, p)]
  <2>1. cand \in SUBSET (Warehouses \X Lots)
    BY <1>0 DEF JobCandidates, Plannable
  <2>2. \A x \in cand : OnShelf[x] \in Nat \ {0}
    <3> TAKE x \in cand
    <3>1. x[1] \in Warehouses /\ x[2] \in Lots /\ x \in Warehouses \X Lots
            /\ onHand[x[1]][x[2]] > 0
      BY <1>0 DEF JobCandidates, Plannable
    <3>2. onHand[x[1]][x[2]] \in Nat
      BY <3>1 DEF StockTyped, Balances
    <3> QED BY <3>1, <3>2 DEF OnShelf
  <2>3. /\ IsFiniteSet(Of(l))
        /\ \A p \in Of(l) : <<p.wh, p.lot>> \in cand /\ p.qty \in Quantity
    <3> HIDE DEF cand
    <3> QED BY <1>0, <2>1, <2>2, PortionsTyped DEF cand
  <2>4. \A p \in Of(l) : ConsumeMove(l.no, p) \in Move
    BY <1>0, <2>1, <2>3 DEF ConsumeMove, Move, Policies
  <2>5. /\ part[l] = {move[p] : p \in Of(l)} /\ move = [p \in Of(l) |-> move[p]]
        /\ \A p \in Of(l) : move[p] \in Move
    BY <2>4
  <2> HIDE DEF move, cand, part, Of
  <2>6. {move[p] : p \in Of(l)} \in Plans
    BY <2>3, <2>5, PlanOfLines
  <2> QED BY <2>5, <2>6
<1>2. ConsumePlan(j) = UNION {part[l] : l \in lines}
  BY DEF ConsumePlan
<1>3. DOMAIN part = lines /\ part = [l \in lines |-> part[l]]
  OBVIOUS
<1> HIDE DEF part, lines
<1>4. IsFiniteSet({part[l] : l \in lines})
  BY <1>0, <1>3, FiniteImage
<1>5. \A T \in {part[l] : l \in lines} : IsFiniteSet(T) /\ T \subseteq Move
  BY <1>1 DEF Plans
<1>6. IsFiniteSet(UNION {part[l] : l \in lines})
  BY <1>4, <1>5, FS_UNION
<1> QED BY <1>2, <1>5, <1>6 DEF Plans

\* A job's output is a finite plan of moves.
LEMMA OutputPlanTyped ==
    ASSUME JobTyped, NEW j \in Jobs, jStatus[j] # "ABSENT", NEW q \in Quantity
    PROVE  {OutputMove(j, q)} \in Plans
<1>1. OutputMove(j, q) \in Move
  BY JobWarehouseKnown, JobAssumptions DEF OutputMove, Move, Policies
<1>2. IsFiniteSet({OutputMove(j, q)})
  BY FS_Singleton
<1> QED BY <1>1, <1>2 DEF Plans

JobFrameTyped ==
    /\ jStatus \in [Jobs -> JobStatuses] /\ jVersion \in [Jobs -> Nat]
    /\ jMaker \in [Jobs -> Users \cup {None}] /\ jBom \in [Jobs -> Versions \cup {None}]
    /\ jSite \in [Jobs -> {d.site : d \in JobDrafts} \cup {None}]
    /\ jLines \in [Jobs -> {p \in SUBSET JobLine : IsFiniteSet(p)}]
    /\ jEvidence \in [Jobs -> 0..MaxQty] /\ jActual \in [Jobs -> 0..MaxQty]
JobSited == \A j \in Jobs : jStatus[j] # "ABSENT" => ProductionWarehouses(jSite[j]) # {}

\* The type of the jobs, in the parts the steps are checked by.
LEMMA JobTypedParts == JobTyped <=> JobFrameTyped /\ JobSited
<1>1. JobTyped => JobFrameTyped /\ JobSited
  BY DEF JobTyped, JobTypeOK, JobFrameTyped, JobSited
<1>2. JobFrameTyped /\ JobSited => JobTyped
  BY DEF JobTyped, JobTypeOK, JobFrameTyped, JobSited
<1> QED BY <1>1, <1>2

\* Moving a job on to another status keeps the types of what it changes.
LEMMA JobAdvanced ==
    ASSUME JobFrameTyped, JobSited, NEW j \in Jobs, NEW from, NEW to \in JobStatuses,
           JobAdvances(j, from, to), "ABSENT" \notin from, jSite' = jSite
    PROVE  jStatus' \in [Jobs -> JobStatuses] /\ jVersion' \in [Jobs -> Nat] /\ JobSited'
<1>1. jStatus' \in [Jobs -> JobStatuses] /\ jVersion' \in [Jobs -> Nat]
  BY DEF JobFrameTyped, JobAdvances
<1>2. \A k \in Jobs : jStatus'[k] # "ABSENT" => jStatus[k] # "ABSENT"
  BY DEF JobFrameTyped, JobAdvances
<1>3. JobSited'
  BY <1>2 DEF JobSited, ProductionWarehouses
<1> QED BY <1>1, <1>3

\* The rows of a new job.
LEMMA PlannedLines ==
    ASSUME BomTyped, NEW v \in Versions, NEW q,
           \A x \in bParts[v] : Planned(v, x, q) \in Quantity
    PROVE  {[no |-> x.no, item |-> x.item, lot |-> None, qty |-> Planned(v, x, q)] :
              x \in bParts[v]} \in {p \in SUBSET JobLine : IsFiniteSet(p)}
<1> DEFINE parts == bParts[v]
           f == [x \in parts |-> [no |-> x.no, item |-> x.item, lot |-> None,
                                  qty |-> Planned(v, x, q)]]
<1>1. IsFiniteSet(parts) /\ \A x \in parts : x.no \in Nat /\ x.item \in Items
  BY DEF BomTyped, BomTypeOK, Component
<1>2. \A x \in parts : f[x] \in JobLine
  BY <1>1 DEF JobLine
<1>3. f = [x \in parts |-> f[x]] /\ DOMAIN f = parts
  OBVIOUS
<1>4. {[no |-> x.no, item |-> x.item, lot |-> None, qty |-> Planned(v, x, q)] :
         x \in bParts[v]} = {f[x] : x \in parts}
  OBVIOUS
<1> HIDE DEF f, parts
<1>5. IsFiniteSet({f[x] : x \in parts})
  BY <1>1, <1>3, FiniteImage
<1> QED BY <1>2, <1>4, <1>5

\* The rows of a started job, from the plan that was posted.
LEMMA DrawnLines ==
    ASSUME NEW P \in Plans
    PROVE  {[no |-> m.line, item |-> ItemOf[m.lot], lot |-> m.lot, qty |-> m.qty] :
              m \in P} \in {p \in SUBSET JobLine : IsFiniteSet(p)}
<1> DEFINE f == [m \in P |-> [no |-> m.line, item |-> ItemOf[m.lot], lot |-> m.lot,
                              qty |-> m.qty]]
<1>1. IsFiniteSet(P) /\ \A m \in P : m.line \in Nat /\ m.lot \in Lots /\ m.qty \in Quantity
  BY DEF Plans, Move
<1>2. \A m \in P : f[m] \in JobLine
  BY <1>1, StockAssumptions DEF JobLine
<1>3. f = [m \in P |-> f[m]] /\ DOMAIN f = P
  OBVIOUS
<1>4. {[no |-> m.line, item |-> ItemOf[m.lot], lot |-> m.lot, qty |-> m.qty] : m \in P}
        = {f[m] : m \in P}
  OBVIOUS
<1> HIDE DEF f
<1>5. IsFiniteSet({f[m] : m \in P})
  BY <1>1, <1>3, FiniteImage
<1> QED BY <1>2, <1>4, <1>5

\* Every operation on a job keeps the type of its rows.
LEMMA JobRowsTyped ==
    ASSUME StockTyped, BomTyped, JobTyped, LedgerShape, Answer, NEW j \in Jobs, JobStep(j)
    PROVE  JobTyped'
<1>0. JobFrameTyped /\ JobSited
  BY JobTypedParts
<1>1. ASSUME JobFrameTyped', JobSited' PROVE JobTyped'
  <2>1. (JobFrameTyped /\ JobSited => JobTyped)'
    BY <1>1 DEF JobTyped, JobTypeOK, JobFrameTyped, JobSited
  <2> QED BY <1>1, <2>1
<1>2. ASSUME NEW u \in Users, NEW d \in JobDrafts, CreateJobOrderDraft(j, u, d)
      PROVE  JobTyped'
  <2>1. d.version \in Versions /\ d.site \in {x.site : x \in JobDrafts}
    BY JobAssumptions DEF JobDraft
  <2>2. {[no |-> x.no, item |-> x.item, lot |-> None, qty |-> Planned(d.version, x, d.qty)] :
           x \in bParts[d.version]} \in {p \in SUBSET JobLine : IsFiniteSet(p)}
    BY <1>2, <2>1, PlannedLines DEF CreateJobOrderDraft
  <2> DEFINE rows == {[no |-> x.no, item |-> x.item, lot |-> None,
                       qty |-> Planned(d.version, x, d.qty)] : x \in bParts[d.version]}
  <2>3. jLines' = [jLines EXCEPT ![j] = rows]
    BY <1>2 DEF CreateJobOrderDraft
  <2> HIDE DEF rows
  <2>4. jLines' \in [Jobs -> {p \in SUBSET JobLine : IsFiniteSet(p)}]
    BY <1>0, <2>2, <2>3 DEF rows, JobFrameTyped
  <2>5. jStatus' = [jStatus EXCEPT ![j] = "DRAFT"] /\ jVersion' = [jVersion EXCEPT ![j] = @ + 1]
    BY <1>2 DEF CreateJobOrderDraft, JobAdvances
  <2>6. /\ jBom' = [jBom EXCEPT ![j] = d.version] /\ jSite' = [jSite EXCEPT ![j] = d.site]
        /\ jMaker' = jMaker /\ jEvidence' = jEvidence /\ jActual' = jActual
    BY <1>2 DEF CreateJobOrderDraft
  <2>7. jStatus' \in [Jobs -> JobStatuses] /\ jVersion' \in [Jobs -> Nat]
    BY <1>0, <2>5 DEF JobFrameTyped, JobStatuses
  <2>8. JobFrameTyped'
    BY <1>0, <2>1, <2>4, <2>6, <2>7 DEF JobFrameTyped
  <2>9. JobSited'
    <3>1. ProductionWarehouses(d.site) # {}
      BY <1>2 DEF CreateJobOrderDraft
    <3>2. \A k \in Jobs : k # j => jStatus'[k] = jStatus[k] /\ jSite'[k] = jSite[k]
      BY <1>0, <2>5, <2>6 DEF JobFrameTyped
    <3>3. jSite'[j] = d.site
      BY <1>0, <2>6 DEF JobFrameTyped
    <3> QED BY <1>0, <3>1, <3>2, <3>3 DEF JobSited, ProductionWarehouses
  <2> QED BY <1>1, <2>8, <2>9
<1>3. ASSUME NEW u \in Users, SubmitJobOrder(j, u) PROVE JobTyped'
  <2>1. JobAdvances(j, {"DRAFT"}, "SUBMITTED") /\ jMaker' = [jMaker EXCEPT ![j] = u]
        /\ UNCHANGED <<jBom, jSite, jLines, jEvidence, jActual>>
    BY <1>3 DEF SubmitJobOrder
  <2>2. jStatus' \in [Jobs -> JobStatuses] /\ jVersion' \in [Jobs -> Nat] /\ JobSited'
    BY <1>0, <2>1, JobAdvanced DEF JobStatuses
  <2> QED BY <1>0, <1>1, <2>1, <2>2 DEF JobFrameTyped
<1>4. ASSUME NEW from, NEW to \in JobStatuses, JobAdvances(j, from, to), "ABSENT" \notin from,
             UNCHANGED <<jMaker, jBom, jSite, jLines, jEvidence, jActual>>
      PROVE  JobTyped'
  <2>2. jStatus' \in [Jobs -> JobStatuses] /\ jVersion' \in [Jobs -> Nat] /\ JobSited'
    BY <1>0, <1>4, JobAdvanced
  <2> QED BY <1>0, <1>1, <1>4, <2>2 DEF JobFrameTyped
<1>5. ASSUME NEW u \in Users,
             \/ ApproveJobOrder(j, u) \/ ReleaseJobOrder(j, u)
             \/ CancelJobOrder(j, u) \/ FailJobOrder(j, u)
      PROVE  JobTyped'
  BY <1>4, <1>5 DEF ApproveJobOrder, ReleaseJobOrder, CancelJobOrder, FailJobOrder, JobStatuses
<1>6. ASSUME UNCHANGED jobVars PROVE JobTyped'
  BY <1>0, <1>1, <1>6 DEF jobVars, JobFrameTyped, JobSited, ProductionWarehouses
<1>7. ASSUME NEW c \in Callers, NEW u \in Users, StartJobPrepare(c, j, u) PROVE JobTyped'
  BY <1>6, <1>7 DEF StartJobPrepare
<1>8. ASSUME NEW c \in Callers, NEW u \in Users, NEW q \in Quantity,
             CompleteJobPrepare(c, j, u, q)
      PROVE  JobTyped'
  <2>1. /\ jEvidence' = [jEvidence EXCEPT ![j] = IF @ = 0 THEN q ELSE @]
        /\ UNCHANGED <<jStatus, jVersion, jMaker, jBom, jSite, jLines, jActual>>
    BY <1>8 DEF CompleteJobPrepare
  <2>2. q \in 0..MaxQty
    BY StockAssumptions DEF Quantity
  <2>3. jEvidence' \in [Jobs -> 0..MaxQty]
    BY <1>0, <2>1, <2>2 DEF JobFrameTyped
  <2> QED BY <1>0, <1>1, <2>1, <2>3 DEF JobFrameTyped, JobSited, ProductionWarehouses
<1>9. ASSUME NEW c \in Callers, StartJobFinalize(c, j) PROVE JobTyped'
  <2>0. UNCHANGED <<jMaker, jBom, jSite, jEvidence, jActual>>
    BY <1>9 DEF StartJobFinalize
  <2>1. CASE UNCHANGED <<jStatus, jVersion, jLines>>
    BY <1>6, <2>0, <2>1 DEF jobVars
  <2>2. CASE /\ JobAdvances(j, {"RELEASED"}, "IN_PROGRESS")
             /\ jLines' = [jLines EXCEPT ![j] =
                 {[no |-> m.line, item |-> ItemOf[m.lot], lot |-> m.lot, qty |-> m.qty] :
                    m \in call[c].plan}]
    <3>1. call[c].plan \in Plans
      BY SoundPlan DEF StockTyped
    <3> DEFINE rows == {[no |-> m.line, item |-> ItemOf[m.lot], lot |-> m.lot,
                         qty |-> m.qty] : m \in call[c].plan}
    <3>2. rows \in {p \in SUBSET JobLine : IsFiniteSet(p)}
      BY <3>1, DrawnLines
    <3>3. jLines' = [jLines EXCEPT ![j] = rows] /\ JobAdvances(j, {"RELEASED"}, "IN_PROGRESS")
      BY <2>2
    <3> HIDE DEF rows
    <3>4. jLines' \in [Jobs -> {p \in SUBSET JobLine : IsFiniteSet(p)}]
      BY <1>0, <3>2, <3>3 DEF JobFrameTyped
    <3>5. jStatus' \in [Jobs -> JobStatuses] /\ jVersion' \in [Jobs -> Nat] /\ JobSited'
      BY <1>0, <2>0, <3>3, JobAdvanced DEF JobStatuses
    <3> QED BY <1>0, <1>1, <2>0, <3>4, <3>5 DEF JobFrameTyped
  <2> QED BY <1>9, <2>1, <2>2 DEF StartJobFinalize
<1>10. ASSUME NEW c \in Callers, CompleteJobFinalize(c, j) PROVE JobTyped'
  <2>0. UNCHANGED <<jMaker, jBom, jSite, jLines, jEvidence>> /\ call[c].phase = "posted"
    BY <1>10 DEF CompleteJobFinalize
  <2>1. CASE UNCHANGED <<jStatus, jVersion, jActual>>
    BY <1>6, <2>0, <2>1 DEF jobVars
  <2>2. CASE /\ JobAdvances(j, {"IN_PROGRESS"}, "COMPLETED")
             /\ jActual' = [jActual EXCEPT ![j] = (CHOOSE m \in call[c].plan : TRUE).qty]
    <3>1. call[c].plan \in Plans /\ call[c].plan # {}
      BY <2>0, SoundPlan DEF StockTyped, Answer
    <3> DEFINE m == CHOOSE x \in call[c].plan : TRUE
    <3>2. m \in Move
      BY <3>1 DEF Plans
    <3>3. jActual' = [jActual EXCEPT ![j] = m.qty]
      BY <2>2
    <3> HIDE DEF m
    <3>4. m.qty \in 0..MaxQty
      BY <3>2, StockAssumptions DEF Move, Quantity
    <3>5. jActual' \in [Jobs -> 0..MaxQty]
      BY <1>0, <3>3, <3>4 DEF JobFrameTyped
    <3>6. jStatus' \in [Jobs -> JobStatuses] /\ jVersion' \in [Jobs -> Nat] /\ JobSited'
      BY <1>0, <2>0, <2>2, JobAdvanced DEF JobStatuses
    <3> QED BY <1>0, <1>1, <2>0, <3>5, <3>6 DEF JobFrameTyped
  <2> QED BY <1>10, <2>1, <2>2 DEF CompleteJobFinalize
<1> QED BY <1>2, <1>3, <1>5, <1>7, <1>8, <1>9, <1>10 DEF JobStep, JobDesk

\* Every operation on a job keeps the type of the stock.
LEMMA JobStockTyped ==
    ASSUME StockTyped, JobTyped, NEW j \in Jobs, JobStep(j) PROVE StockTyped'
<1>0. ConsumeSlot(j) \in Slots /\ OutputSlot(j) \in Slots
  BY JobAssumptions DEF ConsumeSlot, OutputSlot
<1>1. ASSUME UNCHANGED stockVars PROVE StockTyped'
  BY <1>1 DEF stockVars, StockTyped
<1>2. ASSUME NEW u \in Users,
             \/ \E d \in JobDrafts : CreateJobOrderDraft(j, u, d)
             \/ SubmitJobOrder(j, u) \/ ApproveJobOrder(j, u)
             \/ CancelJobOrder(j, u) \/ FailJobOrder(j, u)
      PROVE  StockTyped'
  BY <1>1, <1>2 DEF CreateJobOrderDraft, SubmitJobOrder, ApproveJobOrder, CancelJobOrder,
     FailJobOrder
<1>3. ASSUME NEW u \in Users, ReleaseJobOrder(j, u) PROVE StockTyped'
  <2>1. Ensured(ConsumeSlot(j)) \in DocRow /\ Ensured(OutputSlot(j)) \in DocRow
    BY <1>0, EnsuredTyped DEF StockTyped
  <2>2. /\ doc' = [doc EXCEPT ![ConsumeSlot(j)] = Ensured(ConsumeSlot(j)),
                              ![OutputSlot(j)] = Ensured(OutputSlot(j))]
        /\ UNCHANGED <<onHand, lotState, today, posting, call>>
    BY <1>3 DEF ReleaseJobOrder
  <2>3. doc' \in [Slots -> DocRow]
    BY <2>1, <2>2 DEF StockTyped
  <2> QED BY <2>2, <2>3 DEF StockTyped
<1>4. ASSUME NEW c \in Callers, NEW s \in Slots, NEW plan \in Plans,
             Prepared(c, s, plan, {}, jVersion[j]),
             lotState' \in [Lots -> LotStates], UNCHANGED <<onHand, today, posting>>
      PROVE  StockTyped'
  <2>1. jVersion[j] \in Nat
    BY DEF JobTyped, JobTypeOK
  <2>2. call' \in [Callers -> Sound] /\ doc' \in [Slots -> DocRow]
    BY <1>4, <2>1, PreparedTyped DEF StockTyped
  <2> QED BY <1>4, <2>2 DEF StockTyped
<1>5. ASSUME NEW c \in Callers, NEW u \in Users, StartJobPrepare(c, j, u) PROVE StockTyped'
  <2>1. ConsumePlan(j) \in Plans
    BY <1>5, ConsumePlanTyped DEF StartJobPrepare
  <2> QED BY <1>0, <1>4, <1>5, <2>1 DEF StartJobPrepare, StockTyped
<1>6. ASSUME NEW c \in Callers, NEW u \in Users, NEW q \in Quantity,
             CompleteJobPrepare(c, j, u, q)
      PROVE  StockTyped'
  <2>1. {OutputMove(j, q)} \in Plans
    BY <1>6, OutputPlanTyped DEF CompleteJobPrepare
  <2>2. lotState' \in [Lots -> LotStates]
    BY <1>6 DEF CompleteJobPrepare, StockTyped, LotStates
  <2>3. Prepared(c, OutputSlot(j), {OutputMove(j, q)}, {}, jVersion[j])
        /\ UNCHANGED <<onHand, today, posting>>
    BY <1>6 DEF CompleteJobPrepare
  <2> QED BY <1>0, <1>4, <2>1, <2>2, <2>3
<1>7. ASSUME NEW c \in Callers, StartJobFinalize(c, j) \/ CompleteJobFinalize(c, j)
      PROVE  StockTyped'
  <2>1. Finished(c) /\ UNCHANGED <<onHand, lotState, today, doc, posting>>
    BY <1>7 DEF StartJobFinalize, CompleteJobFinalize
  <2>2. call' \in [Callers -> Sound]
    BY <2>1, FinishedSound DEF StockTyped
  <2> QED BY <2>1, <2>2 DEF StockTyped
<1> QED BY <1>2, <1>3, <1>5, <1>6, <1>7 DEF JobStep, JobDesk

-----------------------------------------------------------------------------
(* Allocation.                                                             *)

AllocRows == {R \in SUBSET Allocation : IsFiniteSet(R)}
NewRows == {R \in AllocRows : \A r \in R : r.status = "ACTIVE"}
AllocResult == [ok : BOOLEAN, rows : NewRows]
OrderTyped == OrderTypeOK /\ \A o \in Orders : IsFiniteSet(oAlloc[o])

\* The function AllocateAll builds, as an equation.
UptoBody(g, o, wanted) ==
    [k \in 0..Len(oNeeds[o]) |->
        IF k = 0 THEN [ok |-> TRUE, rows |-> {}]
        ELSE IF k \in wanted THEN Allocate(o, g[k - 1], oNeeds[o][k])
        ELSE g[k - 1]]

\* AllocateAll is the last value of the function it defines.
LEMMA AllocateAllIsChosen ==
    ASSUME NEW o, NEW wanted
    PROVE  AllocateAll(o, wanted)
             = (CHOOSE g : g = UptoBody(g, o, wanted))[Len(oNeeds[o])]
BY Zenon DEF AllocateAll, UptoBody

\* An order's needs are a sequence of needs.
LEMMA NeedsTyped == ASSUME OrderTyped, NEW o \in Orders PROVE oNeeds[o] \in Seq(Need)
<1>1. \A d \in OrderDrafts : d.needs \in Seq(Need)
  BY OrderAssumptions DEF OrderDraft
<1>2. oNeeds[o] = <<>> \/ \E d \in OrderDrafts : oNeeds[o] = d.needs
  BY DEF OrderTyped, OrderTypeOK
<1>3. <<>> \in Seq(Need)
  OBVIOUS
<1> QED BY <1>1, <1>2, <1>3

\* Rows tagged with their order.
LEMMA TaggedFinite ==
    ASSUME NEW o, NEW R, IsFiniteSet(R) PROVE IsFiniteSet({<<o, r>> : r \in R})
<1> DEFINE f == [r \in R |-> <<o, r>>]
<1>1. {<<o, r>> : r \in R} = {f[r] : r \in R} /\ f = [r \in R |-> f[r]] /\ DOMAIN f = R
  OBVIOUS
<1> HIDE DEF f
<1> QED BY <1>1, FiniteImage

\* There are finitely many rows of status ACTIVE.
LEMMA ActiveRowsFinite ==
    ASSUME OrderTyped
    PROVE  IsFiniteSet(ActiveRows) /\ \A x \in ActiveRows : x[2].qty \in Nat
<1> DEFINE g == [o \in Orders |-> {<<o, r>> : r \in {x \in oAlloc[o] : x.status = "ACTIVE"}}]
<1>1. ASSUME NEW o \in Orders
      PROVE  IsFiniteSet(g[o]) /\ \A x \in g[o] : x[2].qty \in Nat
  <2> DEFINE R == {x \in oAlloc[o] : x.status = "ACTIVE"}
  <2>1. IsFiniteSet(R) /\ R \subseteq Allocation
    BY FS_Subset DEF OrderTyped, OrderTypeOK
  <2>2. \A r \in R : r.qty \in Nat
    BY <2>1, StockAssumptions DEF Allocation, Quantity
  <2>3. g[o] = {<<o, r>> : r \in R}
    OBVIOUS
  <2> HIDE DEF R, g
  <2>4. IsFiniteSet(g[o])
    BY <2>1, <2>3, TaggedFinite
  <2>5. ASSUME NEW x \in g[o] PROVE x[2].qty \in Nat
    <3>1. PICK r \in R : x = <<o, r>>
      BY <2>3
    <3> QED BY <2>2, <3>1
  <2> QED BY <2>4, <2>5
<1>2. ActiveRows = UNION {g[o] : o \in Orders} /\ DOMAIN g = Orders /\ g = [o \in Orders |-> g[o]]
  BY DEF ActiveRows
<1> HIDE DEF g
<1>3. IsFiniteSet({g[o] : o \in Orders})
  BY <1>2, OrderAssumptions, FiniteImage
<1>4. \A T \in {g[o] : o \in Orders} : IsFiniteSet(T)
  BY <1>1
<1>5. IsFiniteSet(UNION {g[o] : o \in Orders})
  BY <1>3, <1>4, FS_UNION
<1> QED BY <1>1, <1>2, <1>5

\* Sums of quantities are numbers.
LEMMA UnitsNat ==
    ASSUME NEW P, IsFiniteSet(P), \A x \in P : x[2].qty \in Nat
    PROVE  Units(P) \in Nat /\ \A T \in SUBSET P : Units(T) \in Nat /\ Units(T) <= Units(P)
<1>1. ASSUME NEW T \in SUBSET P PROVE Units(T) \in Nat /\ Units(T) <= Units(P)
  <2> DEFINE f == [x \in P |-> x[2].qty]
             h == [x \in T |-> x[2].qty]
  <2>1. \A x \in P : f[x] = x[2].qty /\ f[x] \in Nat
    OBVIOUS
  <2>2. \A x \in T : h[x] = f[x]
    OBVIOUS
  <2>3. Units(P) = SumFunctionOnSet(f, P) /\ Units(T) = SumFunctionOnSet(h, T)
    BY DEF Units
  <2>4. IsFiniteSet(T)
    BY FS_Subset
  <2> HIDE DEF f, h
  <2>5. SumFunctionOnSet(h, T) = SumFunctionOnSet(f, T)
    BY <2>2, <2>4, SumSame
  <2>6. SumFunctionOnSet(f, T) <= SumFunctionOnSet(f, P)
    BY <2>1, SumNat
  <2>7. SumFunctionOnSet(f, T) \in Nat
    BY <2>1, <2>4, SumNat
  <2> QED BY <2>3, <2>5, <2>6, <2>7
<1>2. P \in SUBSET P
  OBVIOUS
<1> QED BY <1>1, <1>2

\* What finitely many rows hold of a balance is a number.
LEMMA HeldNat ==
    ASSUME NEW P, IsFiniteSet(P), \A x \in P : x[2].qty \in Nat, NEW w, NEW l
    PROVE  Held(P, w, l) \in Nat
BY UnitsNat DEF Held

\* The rows held by orders and those of a new allocation: finitely many,
\* with numbers to hold.
LEMMA RowsWith ==
    ASSUME OrderTyped, NEW o, NEW R \in AllocRows
    PROVE  /\ IsFiniteSet(ActiveRows \cup {<<o, r>> : r \in R})
           /\ \A x \in ActiveRows \cup {<<o, r>> : r \in R} : x[2].qty \in Nat
<1> DEFINE T == {<<o, r>> : r \in R}
<1>1. IsFiniteSet(ActiveRows) /\ \A x \in ActiveRows : x[2].qty \in Nat
  BY ActiveRowsFinite
<1>2. IsFiniteSet(T)
  BY TaggedFinite DEF AllocRows
<1>3. \A x \in T : x[2].qty \in Nat
  BY StockAssumptions DEF AllocRows, Allocation, Quantity
<1> HIDE DEF T
<1>4. IsFiniteSet(ActiveRows \cup T)
  BY <1>1, <1>2, FS_Union
<1>5. \A x \in ActiveRows \cup T : x[2].qty \in Nat
  BY <1>1, <1>3
<1> QED BY <1>4, <1>5 DEF T

\* What a need takes: rows on candidates, within what is free of each.
LEMMA AllocateTyped ==
    ASSUME StockTyped, OrderTyped, NEW o, NEW done \in AllocResult, NEW need \in Need
    PROVE  Allocate(o, done, need) \in AllocResult
<1> DEFINE rows == ActiveRows \cup {<<o, r>> : r \in done.rows}
           free == FreeFor(o, rows)
           cand == OrderCandidates(o, need, free)
           P == Portions(cand, free, need.qty)
           row == [p \in P |-> [no |-> need.no, wh |-> p.wh, lot |-> p.lot, qty |-> p.qty,
                                status |-> "ACTIVE"]]
<1>1. /\ done.ok \in BOOLEAN /\ done.rows \in AllocRows
      /\ \A r \in done.rows : r.status = "ACTIVE"
  BY DEF AllocResult, NewRows
<1>2. IsFiniteSet(rows) /\ \A x \in rows : x[2].qty \in Nat
  BY <1>1, RowsWith
<1>3. cand \in SUBSET (Warehouses \X Lots) /\ \A x \in cand : free[x] > 0
  BY DEF OrderCandidates
<1>4. \A x \in cand : free[x] \in Nat \ {0}
  <2> TAKE x \in cand
  <2>1. x \in Warehouses \X Lots /\ x[1] \in Warehouses /\ x[2] \in Lots /\ free[x] > 0
    BY <1>3
  <2>2. onHand[x[1]][x[2]] \in Nat
    BY <2>1 DEF StockTyped, Balances
  <2> HIDE DEF rows
  <2>3. Held(rows, x[1], x[2]) \in Nat
    BY <1>2, HeldNat
  <2>4. free[x] = onHand[x[1]][x[2]] - Held(rows, x[1], x[2])
    BY <2>1 DEF FreeFor
  <2> HIDE DEF free
  <2> QED BY <2>1, <2>2, <2>3, <2>4
<1>5. need.qty \in Quantity /\ need.no \in Nat
  BY DEF Need
<1>6. IsFiniteSet(P) /\ \A p \in P : <<p.wh, p.lot>> \in cand /\ p.qty \in Quantity
  <2> HIDE DEF cand, free
  <2> QED BY <1>3, <1>4, <1>5, PortionsTyped
<1>7. \A p \in P : row[p] \in Allocation /\ row[p].status = "ACTIVE"
  <2> HIDE DEF cand, free, P
  <2>1. ASSUME NEW p \in P PROVE row[p] \in Allocation /\ row[p].status = "ACTIVE"
    <3>1. p.wh \in Warehouses /\ p.lot \in Lots /\ p.qty \in Quantity
      BY <1>3, <1>6
    <3> QED BY <1>5, <3>1 DEF Allocation
  <2> QED BY <2>1
<1>8. Allocate(o, done, need) =
        [ok |-> done.ok /\ Covers(cand, free, need.qty) /\ OneRowPerLot(P, need, done.rows),
         rows |-> done.rows \cup {row[p] : p \in P}]
  BY DEF Allocate
<1>9. row = [p \in P |-> row[p]] /\ DOMAIN row = P
  OBVIOUS
<1> HIDE DEF row, P, cand, free
<1>10. IsFiniteSet({row[p] : p \in P})
  BY <1>6, <1>9, FiniteImage
<1>11. IsFiniteSet(done.rows \cup {row[p] : p \in P})
  BY <1>1, <1>10, FS_Union DEF AllocRows
<1>12. done.rows \cup {row[p] : p \in P} \in NewRows
  BY <1>1, <1>7, <1>11 DEF AllocRows, NewRows
<1>13. (done.ok /\ Covers(cand, free, need.qty) /\ OneRowPerLot(P, need, done.rows)) \in BOOLEAN
  BY <1>1
<1> QED BY <1>8, <1>12, <1>13 DEF AllocResult

\* One need after another: what AllocateAll computes, step by step.
NeedByNeed(g, o, wanted) ==
    /\ g \in [0..Len(oNeeds[o]) -> AllocResult]
    /\ g[0] = [ok |-> TRUE, rows |-> {}]
    /\ \A k \in 1..Len(oNeeds[o]) :
         g[k] = IF k \in wanted THEN Allocate(o, g[k - 1], oNeeds[o][k]) ELSE g[k - 1]
    /\ AllocateAll(o, wanted) = g[Len(oNeeds[o])]

\* There is such a computation.
LEMMA AllocateAllSteps ==
    ASSUME StockTyped, OrderTyped, NEW o \in Orders, NEW wanted
    PROVE  \E g : NeedByNeed(g, o, wanted)
<1> DEFINE n == Len(oNeeds[o])
           b == [ok |-> TRUE, rows |-> {}]
           F == [x \in (1..n) \X AllocResult |->
                   IF x[1] \in wanted THEN Allocate(o, x[2], oNeeds[o][x[1]]) ELSE x[2]]
<1>1. oNeeds[o] \in Seq(Need)
  BY NeedsTyped
<1>2. n \in Nat /\ \A k \in 1..n : oNeeds[o][k] \in Need
  BY <1>1
<1>3. b \in AllocResult
  BY FS_EmptySet DEF AllocResult, AllocRows, NewRows
<1>4. F \in [(1..n) \X AllocResult -> AllocResult]
  <2>1. ASSUME NEW x \in (1..n) \X AllocResult PROVE F[x] \in AllocResult
    <3>1. x[1] \in 1..n /\ x[2] \in AllocResult
      OBVIOUS
    <3>2. oNeeds[o][x[1]] \in Need
      BY <1>2, <3>1
    <3>3. Allocate(o, x[2], oNeeds[o][x[1]]) \in AllocResult
      BY <3>1, <3>2, AllocateTyped
    <3> HIDE DEF n
    <3> QED BY <3>1, <3>3
  <2> QED BY <2>1
<1> HIDE DEF n, b
<1>5. PICK f \in [0..n -> AllocResult] : f[0] = b /\ \A k \in 1..n : f[k] = F[<<k, f[k - 1]>>]
  <2>1. n \in Nat
    BY <1>2
  <2> HIDE DEF F
  <2>2. \E f : Iterates(f, n, AllocResult, b, F)
    BY <1>3, <1>4, <2>1, Iterated
  <2> QED BY <2>2 DEF Iterates
<1>6. ASSUME NEW k \in 1..n
      PROVE  f[k] = IF k \in wanted THEN Allocate(o, f[k - 1], oNeeds[o][k]) ELSE f[k - 1]
  <2>1. k - 1 \in 0..n
    BY <1>2
  <2>2. f[k - 1] \in AllocResult
    BY <2>1
  <2>3. <<k, f[k - 1]>> \in (1..n) \X AllocResult
    BY <2>2
  <2>4. F[<<k, f[k - 1]>>]
          = IF k \in wanted THEN Allocate(o, f[k - 1], oNeeds[o][k]) ELSE f[k - 1]
    BY <2>3
  <2> QED BY <1>5, <2>4
<1>7. f = UptoBody(f, o, wanted)
  <2> DEFINE h == UptoBody(f, o, wanted)
  <2>1. h = [k \in 0..n |-> IF k = 0 THEN b
                            ELSE IF k \in wanted THEN Allocate(o, f[k - 1], oNeeds[o][k])
                            ELSE f[k - 1]]
    BY DEF UptoBody, n, b
  <2>2. f = [k \in 0..n |-> f[k]]
    OBVIOUS
  <2>3. ASSUME NEW k \in 0..n
        PROVE  f[k] = IF k = 0 THEN b
                      ELSE IF k \in wanted THEN Allocate(o, f[k - 1], oNeeds[o][k])
                      ELSE f[k - 1]
    <3>1. CASE k = 0
      BY <1>5, <3>1
    <3>2. CASE k # 0
      <4>1. k \in 1..n
        BY <1>2, <3>2
      <4> QED BY <1>6, <3>2, <4>1
    <3> QED BY <3>1, <3>2
  <2> HIDE DEF h
  <2>4. f = h
    BY Zenon, <2>1, <2>2, <2>3
  <2> QED BY <2>4 DEF h
<1> DEFINE g == CHOOSE g : g = UptoBody(g, o, wanted)
<1>8. g = UptoBody(g, o, wanted)
  BY <1>7
<1>9. AllocateAll(o, wanted) = g[n]
  BY AllocateAllIsChosen DEF n
<1> HIDE DEF g
<1>10. g = [k \in 0..n |-> IF k = 0 THEN b
                           ELSE IF k \in wanted THEN Allocate(o, g[k - 1], oNeeds[o][k])
                           ELSE g[k - 1]]
  BY <1>8 DEF UptoBody, n, b
<1>11. g[0] = b /\ \A k \in 1..n : g[k] = IF k \in wanted THEN Allocate(o, g[k - 1], oNeeds[o][k])
                                          ELSE g[k - 1]
  <2>1. 0 \in 0..n
    BY <1>2
  <2>2. g[0] = b
    BY <1>10, <2>1
  <2>3. ASSUME NEW k \in 1..n
        PROVE  g[k] = IF k \in wanted THEN Allocate(o, g[k - 1], oNeeds[o][k]) ELSE g[k - 1]
    <3>1. k \in 0..n /\ k # 0
      BY <1>2
    <3> QED BY <1>10, <3>1
  <2> QED BY <2>2, <2>3
<1>12. g \in [0..n -> AllocResult]
  <2> DEFINE S == {k \in 0..n : g[k] \in AllocResult}
  <2>1. 0 \in S
    BY <1>2, <1>3, <1>11
  <2>2. ASSUME NEW k \in 1..n, k - 1 \in S PROVE k \in S
    <3>1. k \in 0..n /\ g[k - 1] \in AllocResult
      BY <1>2, <2>2
    <3>2. Allocate(o, g[k - 1], oNeeds[o][k]) \in AllocResult
      BY <1>2, <3>1, AllocateTyped
    <3>3. g[k] \in AllocResult
      BY <1>11, <3>1, <3>2
    <3> QED BY <3>1, <3>3
  <2> HIDE DEF S
  <2>3. 0..n \subseteq S
    BY <1>2, <2>1, <2>2, Onwards
  <2>4. \A k \in 0..n : g[k] \in AllocResult
    BY <2>3 DEF S
  <2>5. DOMAIN g = 0..n /\ g = [k \in 0..n |-> g[k]]
    BY <1>10
  <2> QED BY <2>4, <2>5
<1> QED BY <1>9, <1>11, <1>12 DEF n, b, NeedByNeed

\* What AllocateAll returns is an answer with finitely many rows.
LEMMA AllocateAllTyped ==
    ASSUME StockTyped, OrderTyped, NEW o \in Orders, NEW wanted
    PROVE  AllocateAll(o, wanted) \in AllocResult
<1>1. PICK g : NeedByNeed(g, o, wanted)
  BY AllocateAllSteps
<1>2. Len(oNeeds[o]) \in Nat
  BY NeedsTyped
<1>3. Len(oNeeds[o]) \in 0..Len(oNeeds[o])
  BY <1>2
<1> QED BY <1>1, <1>3 DEF NeedByNeed

-----------------------------------------------------------------------------
(* Customer orders keep their types.                                       *)

OrderFrameTyped ==
    /\ oStatus \in [Orders -> OrderStatuses] /\ oVersion \in [Orders -> Nat]
    /\ oMaker \in [Orders -> Users \cup {None}]
    /\ oSite \in [Orders -> {d.site : d \in OrderDrafts} \cup {None}]
    /\ oNeeds \in [Orders -> {d.needs : d \in OrderDrafts} \cup {<<>>}]
    /\ oAlloc \in [Orders -> AllocRows]
    /\ oShipped \in [Orders -> Nat]

\* The type of the orders, in the parts the steps are checked by.
LEMMA OrderTypedParts == OrderTyped <=> OrderFrameTyped
<1>1. OrderTyped => OrderFrameTyped
  BY DEF OrderTyped, OrderTypeOK, OrderFrameTyped, AllocRows
<1>2. OrderFrameTyped => OrderTyped
  BY DEF OrderTyped, OrderTypeOK, OrderFrameTyped, AllocRows
<1> QED BY <1>1, <1>2

\* What an order ships is a finite plan of moves.
LEMMA ShipPlanTyped ==
    ASSUME OrderTyped, NEW o \in Orders, NEW status, NEW linked
    PROVE  ShipPlan(o, status, linked) \in Plans
<1> DEFINE R == {x \in oAlloc[o] : x.status = status /\ JobLinked(o, x.no) = linked}
           f == [r \in R |-> ShipMove(r)]
<1>1. IsFiniteSet(R) /\ R \subseteq Allocation
  BY FS_Subset DEF OrderTyped, OrderTypeOK
<1>2. \A r \in R : ShipMove(r) \in Move
  BY <1>1 DEF ShipMove, Allocation, Move, Policies
<1>3. ShipPlan(o, status, linked) = {f[r] : r \in R}
  BY DEF ShipPlan
<1>4. f = [r \in R |-> f[r]] /\ \A r \in R : f[r] \in Move
  BY <1>2
<1> HIDE DEF R, f
<1> QED BY <1>1, <1>3, <1>4, PlanOfLines

\* Rows whose status changes stay rows.
LEMMA RestatedRows ==
    ASSUME NEW R \in AllocRows, NEW g, \A r \in R : g[r] \in Allocation, DOMAIN g = R,
           g = [r \in R |-> g[r]]
    PROVE  {g[r] : r \in R} \in AllocRows
<1>1. IsFiniteSet(R)
  BY DEF AllocRows
<1>2. IsFiniteSet({g[r] : r \in R})
  BY <1>1, FiniteImage
<1> QED BY <1>2 DEF AllocRows

\* Releasing the rows of an order keeps their type.
LEMMA ReleasedTyped == ASSUME NEW R \in AllocRows PROVE Released(R) \in AllocRows
<1> DEFINE g == [r \in R |-> [r EXCEPT !.status = IF @ = "ACTIVE" THEN "RELEASED" ELSE @]]
<1>1. \A r \in R : g[r] \in Allocation
  BY DEF AllocRows, Allocation
<1>2. Released(R) = {g[r] : r \in R} /\ DOMAIN g = R /\ g = [r \in R |-> g[r]]
  BY DEF Released
<1> HIDE DEF g
<1> QED BY <1>1, <1>2, RestatedRows

\* Consuming the rows of an order keeps their type.
LEMMA ConsumedTyped ==
    ASSUME NEW R \in AllocRows, NEW C
    PROVE  {IF r \in C THEN [r EXCEPT !.status = "CONSUMED"] ELSE r : r \in R} \in AllocRows
<1> DEFINE g == [r \in R |-> IF r \in C THEN [r EXCEPT !.status = "CONSUMED"] ELSE r]
<1>1. \A r \in R : g[r] \in Allocation
  BY DEF AllocRows, Allocation
<1>2. {IF r \in C THEN [r EXCEPT !.status = "CONSUMED"] ELSE r : r \in R} = {g[r] : r \in R}
        /\ DOMAIN g = R /\ g = [r \in R |-> g[r]]
  OBVIOUS
<1> HIDE DEF g
<1> QED BY <1>1, <1>2, RestatedRows

\* A sum over finitely many rows is a number.
LEMMA RowsQtyNat ==
    ASSUME NEW R \in AllocRows, NEW S \in SUBSET R PROVE QtyOf(S) \in Nat
<1> DEFINE f == [m \in S |-> m.qty]
<1>1. IsFiniteSet(S)
  BY FS_Subset DEF AllocRows
<1>2. \A m \in S : f[m] \in Nat
  BY StockAssumptions DEF AllocRows, Allocation, Quantity
<1>3. QtyOf(S) = SumFunctionOnSet(f, S)
  BY DEF QtyOf
<1> HIDE DEF f
<1> QED BY <1>1, <1>2, <1>3, SumNat

\* Every operation on an order keeps the type of its rows.
LEMMA OrderRowsTyped ==
    ASSUME StockTyped, OrderTyped, NEW o \in Orders, OrderStep(o) PROVE OrderTyped'
<1>0. OrderFrameTyped
  BY OrderTypedParts
<1>1. ASSUME OrderFrameTyped' PROVE OrderTyped'
  BY <1>1 DEF OrderTyped, OrderTypeOK, OrderFrameTyped, AllocRows
<1>2. ASSUME NEW from, NEW to \in OrderStatuses, OrderAdvances(o, from, to)
      PROVE  oStatus' \in [Orders -> OrderStatuses] /\ oVersion' \in [Orders -> Nat]
  BY <1>0, <1>2 DEF OrderFrameTyped, OrderAdvances
<1>3. ASSUME NEW u \in Users, NEW d \in OrderDrafts, CreateCustomerOrderDraft(o, u, d)
      PROVE  OrderTyped'
  <2>1. oStatus' \in [Orders -> OrderStatuses] /\ oVersion' \in [Orders -> Nat]
    BY <1>2, <1>3 DEF CreateCustomerOrderDraft, OrderStatuses
  <2> QED BY <1>0, <1>1, <1>3, <2>1 DEF CreateCustomerOrderDraft, OrderFrameTyped
<1>4. ASSUME NEW u \in Users, NEW d \in OrderDrafts, UpdateCustomerOrderDraft(o, u, d.needs)
      PROVE  OrderTyped'
  BY <1>0, <1>1, <1>4 DEF UpdateCustomerOrderDraft, OrderFrameTyped
<1>5. ASSUME NEW u \in Users, SubmitCustomerOrder(o, u) PROVE OrderTyped'
  <2>1. oStatus' \in [Orders -> OrderStatuses] /\ oVersion' \in [Orders -> Nat]
    BY <1>2, <1>5 DEF SubmitCustomerOrder, OrderStatuses
  <2> QED BY <1>0, <1>1, <1>5, <2>1 DEF SubmitCustomerOrder, OrderFrameTyped
<1>6. ASSUME NEW u \in Users, ApproveCustomerOrder(o, u) PROVE OrderTyped'
  <2>1. oStatus' \in [Orders -> OrderStatuses] /\ oVersion' \in [Orders -> Nat]
    BY <1>2, <1>6 DEF ApproveCustomerOrder, OrderStatuses
  <2> QED BY <1>0, <1>1, <1>6, <2>1 DEF ApproveCustomerOrder, OrderFrameTyped
<1>7. ASSUME NEW u \in Users, MarkCustomerOrderInProduction(o, u) PROVE OrderTyped'
  <2>1. oStatus' \in [Orders -> OrderStatuses] /\ oVersion' \in [Orders -> Nat]
    BY <1>2, <1>7 DEF MarkCustomerOrderInProduction, OrderStatuses
  <2> QED BY <1>0, <1>1, <1>7, <2>1 DEF MarkCustomerOrderInProduction, OrderFrameTyped
<1>8. ASSUME NEW from, NEW to \in OrderStatuses, OrderAdvances(o, from, to),
             NEW rows \in AllocRows, oAlloc' = [oAlloc EXCEPT ![o] = rows],
             UNCHANGED <<oMaker, oSite, oNeeds, oShipped>>
      PROVE  OrderTyped'
  <2>1. oStatus' \in [Orders -> OrderStatuses] /\ oVersion' \in [Orders -> Nat]
    BY <1>2, <1>8
  <2>2. oAlloc' \in [Orders -> AllocRows]
    BY <1>0, <1>8 DEF OrderFrameTyped
  <2> QED BY <1>0, <1>1, <1>8, <2>1, <2>2 DEF OrderFrameTyped
<1>9. oAlloc[o] \in AllocRows
  BY <1>0 DEF OrderFrameTyped
<1>10. ASSUME NEW wanted PROVE oAlloc[o] \cup AllocateAll(o, wanted).rows \in AllocRows
  <2>1. AllocateAll(o, wanted) \in AllocResult
    BY AllocateAllTyped
  <2>2. AllocateAll(o, wanted).rows \in AllocRows
    BY <2>1 DEF AllocResult, NewRows
  <2>3. IsFiniteSet(oAlloc[o] \cup AllocateAll(o, wanted).rows)
    BY <1>9, <2>2, FS_Union DEF AllocRows
  <2> QED BY <1>9, <2>2, <2>3 DEF AllocRows
<1>11. ASSUME NEW u \in Users, AllocateCustomerOrder(o, u) PROVE OrderTyped'
  <2> DEFINE now == {i \in DOMAIN oNeeds[o] : oNeeds[o][i].job = None \/ JobReady(oNeeds[o][i])}
  <2>1. /\ OrderAdvances(o, {"APPROVED"}, "ALLOCATED")
        /\ oAlloc' = [oAlloc EXCEPT ![o] = @ \cup AllocateAll(o, now).rows]
        /\ UNCHANGED <<oMaker, oSite, oNeeds, oShipped>>
    BY <1>11 DEF AllocateCustomerOrder
  <2> HIDE DEF now
  <2> QED BY <1>8, <1>10, <2>1 DEF OrderStatuses
<1>12. ASSUME NEW u \in Users, MarkCustomerOrderReady(o, u) PROVE OrderTyped'
  <2> DEFINE late == {i \in DOMAIN oNeeds[o] : ~Allocated(o, oNeeds[o][i].no)}
  <2>1. /\ OrderAdvances(o, {"ALLOCATED", "IN_PRODUCTION"}, "READY")
        /\ oAlloc' = [oAlloc EXCEPT ![o] = @ \cup AllocateAll(o, late).rows]
        /\ UNCHANGED <<oMaker, oSite, oNeeds, oShipped>>
    BY <1>12 DEF MarkCustomerOrderReady
  <2> HIDE DEF late
  <2> QED BY <1>8, <1>10, <2>1 DEF OrderStatuses
<1>13. ASSUME NEW u \in Users, CancelCustomerOrder(o, u) PROVE OrderTyped'
  <2>1. /\ OrderAdvances(o, OrderStatuses \ {"ABSENT", "FULFILLED", "CANCELLED"}, "CANCELLED")
        /\ oAlloc' = [oAlloc EXCEPT ![o] = Released(@)]
        /\ UNCHANGED <<oMaker, oSite, oNeeds, oShipped>>
    BY <1>13 DEF CancelCustomerOrder
  <2>2. Released(oAlloc[o]) \in AllocRows
    BY <1>9, ReleasedTyped
  <2>3. "CANCELLED" \in OrderStatuses
    BY DEF OrderStatuses
  <2> QED BY <1>8, <2>1, <2>2, <2>3
<1>14. ASSUME UNCHANGED orderVars PROVE OrderTyped'
  BY <1>0, <1>1, <1>14 DEF orderVars, OrderFrameTyped
<1>15. ASSUME NEW c \in Callers, NEW u \in Users, FulfillPrepare(c, o, u) PROVE OrderTyped'
  BY <1>14, <1>15 DEF FulfillPrepare
<1>16. ASSUME NEW c \in Callers, FulfillFinalize(c, o) PROVE OrderTyped'
  <2>0. UNCHANGED <<oMaker, oSite, oNeeds>>
    BY <1>16 DEF FulfillFinalize
  <2>1. CASE UNCHANGED <<oStatus, oVersion, oAlloc, oShipped>>
    BY <1>14, <2>0, <2>1 DEF orderVars
  <2> DEFINE rows == {IF r \in Consumed(o, c) THEN [r EXCEPT !.status = "CONSUMED"] ELSE r :
                        r \in oAlloc[o]}
  <2>2. CASE /\ OrderAdvances(o, {"READY"}, "FULFILLED")
             /\ oAlloc' = [oAlloc EXCEPT ![o] = rows]
             /\ oShipped' = [oShipped EXCEPT ![o] = Shipped(o, c)]
    <3>1. rows \in AllocRows
      BY <1>9, ConsumedTyped
    <3>2. oStatus' \in [Orders -> OrderStatuses] /\ oVersion' \in [Orders -> Nat]
      BY <1>2, <2>2 DEF OrderStatuses
    <3>3. Consumed(o, c) \in SUBSET oAlloc[o]
      BY DEF Consumed
    <3>4. QtyOf(Consumed(o, c)) \in Nat
      BY <1>9, <3>3, RowsQtyNat
    <3>5. oShipped[o] \in Nat
      BY <1>0 DEF OrderFrameTyped
    <3>6. Shipped(o, c) \in Nat
      BY <3>4, <3>5 DEF Shipped
    <3> HIDE DEF rows
    <3>7. oAlloc' \in [Orders -> AllocRows] /\ oShipped' \in [Orders -> Nat]
      BY <1>0, <2>2, <3>1, <3>6 DEF OrderFrameTyped
    <3> QED BY <1>0, <1>1, <2>0, <3>2, <3>7 DEF OrderFrameTyped
  <2> QED BY <1>16, <2>1, <2>2 DEF FulfillFinalize
<1> QED BY <1>3, <1>4, <1>5, <1>6, <1>7, <1>11, <1>12, <1>13, <1>15, <1>16 DEF OrderStep, OrderDesk

\* Every operation on an order keeps the type of the stock.
LEMMA OrderStockTyped ==
    ASSUME StockTyped, OrderTyped, NEW o \in Orders, OrderStep(o) PROVE StockTyped'
<1>0. GeneralSlot(o) \in Slots /\ JobOutSlot(o) \in Slots
  BY OrderAssumptions DEF GeneralSlot, JobOutSlot
<1>1. ASSUME UNCHANGED stockVars PROVE StockTyped'
  BY <1>1 DEF stockVars, StockTyped
<1>2. ASSUME NEW u \in Users, OrderDesk(o, u) PROVE StockTyped'
  BY <1>1, <1>2 DEF OrderDesk, CreateCustomerOrderDraft, UpdateCustomerOrderDraft,
       SubmitCustomerOrder, ApproveCustomerOrder
<1>3. ASSUME NEW u \in Users, AllocateCustomerOrder(o, u) PROVE StockTyped'
  BY <1>1, <1>3 DEF AllocateCustomerOrder
<1>4. ASSUME NEW u \in Users, MarkCustomerOrderReady(o, u) PROVE StockTyped'
  BY <1>1, <1>4 DEF MarkCustomerOrderReady
<1>5. ASSUME NEW u \in Users,
             MarkCustomerOrderInProduction(o, u) \/ CancelCustomerOrder(o, u)
      PROVE  StockTyped'
  BY <1>1, <1>5 DEF MarkCustomerOrderInProduction, CancelCustomerOrder
<1>6. ASSUME NEW c \in Callers, NEW u \in Users, FulfillPrepare(c, o, u) PROVE StockTyped'
  <2> DEFINE general == ShipPlan(o, "ACTIVE", FALSE)
             jobOut == ShipPlan(o, "ACTIVE", TRUE)
             more == IF jobOut = {} THEN {} ELSE {<<JobOutSlot(o), jobOut>>}
  <2>1. UNCHANGED <<onHand, lotState, today, posting>>
    BY <1>6 DEF FulfillPrepare
  <2>2. \/ Prepared(c, GeneralSlot(o), general, more, oVersion[o])
        \/ Prepared(c, JobOutSlot(o), jobOut, {}, oVersion[o])
    BY <1>6 DEF FulfillPrepare
  <2>3. general \in Plans /\ jobOut \in Plans
    BY ShipPlanTyped
  <2>4. \A x \in more : x[1] \in Slots /\ x[2] \in Plans
    <3> HIDE DEF jobOut
    <3> QED BY <1>0, <2>3
  <2>5. oVersion[o] \in Nat
    BY DEF OrderTyped, OrderTypeOK
  <2> HIDE DEF general, jobOut, more
  <2>6. CASE Prepared(c, GeneralSlot(o), general, more, oVersion[o])
    <3>1. call' \in [Callers -> Sound] /\ doc' \in [Slots -> DocRow]
      BY <1>0, <2>3, <2>4, <2>5, <2>6, PreparedTyped DEF StockTyped
    <3> QED BY <2>1, <3>1 DEF StockTyped
  <2>7. CASE Prepared(c, JobOutSlot(o), jobOut, {}, oVersion[o])
    <3>1. call' \in [Callers -> Sound] /\ doc' \in [Slots -> DocRow]
      BY <1>0, <2>3, <2>5, <2>7, PreparedTyped DEF StockTyped
    <3> QED BY <2>1, <3>1 DEF StockTyped
  <2> QED BY <2>2, <2>6, <2>7
<1>7. ASSUME NEW c \in Callers, FulfillFinalize(c, o) PROVE StockTyped'
  <2>1. Finished(c) /\ UNCHANGED <<onHand, lotState, today, doc, posting>>
    BY <1>7 DEF FulfillFinalize
  <2>2. call' \in [Callers -> Sound]
    BY <2>1, FinishedSound DEF StockTyped
  <2> QED BY <2>1, <2>2 DEF StockTyped
<1> QED BY <1>2, <1>3, <1>4, <1>5, <1>6, <1>7 DEF OrderStep

\* The second posting of a fulfilment keeps every type.
LEMMA ContinueTyped ==
    ASSUME StockTyped, CallShape(ProductionSlots), NEW c \in Callers, FulfillContinue(c)
    PROVE  StockTyped'
<1>1. call[c].slot \in Slots
  BY ProductionSlotsKnown DEF CallShape, FulfillContinue
<1>2. PICK t \in call[c].rest :
         call' = [call EXCEPT ![c] =
           [slot |-> t.slot, id |-> t.id, plan |-> t.plan, rest |-> call[c].rest \ {t},
            done |-> Tasks(c) \ call[c].rest, version |-> call[c].version,
            phase |-> "prepared"]]
  BY DEF FulfillContinue
<1> DEFINE D == Tasks(c) \ call[c].rest
<1>3. D \in SUBSET Tasks(c)
  OBVIOUS
<1>4. call' = [call EXCEPT ![c] =
           [slot |-> t.slot, id |-> t.id, plan |-> t.plan, rest |-> call[c].rest \ {t},
            done |-> D, version |-> call[c].version, phase |-> "prepared"]]
  BY <1>2
<1> HIDE DEF D
<1>5. call' \in [Callers -> Sound]
  BY <1>1, <1>3, <1>4, ContinuedSound DEF StockTyped
<1> QED BY <1>5 DEF FulfillContinue, StockTyped

-----------------------------------------------------------------------------

ProductionTyped == StockTyped /\ BomTyped /\ JobTyped /\ OrderTyped

\* The types hold at first.
LEMMA ProductionTypedAtFirst == ASSUME ProductionInit PROVE ProductionTyped
<1>1. StockInit /\ BomInit /\ JobInit /\ OrderInit
  BY DEF ProductionInit
<1>2. StockTyped
  BY <1>1, StockTypedAtFirst
<1>3. BomTyped
  BY <1>1, FS_EmptySet DEF BomInit, BomTyped, BomTypeOK, BomStatuses
<1>4. JobTyped
  BY <1>1, FS_EmptySet, StockAssumptions DEF JobInit, JobTyped, JobTypeOK, JobStatuses
<1>5. OrderTyped
  BY <1>1, FS_EmptySet DEF OrderInit, OrderTyped, OrderTypeOK, OrderStatuses
<1> QED BY <1>2, <1>3, <1>4, <1>5 DEF ProductionTyped

\* The types read only the variables of their component.
LEMMA BomTypedStays == ASSUME BomTyped, UNCHANGED bomVars PROVE BomTyped'
BY DEF bomVars, BomTyped, BomTypeOK
\* The same of the jobs.
LEMMA JobTypedStays == ASSUME JobTyped, UNCHANGED jobVars PROVE JobTyped'
BY DEF jobVars, JobTyped, JobTypeOK, ProductionWarehouses
\* The same of the orders.
LEMMA OrderTypedStays == ASSUME OrderTyped, UNCHANGED orderVars PROVE OrderTyped'
BY DEF orderVars, OrderTyped, OrderTypeOK

\* Every step keeps the types.
LEMMA ProductionTypedKept ==
    ASSUME ProductionLedger, ProductionTyped, [ProductionNext]_productionVars
    PROVE  ProductionTyped'
<1>0. /\ CallShape(ProductionSlots) /\ LedgerShape /\ Answer
      /\ StockTyped /\ BomTyped /\ JobTyped /\ OrderTyped
  BY DEF ProductionLedger, LedgerInv, ProductionTyped
<1>1. ASSUME UNCHANGED stockVars PROVE StockTyped'
  BY <1>0, <1>1 DEF stockVars, StockTyped
<1>2. CASE (PostingNext \/ \E c \in Callers : FulfillCompensate(c))
             /\ UNCHANGED <<bomVars, jobVars, orderVars>>
  <2>1. PostingNext \/ \E c \in Callers : Compensate(c)
    BY <1>2 DEF FulfillCompensate
  <2>2. StockTyped'
    BY <1>0, <2>1, PostingTyped
  <2> QED BY <1>0, <1>2, <2>2, BomTypedStays, JobTypedStays, OrderTypedStays DEF ProductionTyped
<1>3. CASE BomNext /\ UNCHANGED <<jobVars, orderVars>>
  <2>1. UNCHANGED stockVars
    BY <1>3 DEF BomNext, BomStep, CreateBomHeader, CreateDraftVersion, ReplaceDraftComponents,
       ActivateVersion, RetireVersion
  <2>2. BomTyped'
    BY <1>0, <1>3, BomsTyped
  <2> QED BY <1>0, <1>1, <1>3, <2>1, <2>2, JobTypedStays, OrderTypedStays DEF ProductionTyped
<1>4. CASE JobNext /\ UNCHANGED orderVars
  <2>1. PICK j \in Jobs : JobStep(j)
    BY <1>4 DEF JobNext
  <2>2. StockTyped' /\ JobTyped'
    BY <1>0, <2>1, JobStockTyped, JobRowsTyped
  <2>3. UNCHANGED bomVars
    BY <2>1 DEF JobStep, JobDesk, CreateJobOrderDraft, SubmitJobOrder, ApproveJobOrder,
       ReleaseJobOrder, CancelJobOrder, FailJobOrder, StartJobPrepare, StartJobFinalize,
       CompleteJobPrepare, CompleteJobFinalize
  <2> QED BY <1>0, <1>4, <2>2, <2>3, BomTypedStays, OrderTypedStays DEF ProductionTyped
<1>5. CASE OrderNext /\ UNCHANGED <<bomVars, jobVars>>
  <2>1. BomTyped' /\ JobTyped'
    BY <1>0, <1>5, BomTypedStays, JobTypedStays
  <2>2. ASSUME NEW o \in Orders, OrderStep(o) PROVE ProductionTyped'
    BY <1>0, <2>1, <2>2, OrderStockTyped, OrderRowsTyped DEF ProductionTyped
  <2>3. ASSUME NEW c \in Callers, FulfillContinue(c) PROVE ProductionTyped'
    <3>1. UNCHANGED orderVars
      BY <2>3 DEF FulfillContinue
    <3> QED BY <1>0, <2>1, <2>3, <3>1, ContinueTyped, OrderTypedStays DEF ProductionTyped
  <2> QED BY <1>5, <2>2, <2>3 DEF OrderNext
<1>6. CASE UNCHANGED productionVars
  <2>1. UNCHANGED <<stockVars, bomVars, jobVars, orderVars>>
    BY <1>6 DEF productionVars
  <2> QED BY <1>0, <1>1, <2>1, BomTypedStays, JobTypedStays, OrderTypedStays
          DEF ProductionTyped
<1> QED BY <1>2, <1>3, <1>4, <1>5, <1>6 DEF ProductionNext

\* What holds of every state of production and is needed of it below.
LEMMA ProductionStart == ASSUME ProductionInit PROVE ProductionLedger /\ JobHistory
<1>1. StockInit
  BY DEF ProductionInit
<1>2. RestOfOrders
  BY <1>1, IdleCall DEF StockInit, RestOfOrders
<1> QED BY <1>1, <1>2, LedgerInitial, JobInitial DEF ProductionLedger

\* Bills, jobs, orders and the ledger keep their types: balances stay natural
\* numbers whatever is drawn, and a new document finds a row id.
THEOREM ProductionTypeCorrect == ProductionSpec => []ProductionTypeOK
<1>1. ProductionInit => ProductionLedger /\ ProductionTyped
  BY ProductionStart, ProductionTypedAtFirst
<1>2. ProductionLedger /\ ProductionTyped /\ [ProductionNext]_productionVars
        => (ProductionLedger /\ ProductionTyped)'
  BY ProductionLedgerKept, ProductionTypedKept
<1>3. ProductionTyped => ProductionTypeOK
  BY TypedStock DEF ProductionTyped, ProductionTypeOK, BomTyped, JobTyped, OrderTyped
<1> QED BY <1>1, <1>2, <1>3, PTL DEF ProductionSpec

-----------------------------------------------------------------------------
(* The history of a customer order: what its status says of its rows, of   *)
(* its two postings and of the requests at work on them.                   *)

\* Only a fulfilment has a second posting in hand, and one of it.
RestFollows ==
    \A c \in Callers : \A t \in call[c].rest :
        /\ call[c].rest = {t}
        /\ \E o \in Orders : t.slot = JobOutSlot(o) /\ call[c].slot = GeneralSlot(o)

\* An order has two slots of its own, and none is a job's.
LEMMA OrderSlotsApart ==
    /\ \A o \in Orders : OrderSlots(o) \in SUBSET Slots /\ OrderSlots(o) \subseteq AllOrderSlots
    /\ \A o : GeneralSlot(o) # JobOutSlot(o)
    /\ \A o, k : k # o => OrderSlots(k) \cap OrderSlots(o) = {}
<1>1. \A o \in Orders : OrderSlots(o) \subseteq AllOrderSlots
  BY DEF AllOrderSlots
<1>2. AllOrderSlots \subseteq Slots
  BY ProductionSlotsKnown DEF ProductionSlots
<1>3. \A o : GeneralSlot(o) # JobOutSlot(o)
  BY DEF GeneralSlot, JobOutSlot
<1>4. \A o, k : k # o => OrderSlots(k) \cap OrderSlots(o) = {}
  BY DEF OrderSlots, GeneralSlot, JobOutSlot
<1> QED BY <1>1, <1>2, <1>3, <1>4

\* A request for an order's postings, as it leaves.
LEMMA FulfillRequest ==
    ASSUME CallShape(ProductionSlots), NEW o \in Orders, NEW c \in Callers, NEW u \in Users,
           FulfillPrepare(c, o, u)
    PROVE  /\ \A k \in Callers \ {c} : call'[k] = call[k]
           /\ call'[c].done = {}
           /\ \/ /\ call'[c].slot = GeneralSlot(o)
                 /\ call'[c].plan = ShipPlan(o, "ACTIVE", FALSE)
                 /\ \/ ShipPlan(o, "ACTIVE", TRUE) = {} /\ call'[c].rest = {}
                    \/ call'[c].rest = {TaskFor(JobOutSlot(o), ShipPlan(o, "ACTIVE", TRUE))}
              \/ /\ call'[c].slot = JobOutSlot(o)
                 /\ call'[c].plan = ShipPlan(o, "ACTIVE", TRUE)
                 /\ call'[c].rest = {} /\ ShipPlan(o, "ACTIVE", FALSE) = {}
<1> DEFINE general == ShipPlan(o, "ACTIVE", FALSE)
           jobOut == ShipPlan(o, "ACTIVE", TRUE)
           more == IF jobOut = {} THEN {} ELSE {<<JobOutSlot(o), jobOut>>}
           rest(m) == {TaskFor(x[1], x[2]) : x \in m}
<1>1. \/ Prepared(c, GeneralSlot(o), general, more, oVersion[o])
      \/ general = {} /\ Prepared(c, JobOutSlot(o), jobOut, {}, oVersion[o])
  BY DEF FulfillPrepare
<1>2. rest({}) = {}
  OBVIOUS
<1>3. (jobOut = {} /\ more = {}) \/ rest(more) = {TaskFor(JobOutSlot(o), jobOut)}
  <2>1. CASE jobOut = {}
    BY <2>1
  <2>2. CASE jobOut # {}
    <3>1. more = {<<JobOutSlot(o), jobOut>>}
      BY <2>2
    <3> HIDE DEF more, jobOut
    <3> QED BY <3>1
  <2> QED BY <2>1, <2>2
<1>4. ASSUME NEW s, NEW plan, NEW m, Prepared(c, s, plan, m, oVersion[o])
      PROVE  /\ \A k \in Callers \ {c} : call'[k] = call[k]
             /\ call'[c].slot = s /\ call'[c].plan = plan /\ call'[c].rest = rest(m)
             /\ call'[c].done = {}
  BY <1>4 DEF Prepared, CallShape
<1> HIDE DEF general, jobOut, more, rest
<1>5. CASE Prepared(c, GeneralSlot(o), general, more, oVersion[o])
  <2>1. /\ \A k \in Callers \ {c} : call'[k] = call[k]
        /\ call'[c].slot = GeneralSlot(o) /\ call'[c].plan = general
        /\ call'[c].rest = rest(more) /\ call'[c].done = {}
    BY <1>4, <1>5
  <2>2. \/ jobOut = {} /\ call'[c].rest = {}
        \/ call'[c].rest = {TaskFor(JobOutSlot(o), jobOut)}
    BY <1>2, <1>3, <2>1
  <2> QED BY <2>1, <2>2 DEF general, jobOut
<1>6. CASE general = {} /\ Prepared(c, JobOutSlot(o), jobOut, {}, oVersion[o])
  <2>1. /\ \A k \in Callers \ {c} : call'[k] = call[k]
        /\ call'[c].slot = JobOutSlot(o) /\ call'[c].plan = jobOut
        /\ call'[c].rest = rest({}) /\ call'[c].done = {}
    BY <1>4, <1>6
  <2> QED BY <1>2, <1>6, <2>1 DEF general, jobOut
<1> QED BY <1>1, <1>5, <1>6

\* A request that goes on to its second posting.
LEMMA ContinuedRequest ==
    ASSUME CallShape(ProductionSlots), RestFollows, NEW c \in Callers, FulfillContinue(c)
    PROVE  \E t \in call[c].rest :
             /\ \A k \in Callers \ {c} : call'[k] = call[k]
             /\ call'[c].slot = t.slot /\ call'[c].plan = t.plan /\ call'[c].rest = {}
             /\ call'[c].done = Tasks(c) \ call[c].rest
<1>1. PICK t \in call[c].rest :
         call' = [call EXCEPT ![c] =
           [slot |-> t.slot, id |-> t.id, plan |-> t.plan, rest |-> call[c].rest \ {t},
            done |-> Tasks(c) \ call[c].rest, version |-> call[c].version,
            phase |-> "prepared"]]
  BY DEF FulfillContinue
<1>2. call[c].rest \ {t} = {}
  BY DEF RestFollows
<1>3. DOMAIN call = Callers
  BY DEF CallShape
<1>4. /\ \A k \in Callers \ {c} : call'[k] = call[k]
      /\ call'[c] = [slot |-> t.slot, id |-> t.id, plan |-> t.plan, rest |-> call[c].rest \ {t},
            done |-> Tasks(c) \ call[c].rest, version |-> call[c].version,
            phase |-> "prepared"]
  BY <1>1, <1>3
<1> QED BY <1>2, <1>4

\* A request goes on as it was, whatever it was answered.
SameRun(c) ==
    /\ call'[c].slot = call[c].slot /\ call'[c].plan = call[c].plan
    /\ call'[c].rest = call[c].rest /\ call'[c].done = call[c].done

\* Unless a request starts or continues, each is the same run or idle.
LEMMA PassingRuns ==
    ASSUME NEW K, CallShape(K), Passing
    PROVE  \A c \in Callers : SameRun(c) \/ call'[c] = Idle
<1>1. CASE Still
  BY <1>1 DEF Still, SameRun
<1>2. ASSUME NEW c \in Callers, Answering(c) \/ Committing(c)
      PROVE  \A k \in Callers : SameRun(k)
  <2>1. PICK p \in {"posted", "refused"} : call' = [call EXCEPT ![c].phase = p]
    BY <1>2 DEF Answering, Committing, Answered
  <2>2. DOMAIN call = Callers /\ DOMAIN call[c] = CallFields
    BY DEF CallShape
  <2>3. \A k \in Callers \ {c} : call'[k] = call[k]
    BY <2>1, <2>2
  <2>4. call'[c] = [call[c] EXCEPT !.phase = p]
    BY <2>1, <2>2
  <2>5. SameRun(c)
    BY <2>2, <2>4 DEF CallFields, SameRun
  <2> QED BY <2>3, <2>5 DEF SameRun
<1>3. ASSUME NEW c \in Callers, Ending(c)
      PROVE  \A k \in Callers : SameRun(k) \/ call'[k] = Idle
  BY <1>3, EndedCall DEF Ending, SameRun
<1> QED BY <1>1, <1>2, <1>3 DEF Passing

\* Every step keeps a fulfilment's second posting with its first.
LEMMA RestFollowsKept ==
    ASSUME ProductionLedger, RestFollows, [ProductionNext]_productionVars PROVE RestFollows'
<1>0. CallShape(ProductionSlots) /\ LedgerShape
  BY DEF ProductionLedger, LedgerInv
<1>1. ASSUME NEW c \in Callers, \A k \in Callers \ {c} : SameRun(k) \/ call'[k] = Idle,
             \A t \in call'[c].rest :
               /\ call'[c].rest = {t}
               /\ \E o \in Orders : t.slot = JobOutSlot(o) /\ call'[c].slot = GeneralSlot(o)
      PROVE  RestFollows'
  <2>1. ASSUME NEW k \in Callers, NEW t \in call'[k].rest
        PROVE  /\ call'[k].rest = {t}
               /\ \E o \in Orders : t.slot = JobOutSlot(o) /\ call'[k].slot = GeneralSlot(o)
    <3>1. CASE k = c
      BY <1>1, <2>1, <3>1
    <3>2. CASE k # c /\ SameRun(k)
      BY <2>1, <3>2 DEF SameRun, RestFollows
    <3>3. CASE k # c /\ call'[k] = Idle
      BY <2>1, <3>3, IdleCall
    <3> QED BY <1>1, <3>1, <3>2, <3>3
  <2> QED BY <2>1 DEF RestFollows, JobOutSlot, GeneralSlot
<1>2. CASE Passing
  <2>1. \A c \in Callers : SameRun(c) \/ call'[c] = Idle
    BY <1>0, <1>2, PassingRuns
  <2>2. ASSUME NEW k \in Callers, NEW t \in call'[k].rest
        PROVE  /\ call'[k].rest = {t}
               /\ \E o \in Orders : t.slot = JobOutSlot(o) /\ call'[k].slot = GeneralSlot(o)
    <3>1. SameRun(k)
      BY <2>1, <2>2, IdleCall
    <3> QED BY <2>2, <3>1 DEF SameRun, RestFollows
  <2> QED BY <2>2 DEF RestFollows, JobOutSlot, GeneralSlot
<1>3. ASSUME NEW j \in Jobs, JobStep(j) PROVE RestFollows'
  <2>1. JobKind(j)
    BY <1>0, <1>3, JobSteps
  <2>2. ASSUME NEW c \in Callers, JobStarting(c, j) PROVE RestFollows'
    <3>1. PICK s \in JobSlots(j) : \E plan, v : Prepared(c, s, plan, {}, v)
      BY <2>2 DEF JobStarting
    <3>2. PICK plan, v : Prepared(c, s, plan, {}, v) BY <3>1
    <3>3. call'[c].rest = {} /\ \A k \in Callers \ {c} : call'[k] = call[k]
      BY <1>0, <3>2, StartsWith
    <3> QED BY <1>1, <3>3 DEF SameRun
  <2> QED BY <1>2, <2>1, <2>2 DEF JobKind
<1>4. ASSUME NEW o \in Orders, NEW c \in Callers, NEW u \in Users, FulfillPrepare(c, o, u)
      PROVE  RestFollows'
  <2>1. \A k \in Callers \ {c} : call'[k] = call[k]
    BY <1>0, <1>4, FulfillRequest
  <2>2. \/ call'[c].rest = {}
        \/ /\ call'[c].slot = GeneralSlot(o)
           /\ call'[c].rest = {TaskFor(JobOutSlot(o), ShipPlan(o, "ACTIVE", TRUE))}
    BY <1>0, <1>4, FulfillRequest
  <2>3. TaskFor(JobOutSlot(o), ShipPlan(o, "ACTIVE", TRUE)).slot = JobOutSlot(o)
    BY DEF TaskFor
  <2> QED BY <1>1, <2>1, <2>2, <2>3 DEF SameRun
<1>5. ASSUME NEW c \in Callers, FulfillContinue(c) PROVE RestFollows'
  <2>1. call'[c].rest = {} /\ \A k \in Callers \ {c} : call'[k] = call[k]
    BY <1>0, <1>5, ContinuedRequest
  <2> QED BY <1>1, <2>1 DEF SameRun
<1>6. CASE PostingNext \/ \E c \in Callers : FulfillCompensate(c)
  <2>1. PostingNext \/ \E c \in Callers : Compensate(c) BY <1>6 DEF FulfillCompensate
  <2> QED BY <1>0, <1>2, <2>1, PostingSteps
<1>7. CASE BomNext BY <1>2, <1>7, BomSteps DEF Passing
<1>8. CASE OrderNext
  BY <1>2, <1>4, <1>5, <1>8, OrderKinds DEF OrderNext
<1>9. CASE UNCHANGED productionVars
  BY <1>2, <1>9 DEF productionVars, stockVars, Passing, Still
<1> QED BY <1>3, <1>6, <1>7, <1>8, <1>9 DEF ProductionNext, JobNext

\* A request at work on an order's postings asks for the order's rows of the
\* given status: the outlet stock first, with the job output to follow, or the
\* job output, with the outlet stock posted.
RunFits(c, o, st) ==
    /\ call[c].slot = GeneralSlot(o) =>
         /\ call[c].plan = ShipPlan(o, st, FALSE) /\ call[c].done = {}
         /\ \A t \in call[c].rest : t.plan = ShipPlan(o, st, TRUE)
         /\ ShipPlan(o, st, TRUE) # {} => call[c].rest # {}
    /\ call[c].slot = JobOutSlot(o) =>
         /\ call[c].plan = ShipPlan(o, st, TRUE) /\ call[c].rest = {}
         /\ \A t \in call[c].done : t.plan = ShipPlan(o, st, FALSE)
         /\ ShipPlan(o, st, FALSE) # {} =>
              call[c].done # {} /\ posting[GeneralSlot(o)] = ShipPlan(o, st, FALSE)
RunsFit(o, st) == \A c \in Callers : RunFits(c, o, st)

OrderEarly(o) ==
    oStatus[o] \notin {"READY", "FULFILLED", "CANCELLED"} =>
        Untouched(GeneralSlot(o)) /\ Untouched(JobOutSlot(o))
OrderReady(o) ==
    oStatus[o] = "READY" =>
        /\ posting[GeneralSlot(o)] \in {{}, ShipPlan(o, "ACTIVE", FALSE)}
        /\ posting[JobOutSlot(o)] \in {{}, ShipPlan(o, "ACTIVE", TRUE)}
        /\ RunsFit(o, "ACTIVE")
OrderFulfilled(o) ==
    oStatus[o] = "FULFILLED" =>
        /\ posting[GeneralSlot(o)] = ShipPlan(o, "CONSUMED", FALSE)
        /\ posting[JobOutSlot(o)] = ShipPlan(o, "CONSUMED", TRUE)
        /\ oShipped[o] = QtyOf(oAlloc[o])
        /\ RunsFit(o, "CONSUMED")
OrderRows(o) ==
    /\ oStatus[o] \notin {"FULFILLED", "CANCELLED"} => \A r \in oAlloc[o] : r.status = "ACTIVE"
    /\ oStatus[o] = "CANCELLED" => \A r \in oAlloc[o] : r.status = "RELEASED"
    /\ oStatus[o] = "FULFILLED" => \A r \in oAlloc[o] : r.status = "CONSUMED"
    /\ oStatus[o] # "FULFILLED" => oShipped[o] = 0

OrderInv(o) == OrderEarly(o) /\ OrderReady(o) /\ OrderFulfilled(o) /\ OrderRows(o)
OrderHistory == \A o \in Orders : OrderInv(o)

SameOrder(o) ==
    /\ oStatus'[o] = oStatus[o] /\ oNeeds'[o] = oNeeds[o]
    /\ oAlloc'[o] = oAlloc[o] /\ oShipped'[o] = oShipped[o]
QuietRuns(S) == \A c \in Callers : call'[c].slot \in S => SameRun(c)

\* What an order ships is read from its own rows and its jobs' links.
LEMMA SameShipPlan ==
    ASSUME NEW o, oAlloc'[o] = oAlloc[o], oNeeds'[o] = oNeeds[o]
    PROVE  \A st, linked : ShipPlan(o, st, linked)' = ShipPlan(o, st, linked)
BY DEF ShipPlan, ShipMove, JobLinked

\* With rows, postings and requests unchanged, an order's history stands.
LEMMA OrderQuiet ==
    ASSUME NEW o \in Orders, OrderInv(o), SameOrder(o), Undisturbed(OrderSlots(o)),
           QuietRuns(OrderSlots(o))
    PROVE  OrderInv(o)'
<1> DEFINE s == GeneralSlot(o)
           t == JobOutSlot(o)
<1>0. s \in OrderSlots(o) /\ t \in OrderSlots(o) BY DEF OrderSlots
<1>1. /\ oStatus'[o] = oStatus[o] /\ oNeeds'[o] = oNeeds[o]
      /\ oAlloc'[o] = oAlloc[o] /\ oShipped'[o] = oShipped[o]
  BY DEF SameOrder
<1>2. \A st, linked : ShipPlan(o, st, linked)' = ShipPlan(o, st, linked)
  BY <1>1, SameShipPlan
<1>3. /\ posting'[s] = posting[s] \/ PostedMeanwhile(s)
      /\ posting'[t] = posting[t] \/ PostedMeanwhile(t)
      /\ \A c \in Callers : call'[c].slot \in {s, t} => SameRun(c)
  BY <1>0 DEF Undisturbed, QuietRuns
<1>4. OrderEarly(o)'
  <2>1. /\ Untouched(s) => Untouched(s)'
        /\ Untouched(t) => Untouched(t)'
    BY <1>0, UntouchedKept
  <2>2. s' = s /\ t' = t BY DEF GeneralSlot, JobOutSlot
  <2> QED BY <1>1, <2>1, <2>2 DEF OrderInv, OrderEarly
<1>5. ASSUME NEW st, RunsFit(o, st) PROVE RunsFit(o, st)'
  <2>0. s' = s /\ t' = t BY DEF GeneralSlot, JobOutSlot
  <2> DEFINE G == ShipPlan(o, st, FALSE)
             J == ShipPlan(o, st, TRUE)
  <2>1. G' = G /\ J' = J BY <1>2
  <2>2. ASSUME G # {}, posting[s] = G PROVE posting'[s] = G
    BY <1>3, <2>2 DEF PostedMeanwhile
  <2>3. ASSUME NEW c \in Callers PROVE RunFits(c, o, st)'
    <3>1. RunFits(c, o, st) BY <1>5 DEF RunsFit
    <3>2. call'[c].slot \in {s, t} => SameRun(c) BY <1>3
    <3> HIDE DEF G, J
    <3>3. CASE call'[c].slot \in {s, t}
      <4>1. /\ call'[c].slot = call[c].slot /\ call'[c].plan = call[c].plan
            /\ call'[c].rest = call[c].rest /\ call'[c].done = call[c].done
        BY <3>2, <3>3 DEF SameRun
      <4>2. /\ call'[c].slot = s => call'[c].plan = G /\ call'[c].done = {}
                                    /\ (\A k \in call'[c].rest : k.plan = J)
                                    /\ (J # {} => call'[c].rest # {})
            /\ call'[c].slot = t => call'[c].plan = J /\ call'[c].rest = {}
                                    /\ (\A k \in call'[c].done : k.plan = G)
                                    /\ (G # {} => call'[c].done # {} /\ posting'[s] = G)
        BY <2>2, <3>1, <4>1 DEF RunFits, G, J
      <4> QED BY <2>0, <2>1, <4>2 DEF RunFits, G, J
    <3>4. CASE call'[c].slot \notin {s, t}
      BY <2>0, <3>4 DEF RunFits
    <3> QED BY <3>3, <3>4
  <2> QED BY <2>3 DEF RunsFit
<1>6. OrderReady(o)'
  <2>1. CASE oStatus[o] = "READY"
    <3> DEFINE G == ShipPlan(o, "ACTIVE", FALSE)
               J == ShipPlan(o, "ACTIVE", TRUE)
    <3>1. posting[s] \in {{}, G} /\ posting[t] \in {{}, J} /\ RunsFit(o, "ACTIVE")
      BY <2>1 DEF OrderInv, OrderReady
    <3>2. RunsFit(o, "ACTIVE")' BY <1>5, <3>1
    <3>3. G' = G /\ J' = J BY <1>2
    <3>4. /\ \A c \in Callers : call[c].slot = s => call[c].plan = G
          /\ \A c \in Callers : call[c].slot = t => call[c].plan = J
      BY <3>1 DEF RunsFit, RunFits
    <3> HIDE DEF G, J
    <3>5. posting'[s] \in {{}, G} /\ posting'[t] \in {{}, J}
      BY <1>3, <3>1, <3>4 DEF PostedMeanwhile
    <3> QED BY <1>1, <3>2, <3>3, <3>5 DEF OrderReady, G, J, GeneralSlot, JobOutSlot
  <2> QED BY <1>1, <2>1 DEF OrderReady
<1>7. OrderFulfilled(o)'
  <2>1. CASE oStatus[o] = "FULFILLED"
    <3> DEFINE G == ShipPlan(o, "CONSUMED", FALSE)
               J == ShipPlan(o, "CONSUMED", TRUE)
    <3>1. posting[s] = G /\ posting[t] = J /\ RunsFit(o, "CONSUMED")
            /\ oShipped[o] = QtyOf(oAlloc[o])
      BY <2>1 DEF OrderInv, OrderFulfilled
    <3>2. RunsFit(o, "CONSUMED")' BY <1>5, <3>1
    <3>3. G' = G /\ J' = J BY <1>2
    <3>4. /\ \A c \in Callers : call[c].slot = s => call[c].plan = G
          /\ \A c \in Callers : call[c].slot = t => call[c].plan = J
      BY <3>1 DEF RunsFit, RunFits
    <3> HIDE DEF G, J
    <3>5. posting'[s] = G /\ posting'[t] = J
      BY <1>3, <3>1, <3>4 DEF PostedMeanwhile
    <3>6. oShipped'[o] = QtyOf(oAlloc'[o])
      BY <1>1, <3>1
    <3> QED BY <1>1, <3>2, <3>3, <3>5, <3>6 DEF OrderFulfilled, G, J, GeneralSlot, JobOutSlot, QtyOf
  <2> QED BY <1>1, <2>1 DEF OrderFulfilled
<1>8. OrderRows(o)'
  BY <1>1 DEF OrderInv, OrderRows
<1> QED BY <1>4, <1>6, <1>7, <1>8 DEF OrderInv

\* The plans of both postings together are all rows of the status.
LEMMA ShipPlansCover ==
    ASSUME NEW o, NEW st, NEW r \in oAlloc[o], r.status = st
    PROVE  ShipMove(r) \in ShipPlan(o, st, FALSE) \cup ShipPlan(o, st, TRUE)
<1>1. JobLinked(o, r.no) \in BOOLEAN
  BY DEF JobLinked
<1>2. CASE JobLinked(o, r.no) = TRUE
  BY <1>2 DEF ShipPlan
<1>3. CASE JobLinked(o, r.no) = FALSE
  BY <1>3 DEF ShipPlan
<1> QED BY <1>1, <1>2, <1>3

\* A request that has made its last posting has made both.
LEMMA AllPosted ==
    ASSUME NEW o \in Orders, NEW c \in Callers, Answer, OrderReady(o), oStatus[o] = "READY",
           call[c].phase = "posted", call[c].rest = {},
           call[c].slot \in {GeneralSlot(o), JobOutSlot(o)}
    PROVE  /\ posting[GeneralSlot(o)] = ShipPlan(o, "ACTIVE", FALSE)
           /\ posting[JobOutSlot(o)] = ShipPlan(o, "ACTIVE", TRUE)
           /\ ShipPlan(o, "ACTIVE", FALSE) \cup ShipPlan(o, "ACTIVE", TRUE) \subseteq Posted(c)
<1> DEFINE G == ShipPlan(o, "ACTIVE", FALSE)
           J == ShipPlan(o, "ACTIVE", TRUE)
           s == GeneralSlot(o)
           t == JobOutSlot(o)
           one == [slot |-> call[c].slot, id |-> call[c].id, plan |-> call[c].plan]
<1>1. posting[s] \in {{}, G} /\ posting[t] \in {{}, J} /\ RunFits(c, o, "ACTIVE")
  BY DEF OrderReady, RunsFit
<1>2. posting[call[c].slot] = call[c].plan /\ call[c].plan # {}
  BY DEF Answer
<1>3. one \in Tasks(c) /\ one.plan = call[c].plan /\ call[c].done \subseteq Tasks(c)
  BY DEF Tasks
<1>4. \A k \in Tasks(c) : k.plan \subseteq Posted(c)
  BY DEF Posted
<1> HIDE DEF one
<1>5. call[c].plan \subseteq Posted(c) /\ \A k \in call[c].done : k.plan \subseteq Posted(c)
  BY <1>3, <1>4
<1>6. CASE call[c].slot = s
  <2>1. call[c].plan = G /\ (J # {} => call[c].rest # {})
    BY <1>1, <1>6 DEF RunFits
  <2>2. J = {} /\ posting[s] = G /\ posting[t] = J
    BY <1>1, <1>2, <1>6, <2>1
  <2> QED BY <1>5, <2>1, <2>2
<1>7. CASE call[c].slot = t
  <2>1. /\ call[c].plan = J /\ (\A k \in call[c].done : k.plan = G)
        /\ G # {} => call[c].done # {} /\ posting[s] = G
    BY <1>1, <1>7 DEF RunFits
  <2>2. posting[t] = J
    BY <1>2, <1>7, <2>1
  <2> HIDE DEF G, J
  <2>3. posting[s] = G
    BY <1>1, <2>1
  <2>4. G \subseteq Posted(c)
    BY <1>5, <2>1
  <2> QED BY <1>5, <2>1, <2>2, <2>3, <2>4 DEF G, J
<1> QED BY <1>6, <1>7

\* A row whose status changes keeps its quantity, and no two become one.
LEMMA RestatedQty ==
    ASSUME NEW R \in AllocRows, \A r \in R : r.status = "ACTIVE"
    PROVE  QtyOf({[r EXCEPT !.status = "CONSUMED"] : r \in R}) = QtyOf(R)
<1> DEFINE q == [r \in R |-> [r EXCEPT !.status = "CONSUMED"]]
           N == {q[r] : r \in R}
           g == [r \in R |-> r.qty]
           h == [r \in N |-> r.qty]
<1>1. IsFiniteSet(R) /\ R \subseteq Allocation
  BY DEF AllocRows
<1>2. \A r \in R : /\ r = [no |-> r.no, wh |-> r.wh, lot |-> r.lot, qty |-> r.qty, status |-> r.status]
                   /\ q[r] = [no |-> r.no, wh |-> r.wh, lot |-> r.lot, qty |-> r.qty,
                              status |-> "CONSUMED"]
                   /\ r.qty \in Int
  BY <1>1, StockAssumptions DEF Allocation, Quantity
<1>3. \A r, k \in R : q[r] = q[k] => r = k
  <2> TAKE r, k \in R
  <2> HAVE q[r] = q[k]
  <2>1. /\ r = [no |-> r.no, wh |-> r.wh, lot |-> r.lot, qty |-> r.qty, status |-> r.status]
        /\ k = [no |-> k.no, wh |-> k.wh, lot |-> k.lot, qty |-> k.qty, status |-> k.status]
        /\ r.status = k.status
    BY <1>2
  <2>2. r.no = k.no /\ r.wh = k.wh /\ r.lot = k.lot /\ r.qty = k.qty
    <3> HIDE DEF q
    <3>1. ASSUME NEW x \in R
          PROVE  q[x].no = x.no /\ q[x].wh = x.wh /\ q[x].lot = x.lot /\ q[x].qty = x.qty
      <4>1. q[x] = [no |-> x.no, wh |-> x.wh, lot |-> x.lot, qty |-> x.qty,
                    status |-> "CONSUMED"]
        BY <1>2
      <4> QED BY <4>1
    <3> QED BY <3>1
  <2> QED BY <2>1, <2>2
<1>4. \A r \in R : q[r] \in N /\ q[r].qty = r.qty
  BY <1>2
<1>5. \A r \in R : g[r] = h[q[r]] /\ h[q[r]] \in Int
  <2> TAKE r \in R
  <2>1. h[q[r]] = q[r].qty /\ g[r] = r.qty
    BY <1>4
  <2> QED BY <1>2, <1>4, <2>1
<1>6. QtyOf(R) = SumFunctionOnSet(g, R) /\ QtyOf(N) = SumFunctionOnSet(h, N)
  BY DEF QtyOf
<1>7. {[r EXCEPT !.status = "CONSUMED"] : r \in R} = N
  OBVIOUS
<1> HIDE DEF q, g, h, N
<1>8. SumFunctionOnSet(g, R) = SumFunctionOnSet(h, {q[r] : r \in R})
  BY <1>1, <1>3, <1>5, SumInjected
<1> QED BY <1>6, <1>7, <1>8 DEF N

\* The fulfilment consumes every row, and ships them as they were planned.
LEMMA ConsumedAll ==
    ASSUME OrderTyped, NEW o \in Orders, NEW c \in Callers, oStatus[o] = "READY",
           OrderRows(o),
           ShipPlan(o, "ACTIVE", FALSE) \cup ShipPlan(o, "ACTIVE", TRUE) \subseteq Posted(c)
    PROVE  /\ {IF r \in Consumed(o, c) THEN [r EXCEPT !.status = "CONSUMED"] ELSE r :
                 r \in oAlloc[o]} = {[r EXCEPT !.status = "CONSUMED"] : r \in oAlloc[o]}
           /\ Consumed(o, c) = oAlloc[o]
<1>1. \A r \in oAlloc[o] : r.status = "ACTIVE"
  BY DEF OrderRows
<1>2. \A r \in oAlloc[o] : ShipMove(r) \in Posted(c)
  BY <1>1, ShipPlansCover
<1>3. Consumed(o, c) = oAlloc[o]
  BY <1>1, <1>2 DEF Consumed
<1> QED BY <1>3

\* The consumed rows ask for what the active ones asked for.
LEMMA ConsumedPlans ==
    ASSUME OrderTyped, NEW o \in Orders, \A r \in oAlloc[o] : r.status = "ACTIVE",
           oAlloc'[o] = {[r EXCEPT !.status = "CONSUMED"] : r \in oAlloc[o]},
           oNeeds'[o] = oNeeds[o], NEW linked
    PROVE  ShipPlan(o, "CONSUMED", linked)' = ShipPlan(o, "ACTIVE", linked)
<1> DEFINE q(r) == [r EXCEPT !.status = "CONSUMED"]
<1>1. \A no : JobLinked(o, no)' = JobLinked(o, no)
  BY DEF JobLinked
<1>2. \A r \in oAlloc[o] : q(r).status = "CONSUMED" /\ q(r).no = r.no /\ ShipMove(q(r)) = ShipMove(r)
  <2> TAKE r \in oAlloc[o]
  <2>1. r \in Allocation
    BY DEF OrderTyped, OrderTypeOK
  <2> QED BY <2>1 DEF Allocation, ShipMove
<1>3. ShipPlan(o, "CONSUMED", linked)'
        = {ShipMove(r) : r \in {x \in oAlloc'[o] : x.status = "CONSUMED"
                                                     /\ JobLinked(o, x.no) = linked}}
  BY <1>1 DEF ShipPlan, ShipMove
<1>4. oAlloc'[o] = {q(r) : r \in oAlloc[o]}
  OBVIOUS
<1> HIDE DEF q
<1>5. ASSUME NEW m \in ShipPlan(o, "ACTIVE", linked) PROVE m \in ShipPlan(o, "CONSUMED", linked)'
  <2>1. PICK r \in oAlloc[o] : m = ShipMove(r) /\ JobLinked(o, r.no) = linked
    BY <1>5 DEF ShipPlan
  <2>2. q(r) \in oAlloc'[o] /\ q(r).status = "CONSUMED" /\ JobLinked(o, q(r).no) = linked
          /\ ShipMove(q(r)) = m
    BY <1>2, <1>4, <2>1
  <2> QED BY <1>3, <2>2
<1>6. ASSUME NEW m \in ShipPlan(o, "CONSUMED", linked)' PROVE m \in ShipPlan(o, "ACTIVE", linked)
  <2>1. PICK x \in oAlloc'[o] : m = ShipMove(x) /\ JobLinked(o, x.no) = linked
    BY <1>3, <1>6
  <2>2. PICK r \in oAlloc[o] : x = q(r)
    BY <1>4, <2>1
  <2>3. m = ShipMove(r) /\ JobLinked(o, r.no) = linked /\ r.status = "ACTIVE"
    BY <1>2, <2>1, <2>2
  <2> QED BY <2>3 DEF ShipPlan
<1> QED BY <1>5, <1>6

\* Every operation on an order keeps its history.
LEMMA OrderStepKeeps ==
    ASSUME ProductionLedger, StockTyped, OrderTyped, NEW o \in Orders, OrderInv(o), OrderStep(o)
    PROVE  OrderInv(o)'
<1> DEFINE s == GeneralSlot(o)
           t == JobOutSlot(o)
<1>0. /\ CallShape(ProductionSlots) /\ Answer /\ s # t
      /\ s \in Slots /\ t \in Slots /\ s # NoSlot /\ t # NoSlot
      /\ s' = s /\ t' = t
  <2>1. s \in Slots /\ t \in Slots
    BY OrderAssumptions DEF GeneralSlot, JobOutSlot
  <2> QED BY <2>1, NoSlotIsNone, OrderSlotsApart DEF ProductionLedger, LedgerInv, GeneralSlot,
          JobOutSlot
<1>1. /\ DOMAIN oStatus = Orders /\ DOMAIN oAlloc = Orders /\ DOMAIN oShipped = Orders
      /\ oAlloc[o] \in AllocRows
  BY OrderTypedParts DEF OrderFrameTyped
\* A step before the order is ready, to a state before or at readiness.
<1>2. ASSUME oStatus[o] \notin {"READY", "FULFILLED", "CANCELLED"},
             oStatus'[o] \notin {"FULFILLED", "CANCELLED"},
             UNCHANGED <<posting, call>>, oShipped' = oShipped,
             \A r \in oAlloc'[o] : r.status = "ACTIVE"
      PROVE  OrderInv(o)'
  <2>1. Untouched(s) /\ Untouched(t)
    BY <1>2 DEF OrderInv, OrderEarly
  <2>2. Untouched(s)' /\ Untouched(t)'
    BY <1>0, <1>2, <2>1 DEF Untouched
  <2>3. OrderEarly(o)'
    BY <1>0, <2>2 DEF OrderEarly
  <2>4. OrderReady(o)'
    <3>1. \A c \in Callers : RunFits(c, o, "ACTIVE")'
      BY <1>0, <2>2 DEF RunFits, Untouched
    <3>2. RunsFit(o, "ACTIVE")'
      BY <3>1 DEF RunsFit
    <3> QED BY <1>0, <2>2, <3>2 DEF OrderReady, Untouched
  <2>5. OrderFulfilled(o)'
    BY <1>2 DEF OrderFulfilled
  <2>6. OrderRows(o)'
    <3>1. oShipped[o] = 0
      BY <1>2 DEF OrderInv, OrderRows
    <3> QED BY <1>2, <3>1 DEF OrderRows
  <2> QED BY <2>3, <2>4, <2>5, <2>6 DEF OrderInv
<1>3. ASSUME NEW u \in Users, OrderDesk(o, u) \/ MarkCustomerOrderInProduction(o, u)
      PROVE  OrderInv(o)'
  <2>1. /\ oStatus[o] \in {"ABSENT", "DRAFT", "SUBMITTED", "ALLOCATED"}
        /\ oStatus'[o] \in {"DRAFT", "SUBMITTED", "APPROVED", "IN_PRODUCTION"}
        /\ UNCHANGED <<posting, call>> /\ oShipped' = oShipped /\ oAlloc' = oAlloc
    BY <1>1, <1>3 DEF OrderDesk, CreateCustomerOrderDraft, UpdateCustomerOrderDraft,
       SubmitCustomerOrder, ApproveCustomerOrder, MarkCustomerOrderInProduction, OrderAdvances,
       stockVars
  <2>2. \A r \in oAlloc'[o] : r.status = "ACTIVE"
    BY <2>1 DEF OrderInv, OrderRows
  <2> QED BY <1>2, <2>1, <2>2
<1>4. ASSUME NEW wanted, oAlloc' = [oAlloc EXCEPT ![o] = @ \cup AllocateAll(o, wanted).rows],
             oStatus[o] \notin {"FULFILLED", "CANCELLED"}
      PROVE  \A r \in oAlloc'[o] : r.status = "ACTIVE"
  <2>1. AllocateAll(o, wanted).rows \in NewRows
    BY AllocateAllTyped DEF AllocResult
  <2>2. oAlloc'[o] = oAlloc[o] \cup AllocateAll(o, wanted).rows
    BY <1>1, <1>4
  <2> QED BY <1>4, <2>1, <2>2 DEF OrderInv, OrderRows, NewRows
<1>5. ASSUME NEW u \in Users, AllocateCustomerOrder(o, u) PROVE OrderInv(o)'
  <2> DEFINE now == {i \in DOMAIN oNeeds[o] : oNeeds[o][i].job = None \/ JobReady(oNeeds[o][i])}
  <2>1. /\ oStatus[o] = "APPROVED" /\ oStatus'[o] = "ALLOCATED"
        /\ oAlloc' = [oAlloc EXCEPT ![o] = @ \cup AllocateAll(o, now).rows]
        /\ UNCHANGED <<posting, call>> /\ oShipped' = oShipped
    BY <1>1, <1>5 DEF AllocateCustomerOrder, OrderAdvances, stockVars
  <2> HIDE DEF now
  <2> QED BY <1>2, <1>4, <2>1
<1>6. ASSUME NEW u \in Users, MarkCustomerOrderReady(o, u) PROVE OrderInv(o)'
  <2> DEFINE late == {i \in DOMAIN oNeeds[o] : ~Allocated(o, oNeeds[o][i].no)}
  <2>1. /\ oStatus[o] \in {"ALLOCATED", "IN_PRODUCTION"} /\ oStatus'[o] = "READY"
        /\ oAlloc' = [oAlloc EXCEPT ![o] = @ \cup AllocateAll(o, late).rows]
        /\ UNCHANGED <<posting, call>> /\ oShipped' = oShipped
    BY <1>1, <1>6 DEF MarkCustomerOrderReady, OrderAdvances, stockVars
  <2> HIDE DEF late
  <2> QED BY <1>2, <1>4, <2>1
<1>7. ASSUME NEW u \in Users, CancelCustomerOrder(o, u) PROVE OrderInv(o)'
  <2>1. /\ oStatus[o] \notin {"FULFILLED", "CANCELLED"} /\ oStatus'[o] = "CANCELLED"
        /\ oAlloc'[o] = Released(oAlloc[o]) /\ oShipped' = oShipped
    BY <1>1, <1>7 DEF CancelCustomerOrder, OrderAdvances
  <2>2. \A r \in oAlloc[o] : r.status = "ACTIVE" /\ r \in Allocation
    BY <1>1, <2>1 DEF OrderInv, OrderRows, AllocRows
  <2>3. \A r \in oAlloc'[o] : r.status = "RELEASED"
    BY <2>1, <2>2 DEF Released, Allocation
  <2>4. oShipped[o] = 0
    BY <2>1 DEF OrderInv, OrderRows
  <2> QED BY <2>1, <2>3, <2>4 DEF OrderInv, OrderEarly, OrderReady, OrderFulfilled, OrderRows
<1>8. ASSUME NEW c \in Callers, NEW u \in Users, FulfillPrepare(c, o, u) PROVE OrderInv(o)'
  <2> DEFINE G == ShipPlan(o, "ACTIVE", FALSE)
             J == ShipPlan(o, "ACTIVE", TRUE)
  <2>1. oStatus[o] = "READY" /\ posting' = posting /\ UNCHANGED orderVars
    BY <1>8 DEF FulfillPrepare
  <2>2. G' = G /\ J' = J
    BY <2>1, SameShipPlan DEF orderVars
  <2>3. /\ \A k \in Callers \ {c} : call'[k] = call[k]
        /\ call'[c].done = {}
        /\ \/ /\ call'[c].slot = s /\ call'[c].plan = G
              /\ (J = {} /\ call'[c].rest = {}) \/ call'[c].rest = {TaskFor(t, J)}
           \/ call'[c].slot = t /\ call'[c].plan = J /\ call'[c].rest = {} /\ G = {}
    BY <1>0, <1>8, FulfillRequest
  <2>4. TaskFor(t, J).plan = J
    BY DEF TaskFor
  <2>5. posting[s] \in {{}, G} /\ posting[t] \in {{}, J} /\ RunsFit(o, "ACTIVE")
    BY <2>1 DEF OrderInv, OrderReady
  <2> HIDE DEF G, J, s, t
  <2>6. /\ call'[c].slot = s => call'[c].plan = G /\ call'[c].done = {}
                                /\ (\A k \in call'[c].rest : k.plan = J)
                                /\ (J # {} => call'[c].rest # {})
        /\ call'[c].slot = t => call'[c].plan = J /\ call'[c].rest = {}
                                /\ (\A k \in call'[c].done : k.plan = G)
                                /\ (G # {} => call'[c].done # {} /\ posting'[s] = G)
    BY <1>0, <2>3, <2>4
  <2>7. RunFits(c, o, "ACTIVE")'
    BY <1>0, <2>2, <2>6 DEF RunFits, G, J, s, t
  <2>8. \A k \in Callers \ {c} : RunFits(k, o, "ACTIVE")'
    <3> TAKE k \in Callers \ {c}
    <3>1. RunFits(k, o, "ACTIVE") /\ call'[k] = call[k]
      BY <2>3, <2>5 DEF RunsFit
    <3> QED BY <1>0, <2>1, <2>2, <3>1 DEF RunFits, G, J, s, t
  <2>9. RunsFit(o, "ACTIVE")'
    BY <2>7, <2>8 DEF RunsFit
  <2>10. OrderReady(o)'
    BY <1>0, <2>1, <2>2, <2>5, <2>9 DEF OrderReady, G, J, s, t
  <2>11. oStatus' = oStatus /\ oAlloc' = oAlloc /\ oShipped' = oShipped
    BY <2>1 DEF orderVars
  <2>12. OrderEarly(o)' /\ OrderFulfilled(o)'
    BY <2>1, <2>11 DEF OrderEarly, OrderFulfilled
  <2>13. OrderRows(o)'
    BY <2>11 DEF OrderInv, OrderRows
  <2> QED BY <2>10, <2>12, <2>13 DEF OrderInv
<1>9. ASSUME NEW c \in Callers, FulfillFinalize(c, o) PROVE OrderInv(o)'
  <2>0. /\ call[c].phase = "posted" /\ call[c].rest = {} /\ call[c].slot \in {s, t}
        /\ Finished(c) /\ posting' = posting /\ oNeeds' = oNeeds
    BY <1>9 DEF FulfillFinalize
  <2>1. call'[c] = Idle /\ \A k \in Callers \ {c} : call'[k] = call[k]
    BY <1>0, <2>0, EndedCall
  <2>2. CASE UNCHANGED <<oStatus, oVersion, oAlloc, oShipped>>
    <3>1. SameOrder(o)
      BY <2>0, <2>2 DEF SameOrder
    <3>2. OrderSlots(o) \in SUBSET Slots
      BY OrderSlotsApart
    <3>3. Undisturbed(OrderSlots(o))
      BY <1>0, <2>0, <3>2, FinishedDisturbsNothing
    <3>4. QuietRuns(OrderSlots(o))
      BY <1>0, <2>1, IdleCall DEF QuietRuns, SameRun, OrderSlots
    <3> QED BY <3>1, <3>3, <3>4, OrderQuiet
  <2>3. CASE /\ oStatus[o] = "READY" /\ OrderAdvances(o, {"READY"}, "FULFILLED")
             /\ oAlloc' = [oAlloc EXCEPT ![o] =
                  {IF r \in Consumed(o, c) THEN [r EXCEPT !.status = "CONSUMED"] ELSE r : r \in @}]
             /\ oShipped' = [oShipped EXCEPT ![o] = Shipped(o, c)]
    <3> DEFINE G == ShipPlan(o, "ACTIVE", FALSE)
               J == ShipPlan(o, "ACTIVE", TRUE)
               rows == {[r EXCEPT !.status = "CONSUMED"] : r \in oAlloc[o]}
    <3>0. oStatus[o] = "READY" /\ oStatus'[o] = "FULFILLED"
      BY <1>1, <2>3 DEF OrderAdvances
    <3>1. OrderReady(o) /\ OrderRows(o)
      BY DEF OrderInv
    <3>2. posting[s] = G /\ posting[t] = J /\ G \cup J \subseteq Posted(c)
      BY <1>0, <2>0, <3>0, <3>1, AllPosted
    <3>3. /\ {IF r \in Consumed(o, c) THEN [r EXCEPT !.status = "CONSUMED"] ELSE r :
                 r \in oAlloc[o]} = rows
          /\ Consumed(o, c) = oAlloc[o]
      BY <3>0, <3>1, <3>2, ConsumedAll
    <3>4. oAlloc'[o] = rows
      BY <1>1, <2>3, <3>3
    <3>5. \A r \in oAlloc[o] : r.status = "ACTIVE"
      BY <3>0, <3>1 DEF OrderRows
    <3>6. /\ ShipPlan(o, "CONSUMED", FALSE)' = G
          /\ ShipPlan(o, "CONSUMED", TRUE)' = J
      BY <2>0, <3>4, <3>5, ConsumedPlans
    <3>7. oShipped[o] = 0
      BY <3>0, <3>1 DEF OrderRows
    <3>8. QtyOf(oAlloc[o]) \in Nat
      BY <1>1, RowsQtyNat
    <3>9. oShipped'[o] = oShipped[o] + QtyOf(oAlloc[o])
      BY <1>1, <2>3, <3>3 DEF Shipped
    <3>10. QtyOf(rows) = QtyOf(oAlloc[o])
      BY <1>1, <3>5, RestatedQty
    <3>11. oShipped'[o] = QtyOf(oAlloc'[o])
      BY <3>4, <3>7, <3>8, <3>9, <3>10
    <3>12. \A r \in oAlloc'[o] : r.status = "CONSUMED"
      <4>1. oAlloc[o] \subseteq Allocation
        BY <1>1 DEF AllocRows
      <4> QED BY <3>4, <4>1 DEF Allocation
    <3> HIDE DEF G, J, rows
    <3>13. RunsFit(o, "CONSUMED")'
      <4>1. RunFits(c, o, "CONSUMED")'
        BY <1>0, <2>1, IdleCall DEF RunFits
      <4>2. ASSUME NEW k \in Callers \ {c} PROVE RunFits(k, o, "CONSUMED")'
        <5>1. RunFits(k, o, "ACTIVE") /\ call'[k] = call[k]
          BY <2>1, <3>0, <3>1 DEF OrderReady, RunsFit
        <5> QED BY <1>0, <2>0, <3>6, <5>1 DEF RunFits, G, J
      <4> QED BY <4>1, <4>2 DEF RunsFit
    <3>14. OrderFulfilled(o)'
      BY <1>0, <2>0, <3>2, <3>6, <3>11, <3>13 DEF OrderFulfilled, QtyOf
    <3> QED BY <3>0, <3>12, <3>14 DEF OrderInv, OrderEarly, OrderReady, OrderRows
  <2> QED BY <1>9, <2>2, <2>3 DEF FulfillFinalize
<1> QED BY <1>3, <1>5, <1>6, <1>7, <1>8, <1>9 DEF OrderStep

\* A step on some slots starts no request on others.
LEMMA QuietRunSteps ==
    ASSUME NEW K, CallShape(K), NEW S \in SUBSET Slots, NEW T, T \cap S = {}, LedgerStep(T)
    PROVE  QuietRuns(S)
<1>1. CASE Passing
  BY <1>1, PassingRuns, IdleCall, NoSlotIsNone DEF QuietRuns
<1>2. ASSUME NEW c \in Callers, Starting(c, T) \/ Continuing(c, T) PROVE QuietRuns(S)
  BY <1>2, TakenCall DEF QuietRuns, SameRun
<1> QED BY <1>1, <1>2 DEF LedgerStep

\* An operation on one order leaves the rows and postings of another alone.
LEMMA OtherOrders ==
    ASSUME OrderTyped, NEW o \in Orders, NEW k \in Orders, k # o, OrderStep(k)
    PROVE  SameOrder(o)
<1>0. /\ DOMAIN oStatus = Orders /\ DOMAIN oNeeds = Orders
      /\ DOMAIN oAlloc = Orders /\ DOMAIN oShipped = Orders
  BY DEF OrderTyped, OrderTypeOK
<1>1. ASSUME NEW u \in Users, OrderDesk(k, u) \/ MarkCustomerOrderInProduction(k, u)
      PROVE  SameOrder(o)
  BY <1>0, <1>1 DEF OrderDesk, CreateCustomerOrderDraft, UpdateCustomerOrderDraft,
     SubmitCustomerOrder, ApproveCustomerOrder, MarkCustomerOrderInProduction, OrderAdvances,
     SameOrder
<1>2. ASSUME NEW u \in Users, AllocateCustomerOrder(k, u) PROVE SameOrder(o)
  BY <1>0, <1>2 DEF AllocateCustomerOrder, OrderAdvances, SameOrder
<1>3. ASSUME NEW u \in Users, MarkCustomerOrderReady(k, u) PROVE SameOrder(o)
  BY <1>0, <1>3 DEF MarkCustomerOrderReady, OrderAdvances, SameOrder
<1>4. ASSUME NEW u \in Users, CancelCustomerOrder(k, u) PROVE SameOrder(o)
  BY <1>0, <1>4 DEF CancelCustomerOrder, OrderAdvances, SameOrder
<1>5. ASSUME NEW c \in Callers, NEW u \in Users, FulfillPrepare(c, k, u) PROVE SameOrder(o)
  BY <1>5 DEF FulfillPrepare, orderVars, SameOrder
<1>6. ASSUME NEW c \in Callers, FulfillFinalize(c, k) PROVE SameOrder(o)
  <2>1. oNeeds' = oNeeds /\ (oStatus' = oStatus \/ OrderAdvances(k, {"READY"}, "FULFILLED"))
    BY <1>6 DEF FulfillFinalize
  <2>2. oStatus'[o] = oStatus[o]
    BY <1>0, <2>1 DEF OrderAdvances
  <2>3. oAlloc'[o] = oAlloc[o] /\ oShipped'[o] = oShipped[o]
    BY <1>0, <1>6 DEF FulfillFinalize
  <2> QED BY <2>1, <2>2, <2>3 DEF SameOrder
<1> QED BY <1>1, <1>2, <1>3, <1>4, <1>5, <1>6 DEF OrderStep

\* Steps that are not the order's own leave its history as it is.
LEMMA OrderFrame ==
    ASSUME ProductionLedger, RestFollows, OrderTyped, [ProductionNext]_productionVars,
           NEW o \in Orders
    PROVE  \/ OrderStep(o)
           \/ \E c \in Callers : FulfillContinue(c) /\ call[c].slot \in OrderSlots(o)
           \/ /\ SameOrder(o) /\ Undisturbed(OrderSlots(o)) /\ QuietRuns(OrderSlots(o))
<1> DEFINE Quiet == SameOrder(o) /\ Undisturbed(OrderSlots(o)) /\ QuietRuns(OrderSlots(o))
<1>0. /\ CallShape(ProductionSlots) /\ LedgerShape /\ LedgerInv(ProductionSlots)
      /\ OrderSlots(o) \in SUBSET Slots
  BY OrderSlotsApart DEF ProductionLedger, LedgerInv
<1>1. ASSUME NEW T, T \cap OrderSlots(o) = {}, LedgerStep(T), SameOrder(o) PROVE Quiet
  BY <1>0, <1>1, QuietSteps, QuietRunSteps
<1>2. ASSUME UNCHANGED orderVars PROVE SameOrder(o)
  BY <1>2 DEF orderVars, SameOrder
<1> HIDE DEF Quiet
<1>3. ASSUME Passing, UNCHANGED orderVars PROVE Quiet
  <2>1. LedgerStep({})
    BY <1>3 DEF LedgerStep
  <2> QED BY <1>1, <1>2, <1>3, <2>1
<1>4. CASE (PostingNext \/ \E c \in Callers : FulfillCompensate(c)) /\ UNCHANGED orderVars
  <2>1. PostingNext \/ \E c \in Callers : Compensate(c) BY <1>4 DEF FulfillCompensate
  <2> QED BY <1>0, <1>3, <1>4, <2>1, PostingSteps DEF Quiet
<1>5. CASE BomNext /\ UNCHANGED orderVars
  BY <1>3, <1>5, BomSteps DEF Passing, Quiet
<1>6. CASE JobNext /\ UNCHANGED orderVars
  <2>1. PICK j \in Jobs : JobStep(j) BY <1>6 DEF JobNext
  <2>2. LedgerStep(JobSlots(j)) BY <1>0, <2>1, JobSteps, JobKindSteps
  <2>3. JobSlots(j) \cap OrderSlots(o) = {} BY ProductionSlotsApart, OrderSlotsApart
  <2> QED BY <1>1, <1>2, <1>6, <2>2, <2>3 DEF Quiet
<1>7. ASSUME NEW k \in Orders, k # o, OrderStep(k) PROVE Quiet
  BY <1>1, <1>7, OrderSteps, OtherOrders, OrderSlotsApart
<1>8. ASSUME NEW c \in Callers, FulfillContinue(c), call[c].slot \notin OrderSlots(o)
      PROVE  Quiet
  <2> DEFINE T == AllOrderSlots \ OrderSlots(o)
  <2>1. \A t \in call[c].rest : t.slot \in T
    <3> TAKE t \in call[c].rest
    <3>1. PICK k \in Orders : t.slot = JobOutSlot(k) /\ call[c].slot = GeneralSlot(k)
      BY DEF RestFollows
    <3>2. k # o
      BY <1>8, <3>1 DEF OrderSlots
    <3>3. t.slot \in OrderSlots(k)
      BY <3>1 DEF OrderSlots
    <3> QED BY <3>2, <3>3, OrderSlotsApart
  <2> HIDE DEF T
  <2>2. Continuing(c, T)
    BY <1>8, <2>1 DEF FulfillContinue, Continuing
  <2>3. LedgerStep(T)
    BY <2>2 DEF LedgerStep
  <2>4. UNCHANGED orderVars
    BY <1>8 DEF FulfillContinue
  <2> QED BY <1>1, <1>2, <2>3, <2>4 DEF T
<1>9. CASE UNCHANGED productionVars
  BY <1>3, <1>9 DEF productionVars, stockVars, Passing, Still, Quiet
<1> QED BY <1>4, <1>5, <1>6, <1>7, <1>8, <1>9 DEF ProductionNext, OrderNext, Quiet

\* The second posting of a fulfilment keeps every order's history.
LEMMA ContinueKeeps ==
    ASSUME ProductionLedger, RestFollows, NEW o \in Orders, OrderInv(o), NEW c \in Callers,
           FulfillContinue(c), call[c].slot \in OrderSlots(o)
    PROVE  OrderInv(o)'
<1> DEFINE s == GeneralSlot(o)
           t == JobOutSlot(o)
<1>0. /\ CallShape(ProductionSlots) /\ Answer /\ s # t /\ s' = s /\ t' = t
      /\ call[c].slot \in {s, t} /\ call[c].phase = "posted"
  BY OrderSlotsApart DEF ProductionLedger, LedgerInv, FulfillContinue, OrderSlots,
     GeneralSlot, JobOutSlot
<1>1. posting' = posting /\ UNCHANGED orderVars
  BY DEF FulfillContinue
<1>2. SameOrder(o)
  BY <1>1 DEF SameOrder, orderVars
<1>3. PICK k \in call[c].rest :
         /\ \A x \in Callers \ {c} : call'[x] = call[x]
         /\ call'[c].slot = k.slot /\ call'[c].plan = k.plan /\ call'[c].rest = {}
         /\ call'[c].done = Tasks(c) \ call[c].rest
  BY <1>0, ContinuedRequest
<1>4. ASSUME NEW st, RunsFit(o, st) PROVE RunsFit(o, st)'
  <2> DEFINE G == ShipPlan(o, st, FALSE)
             J == ShipPlan(o, st, TRUE)
             one == [slot |-> call[c].slot, id |-> call[c].id, plan |-> call[c].plan]
  <2>1. G' = G /\ J' = J
    BY <1>2, SameShipPlan DEF SameOrder
  <2>2. call[c].slot = s
    <3>1. call[c].slot = t => call[c].rest = {}
      BY <1>4 DEF RunsFit, RunFits
    <3> QED BY <1>0, <1>3, <3>1
  <2>3. k.slot = t /\ call[c].rest = {k}
    <3>1. call[c].rest = {k} /\ \E x \in Orders : k.slot = JobOutSlot(x) /\ call[c].slot = GeneralSlot(x)
      BY <1>3 DEF RestFollows
    <3> QED BY <2>2, <3>1 DEF GeneralSlot, JobOutSlot
  <2>4. call[c].plan = G /\ call[c].done = {} /\ k.plan = J
    BY <1>3, <1>4, <2>2 DEF RunsFit, RunFits
  <2>5. posting[s] = G
    BY <1>0, <2>2, <2>4 DEF Answer
  <2>6. /\ Tasks(c) = {one} \cup {k}
        /\ one.slot = s /\ one.plan = G
    BY <2>2, <2>3, <2>4 DEF Tasks
  <2> HIDE DEF one, G, J, s, t
  <2>7. one # k
    BY <1>0, <2>3, <2>6
  <2>8. call'[c].done = {one}
    BY <1>3, <2>3, <2>6, <2>7
  <2>9. /\ call'[c].slot = t /\ call'[c].plan = J /\ call'[c].rest = {}
        /\ \A x \in call'[c].done : x.plan = G
        /\ call'[c].done # {} /\ posting'[s] = G
    BY <1>1, <1>3, <2>3, <2>4, <2>5, <2>6, <2>8
  <2>10. RunFits(c, o, st)'
    BY <1>0, <2>1, <2>9 DEF RunFits, G, J, s, t
  <2>11. \A x \in Callers \ {c} : RunFits(x, o, st)'
    <3> TAKE x \in Callers \ {c}
    <3>1. RunFits(x, o, st) /\ call'[x] = call[x]
      BY <1>3, <1>4 DEF RunsFit
    <3> QED BY <1>0, <1>1, <2>1, <3>1 DEF RunFits, G, J, s, t
  <2> QED BY <2>10, <2>11 DEF RunsFit
<1>5. /\ oStatus' = oStatus /\ oAlloc' = oAlloc /\ oNeeds' = oNeeds /\ oShipped' = oShipped
  BY <1>1 DEF orderVars
<1>6. \A st, linked : ShipPlan(o, st, linked)' = ShipPlan(o, st, linked)
  BY <1>2, SameShipPlan DEF SameOrder
<1>7. OrderEarly(o)'
  BY <1>0, <1>5 DEF OrderInv, OrderEarly, Untouched
<1>8. OrderReady(o)'
  BY <1>0, <1>1, <1>4, <1>5, <1>6 DEF OrderInv, OrderReady
<1>9. OrderFulfilled(o)'
  BY <1>0, <1>1, <1>4, <1>5, <1>6 DEF OrderInv, OrderFulfilled, QtyOf
<1>10. OrderRows(o)'
  BY <1>5 DEF OrderInv, OrderRows
<1> QED BY <1>7, <1>8, <1>9, <1>10 DEF OrderInv

\* Every step keeps the history of every order.
LEMMA OrdersKept ==
    ASSUME ProductionLedger, RestFollows, StockTyped, OrderTyped, OrderHistory,
           [ProductionNext]_productionVars
    PROVE  OrderHistory'
<1>1. ASSUME NEW o \in Orders PROVE OrderInv(o)'
  <2>0. OrderInv(o) BY DEF OrderHistory
  <2> QED BY <2>0, OrderFrame, OrderStepKeeps, ContinueKeeps, OrderQuiet
<1> QED BY <1>1 DEF OrderHistory

\* At first no order has a history.
LEMMA OrderInitial == ASSUME ProductionInit PROVE RestFollows /\ OrderHistory
<1>1. OrderInit /\ StockInit BY DEF ProductionInit
<1>2. RestFollows BY <1>1, IdleCall DEF StockInit, RestFollows
<1>3. ASSUME NEW o \in Orders PROVE OrderInv(o)
  <2>1. oStatus[o] = "ABSENT" /\ oAlloc[o] = {} /\ oShipped[o] = 0 BY <1>1 DEF OrderInit
  <2>2. GeneralSlot(o) \in Slots /\ JobOutSlot(o) \in Slots
    BY OrderAssumptions DEF GeneralSlot, JobOutSlot
  <2>3. Untouched(GeneralSlot(o)) /\ Untouched(JobOutSlot(o))
    BY <1>1, <2>2, IdleCall, NoSlotIsNone DEF StockInit, Untouched
  <2> QED BY <2>1, <2>3 DEF OrderInv, OrderEarly, OrderReady, OrderFulfilled, OrderRows
<1> QED BY <1>2, <1>3 DEF OrderHistory

ProductionInv == ProductionLedger /\ ProductionTyped /\ JobHistory /\ RestFollows /\ OrderHistory

\* The invariant is inductive.
LEMMA ProductionInvKept ==
    ASSUME ProductionInv, [ProductionNext]_productionVars PROVE ProductionInv'
BY ProductionLedgerKept, ProductionTypedKept, JobsKept, RestFollowsKept, OrdersKept
   DEF ProductionInv, ProductionTyped

\* The invariant holds at first.
LEMMA ProductionInvAtFirst == ASSUME ProductionInit PROVE ProductionInv
BY ProductionStart, ProductionTypedAtFirst, OrderInitial DEF ProductionInv

\* A fulfilled order shipped exactly its allocations, each once, in its two
\* postings together, and the half a ready order has posted is what its retry
\* will ask for (fulfillCustomerOrder under crashes, lost answers, two requests
\* at once and a cancellation on the way).
THEOREM OrdersBacked == ProductionSpec => []OrdersBackedByPosting
<1>1. ProductionInit => ProductionInv
  BY ProductionInvAtFirst
<1>2. ProductionInv /\ [ProductionNext]_productionVars => ProductionInv'
  BY ProductionInvKept
<1>3. ProductionInv => OrdersBackedByPosting
  <2> SUFFICES ASSUME ProductionInv, NEW o \in Orders
               PROVE  /\ oStatus[o] = "FULFILLED" =>
                           /\ posting[GeneralSlot(o)] = ShipPlan(o, "CONSUMED", FALSE)
                           /\ posting[JobOutSlot(o)] = ShipPlan(o, "CONSUMED", TRUE)
                           /\ oShipped[o] = QtyOf(oAlloc[o])
                      /\ oStatus[o] # "FULFILLED" =>
                           oShipped[o] = 0 /\ \A r \in oAlloc[o] : r.status # "CONSUMED"
                      /\ oStatus[o] = "READY" =>
                           /\ posting[GeneralSlot(o)] \in {{}, ShipPlan(o, "ACTIVE", FALSE)}
                           /\ posting[JobOutSlot(o)] \in {{}, ShipPlan(o, "ACTIVE", TRUE)}
    BY DEF OrdersBackedByPosting
  <2>1. OrderReady(o) /\ OrderFulfilled(o) /\ OrderRows(o)
    BY DEF ProductionInv, OrderHistory, OrderInv
  <2> QED BY <2>1 DEF OrderReady, OrderFulfilled, OrderRows
<1> QED BY <1>1, <1>2, <1>3, PTL DEF ProductionSpec

-----------------------------------------------------------------------------
(* What pairs of an order, or of a slot, and a row or a movement hold.     *)

\* Finitely many pairs with quantities.
Countable(P) == IsFiniteSet(P) /\ \A x \in P : x[2].qty \in Nat

\* A part is countable, and so is a whole made of two.
LEMMA CountableParts ==
    /\ \A P : \A T \in SUBSET P : Countable(P) => Countable(T)
    /\ \A P, Q : Countable(P) /\ Countable(Q) => Countable(P \cup Q)
<1>1. ASSUME NEW P, NEW T \in SUBSET P, Countable(P) PROVE Countable(T)
  BY <1>1, FS_Subset DEF Countable
<1>2. ASSUME NEW P, NEW Q, Countable(P), Countable(Q) PROVE Countable(P \cup Q)
  BY <1>2, FS_Union DEF Countable
<1> QED BY <1>1, <1>2

\* Two sets of pairs that share none hold what both hold.
LEMMA UnitsJoin ==
    ASSUME NEW P, NEW Q, Countable(P), Countable(Q), P \cap Q = {}
    PROVE  Units(P \cup Q) = Units(P) + Units(Q)
<1> DEFINE R == P \cup Q
           f == [x \in R |-> x[2].qty]
           g == [x \in P |-> x[2].qty]
           h == [x \in Q |-> x[2].qty]
<1>1. /\ \A x \in P : g[x] = f[x]
      /\ \A x \in Q : h[x] = f[x]
  OBVIOUS
<1>2. \A x \in R : f[x] \in Int
  BY DEF Countable
<1>3. Units(R) = SumFunctionOnSet(f, R) /\ Units(P) = SumFunctionOnSet(g, P)
        /\ Units(Q) = SumFunctionOnSet(h, Q)
  BY DEF Units
<1>4. IsFiniteSet(P) /\ IsFiniteSet(Q)
  BY DEF Countable
<1> HIDE DEF f, g, h
<1>5. SumFunctionOnSet(g, P) = SumFunctionOnSet(f, P)
  BY <1>1, <1>4, SumSame
<1>6. SumFunctionOnSet(h, Q) = SumFunctionOnSet(f, Q)
  BY <1>1, <1>4, SumSame
<1>7. SumFunctionOnSet(f, R) = SumFunctionOnSet(f, P) + SumFunctionOnSet(f, Q)
  BY <1>2, <1>4, SumUnion
<1> QED BY <1>3, <1>5, <1>6, <1>7

\* Fewer pairs hold no more, and two sets of them no more than each.
LEMMA HeldParts ==
    ASSUME NEW P, Countable(P), NEW w, NEW l
    PROVE  /\ Held(P, w, l) \in Nat
           /\ \A T \in SUBSET P : Held(T, w, l) \in Nat /\ Held(T, w, l) <= Held(P, w, l)
<1> DEFINE at(S) == {x \in S : x[2].wh = w /\ x[2].lot = l}
<1>1. \A S : Held(S, w, l) = Units(at(S))
  BY DEF Held
<1>2. Countable(at(P))
  BY CountableParts
<1>3. \A T \in SUBSET P : at(T) \in SUBSET at(P)
  OBVIOUS
<1> HIDE DEF at
<1>4. Units(at(P)) \in Nat
        /\ \A T \in SUBSET at(P) : Units(T) \in Nat /\ Units(T) <= Units(at(P))
  BY <1>2, UnitsNat DEF Countable
<1> QED BY <1>1, <1>3, <1>4

\* Two sets together hold no more than each, and exactly that if they are apart.
LEMMA HeldJoin ==
    ASSUME NEW P, NEW Q, Countable(P), Countable(Q), NEW w, NEW l
    PROVE  /\ Held(P \cup Q, w, l) <= Held(P, w, l) + Held(Q, w, l)
           /\ P \cap Q = {} => Held(P \cup Q, w, l) = Held(P, w, l) + Held(Q, w, l)
<1> DEFINE at(S) == {x \in S : x[2].wh = w /\ x[2].lot = l}
           N == Q \ P
<1>1. \A S : Held(S, w, l) = Units(at(S))
  BY DEF Held
<1>2. Countable(N) /\ N \in SUBSET Q
  BY CountableParts
<1>3. Countable(at(P)) /\ Countable(at(N))
  BY <1>2, CountableParts
<1>4. P \cup Q = P \cup N /\ at(P \cup N) = at(P) \cup at(N) /\ at(P) \cap at(N) = {}
  OBVIOUS
<1>5. P \cap Q = {} => N = Q
  OBVIOUS
<1> HIDE DEF at, N
<1>6. Units(at(P) \cup at(N)) = Units(at(P)) + Units(at(N))
  BY <1>3, <1>4, UnitsJoin
<1>7. Held(P \cup Q, w, l) = Held(P, w, l) + Held(N, w, l)
  BY <1>1, <1>4, <1>6
<1>8. Held(N, w, l) <= Held(Q, w, l) /\ Held(N, w, l) \in Nat /\ Held(Q, w, l) \in Nat
        /\ Held(P, w, l) \in Nat
  BY <1>2, HeldParts
<1> QED BY <1>5, <1>7, <1>8

\* What is held along an injection that keeps warehouse, lot and quantity.
LEMMA HeldCovered ==
    ASSUME NEW C, NEW S, Countable(S), NEW q, q = [x \in C |-> q[x]],
           \A x \in C : /\ q[x] \in S
                        /\ q[x][2].wh = x[2].wh /\ q[x][2].lot = x[2].lot
                        /\ q[x][2].qty = x[2].qty,
           \A x, y \in C : q[x] = q[y] => x = y,
           NEW w, NEW l
    PROVE  Countable(C) /\ Held(C, w, l) <= Held(S, w, l)
<1>1. q \in [C -> S]
  OBVIOUS
<1>2. q \in Injection(C, S)
  BY <1>1 DEF Injection, IsInjective
<1>3. IsFiniteSet(C)
  BY <1>2, FS_Injection DEF Countable
<1>4. Countable(C)
  BY <1>3 DEF Countable
<1> DEFINE at(T) == {x \in T : x[2].wh = w /\ x[2].lot = l}
           c == at(C)
           s == at(S)
           g == [x \in c |-> x[2].qty]
           h == [x \in s |-> x[2].qty]
<1>5. IsFiniteSet(c) /\ IsFiniteSet(s)
  BY <1>3, FS_Subset DEF Countable
<1>6. \A x \in c : q[x] \in s /\ g[x] = h[q[x]]
  OBVIOUS
<1>7. \A x, y \in c : q[x] = q[y] => x = y
  OBVIOUS
<1>8. \A x \in s : h[x] \in Nat
  BY DEF Countable
<1>9. Held(C, w, l) = SumFunctionOnSet(g, c) /\ Held(S, w, l) = SumFunctionOnSet(h, s)
  BY DEF Held, Units
<1> HIDE DEF g, h, c, s
<1>10. SumFunctionOnSet(g, c) <= SumFunctionOnSet(h, s)
  BY <1>5, <1>6, <1>7, <1>8, SumCovered
<1> QED BY <1>4, <1>9, <1>10

\* What a plan moves is what its movements hold under the plan's slot.
LEMMA HeldOfPlan ==
    ASSUME NEW P \in Plans, \A m \in P : m.way = "OUT", NEW s, NEW w, NEW l
    PROVE  /\ Countable({<<s, m>> : m \in P})
           /\ Held({<<s, m>> : m \in P}, w, l) = Moved(P, "OUT", w, l)
<1> DEFINE T == {<<s, m>> : m \in P}
           at == {m \in P : m.wh = w /\ m.lot = l}
           q == [m \in at |-> <<s, m>>]
           g == [m \in at |-> m.qty]
           t == {x \in T : x[2].wh = w /\ x[2].lot = l}
           h == [x \in t |-> x[2].qty]
<1>1. IsFiniteSet(P) /\ \A m \in P : m.qty \in Nat
  BY StockAssumptions DEF Plans, Move, Quantity
<1>2. IsFiniteSet(T) /\ \A x \in T : x[2].qty \in Nat
  <2>1. IsFiniteSet(T)
    BY <1>1, TaggedFinite
  <2>2. \A m \in P : <<s, m>>[2].qty \in Nat
    BY <1>1
  <2> QED BY <2>1, <2>2
<1>3. Moved(P, "OUT", w, l) = SumFunctionOnSet(g, at)
  <2>1. {m \in P : m.way = "OUT" /\ m.wh = w /\ m.lot = l} = at
    OBVIOUS
  <2> QED BY <2>1 DEF Moved, QtyOf
<1>4. Held(T, w, l) = SumFunctionOnSet(h, t)
  BY DEF Held, Units
<1>5. {q[m] : m \in at} = t
  <2>1. \A m \in at : q[m] = <<s, m>>
    OBVIOUS
  <2>2. t = {x \in T : x[2] \in at}
    OBVIOUS
  <2>3. \A x : x \in {q[m] : m \in at} <=> \E m \in at : x = <<s, m>>
    BY <2>1
  <2>4. \A x : x \in t <=> \E m \in at : x = <<s, m>>
    <3>1. \A x : x \in T <=> \E m \in P : x = <<s, m>>
      OBVIOUS
    <3>2. at \subseteq P
      OBVIOUS
    <3>3. \A m : <<s, m>>[2] = m
      OBVIOUS
    <3> HIDE DEF T, at, t
    <3> QED BY <2>2, <3>1, <3>2, <3>3
  <2> HIDE DEF t, at, q, T
  <2> QED BY <2>3, <2>4
<1>6. \A m \in at : g[m] = h[q[m]] /\ h[q[m]] \in Int
  BY <1>1
<1>7. \A m, k \in at : q[m] = q[k] => m = k
  OBVIOUS
<1>8. IsFiniteSet(at)
  BY <1>1, FS_Subset
<1> HIDE DEF T, at, q, g, t, h
<1>9. SumFunctionOnSet(g, at) = SumFunctionOnSet(h, {q[m] : m \in at})
  BY <1>6, <1>7, <1>8, SumInjected
<1> QED BY <1>2, <1>3, <1>4, <1>5, <1>9 DEF Countable, T

\* Two plans that share no movement move what each of them moves; a larger plan
\* moves no less.
LEMMA MovedJoin ==
    ASSUME NEW P \in Plans, NEW Q \in Plans, P \cap Q = {}, NEW way, NEW w, NEW l
    PROVE  Moved(P \cup Q, way, w, l) = Moved(P, way, w, l) + Moved(Q, way, w, l)
<1> DEFINE at(S) == {m \in S : m.way = way /\ m.wh = w /\ m.lot = l}
           A == at(P)
           B == at(Q)
           R == A \cup B
           f == [m \in R |-> m.qty]
           g == [m \in A |-> m.qty]
           h == [m \in B |-> m.qty]
<1>1. at(P \cup Q) = R /\ A \cap B = {}
  OBVIOUS
<1>2. IsFiniteSet(A) /\ IsFiniteSet(B)
  BY FS_Subset DEF Plans
<1>3. \A m \in R : f[m] \in Int
  BY StockAssumptions DEF Plans, Move, Quantity
<1>4. (\A m \in A : g[m] = f[m]) /\ \A m \in B : h[m] = f[m]
  OBVIOUS
<1>5. /\ Moved(P \cup Q, way, w, l) = SumFunctionOnSet(f, R)
      /\ Moved(P, way, w, l) = SumFunctionOnSet(g, A)
      /\ Moved(Q, way, w, l) = SumFunctionOnSet(h, B)
  BY <1>1 DEF Moved, QtyOf
<1> HIDE DEF A, B, f, g, h
<1>6. SumFunctionOnSet(g, A) = SumFunctionOnSet(f, A)
  BY <1>2, <1>4, SumSame
<1>7. SumFunctionOnSet(h, B) = SumFunctionOnSet(f, B)
  BY <1>2, <1>4, SumSame
<1>8. SumFunctionOnSet(f, R) = SumFunctionOnSet(f, A) + SumFunctionOnSet(f, B)
  BY <1>1, <1>2, <1>3, SumUnion
<1> QED BY <1>5, <1>6, <1>7, <1>8

-----------------------------------------------------------------------------
(* What allocations leave free.                                            *)

\* The rows of an order that is being allocated, with its name.
TagRows(o, R) == {<<o, r>> : r \in R}

\* A balance the allocation takes from is held, together with what all other
\* orders hold of it, within what is there.
Within(o, R) ==
    \A w \in Warehouses, l \in Lots :
        (\E r \in R : r.wh = w /\ r.lot = l) =>
            Held(ActiveRows \cup TagRows(o, R), w, l) <= onHand[w][l]

\* One need more takes only what is free.
LEMMA AllocateWithin ==
    ASSUME StockTyped, OrderTyped, NEW o, NEW done \in AllocResult, NEW need \in Need,
           Within(o, done.rows)
    PROVE  Within(o, Allocate(o, done, need).rows)
<1> DEFINE rows == ActiveRows \cup {<<o, r>> : r \in done.rows}
           free == FreeFor(o, rows)
           cand == OrderCandidates(o, need, free)
           P == Portions(cand, free, need.qty)
           row == [p \in P |-> [no |-> need.no, wh |-> p.wh, lot |-> p.lot, qty |-> p.qty,
                                status |-> "ACTIVE"]]
           new == {row[p] : p \in P}
<1>1. done.rows \in AllocRows
  BY DEF AllocResult, NewRows
<1>2. Countable(rows)
  BY <1>1, RowsWith DEF Countable
<1>3. cand \in SUBSET (Warehouses \X Lots) /\ \A x \in cand : free[x] > 0
  BY DEF OrderCandidates
<1>4. \A w \in Warehouses, l \in Lots :
         /\ free[<<w, l>>] = onHand[w][l] - Held(rows, w, l)
         /\ onHand[w][l] \in Nat /\ Held(rows, w, l) \in Nat
  <2> TAKE w \in Warehouses, l \in Lots
  <2>1. onHand[w][l] \in Nat
    BY DEF StockTyped, Balances
  <2> HIDE DEF rows
  <2>2. Held(rows, w, l) \in Nat
    BY <1>2, HeldParts
  <2>3. free[<<w, l>>] = onHand[w][l] - Held(rows, w, l)
    BY DEF FreeFor
  <2> QED BY <2>1, <2>2, <2>3
<1>5. \A x \in cand : free[x] \in Nat \ {0}
  <2> TAKE x \in cand
  <2>1. x[1] \in Warehouses /\ x[2] \in Lots /\ x = <<x[1], x[2]>> /\ free[x] > 0
    BY <1>3
  <2> HIDE DEF rows, free, cand
  <2>2. free[x] \in Int
    BY <1>4, <2>1
  <2> QED BY <2>1, <2>2
<1>6. need.qty \in Quantity /\ need.no \in Nat
  BY DEF Need
<1>7. /\ IsFiniteSet(P)
      /\ \A p \in P : /\ <<p.wh, p.lot>> \in cand /\ p.qty \in Quantity
                      /\ p.qty <= free[<<p.wh, p.lot>>]
      /\ \A p, k \in P : p.wh = k.wh /\ p.lot = k.lot => p = k
  <2> HIDE DEF cand, free
  <2> QED BY <1>3, <1>5, <1>6, PortionsTyped
<1>8. Allocate(o, done, need).rows = done.rows \cup new
  BY DEF Allocate
<1>9. \A p \in P : row[p].wh = p.wh /\ row[p].lot = p.lot /\ row[p].qty = p.qty
  OBVIOUS
<1>10. /\ row = [p \in P |-> row[p]] /\ DOMAIN row = P
  OBVIOUS
<1> DEFINE both == ActiveRows \cup TagRows(o, done.rows \cup new)
           tag == TagRows(o, new)
<1>11. both = rows \cup tag
  BY DEF TagRows
<1>12. IsFiniteSet(new)
  <2> HIDE DEF row, P
  <2> QED BY <1>7, <1>10, FiniteImage
<1> HIDE DEF row, P, cand, free, rows
<1>13. \A x \in tag : \E p \in P : x = <<o, row[p]>>
  BY DEF TagRows
<1>14. Countable(tag)
  <2> HIDE DEF new
  <2>1. IsFiniteSet(tag)
    BY <1>12, TaggedFinite DEF TagRows
  <2>2. \A x \in tag : x[2].qty \in Nat
    <3> TAKE x \in tag
    <3>1. PICK p \in P : x = <<o, row[p]>>
      BY <1>13
    <3>2. x[2] = row[p] /\ row[p].qty = p.qty /\ p.qty \in Quantity
      BY <1>7, <1>9, <3>1
    <3> QED BY <3>2, StockAssumptions DEF Quantity
  <2> QED BY <2>1, <2>2 DEF Countable
<1>15. ASSUME NEW w \in Warehouses, NEW l \in Lots, NEW p \in P, p.wh = w, p.lot = l
       PROVE  Held(both, w, l) <= onHand[w][l]
  <2> DEFINE at == {x \in tag : x[2].wh = w /\ x[2].lot = l}
             one == <<o, row[p]>>
             f == [x \in at |-> x[2].qty]
  <2>1. at = {one}
    <3>1. one \in tag
      BY DEF TagRows
    <3>2. one[2] = row[p] /\ row[p].wh = w /\ row[p].lot = l
      BY <1>9, <1>15
    <3>3. one \in at
      BY <3>1, <3>2
    <3>4. ASSUME NEW x \in at PROVE x = one
      <4>1. PICK k \in P : x = <<o, row[k]>>
        BY <1>13
      <4>2. x[2] = row[k] /\ row[k].wh = w /\ row[k].lot = l
        BY <4>1
      <4>3. k = p
        BY <1>7, <1>9, <1>15, <4>2
      <4> QED BY <4>1, <4>3
    <3> HIDE DEF at, one
    <3> QED BY <3>3, <3>4
  <2>2. f[one] = p.qty /\ p.qty \in Nat /\ p.qty <= free[<<w, l>>]
    <3>1. one \in at
      BY <2>1
    <3>2. f[one] = row[p].qty /\ row[p].qty = p.qty
      BY <1>9, <3>1
    <3> QED BY <1>7, <1>15, <3>2, StockAssumptions DEF Quantity
  <2>3. Held(tag, w, l) = SumFunctionOnSet(f, at)
    BY DEF Held, Units
  <2> HIDE DEF at, f, one, tag
  <2>4. SumFunctionOnSet(f, {one}) = p.qty
    <3>1. SumFunctionOnSet(f, {one}) = f[one] + SumFunctionOnSet(f, {one} \ {one})
      <4>1. IsFiniteSet({one})
        BY FS_Singleton
      <4>2. f[one] \in Int
        BY <2>2
      <4>3. one \in {one} /\ \A y \in {one} : f[y] \in Int
        BY <4>2
      <4> QED BY <4>1, <4>3, SumRemove
    <3>2. {one} \ {one} = {}
      OBVIOUS
    <3>3. SumFunctionOnSet(f, {}) = 0
      BY SumUnfold, FS_EmptySet
    <3>4. SumFunctionOnSet(f, {one}) = f[one] + 0
      BY <3>1, <3>2, <3>3
    <3>5. f[one] = p.qty /\ p.qty \in Nat
      BY <2>2
    <3> QED BY <3>4, <3>5
  <2>5. Held(both, w, l) <= Held(rows, w, l) + Held(tag, w, l) /\ Held(both, w, l) \in Nat
    <3> HIDE DEF both
    <3>1. Held(rows \cup tag, w, l) <= Held(rows, w, l) + Held(tag, w, l)
      BY <1>2, <1>14, HeldJoin
    <3>2. Countable(rows \cup tag)
      BY <1>2, <1>14, CountableParts
    <3>3. Held(rows \cup tag, w, l) \in Nat
      BY <3>2, HeldParts
    <3> QED BY <1>11, <3>1, <3>3
  <2>6. Held(tag, w, l) = p.qty
    BY <2>1, <2>3, <2>4
  <2>7. free[<<w, l>>] = onHand[w][l] - Held(rows, w, l) /\ onHand[w][l] \in Nat
          /\ Held(rows, w, l) \in Nat
    BY <1>4
  <2> HIDE DEF both
  <2> QED BY <2>2, <2>5, <2>6, <2>7
<1>16. ASSUME NEW w \in Warehouses, NEW l \in Lots, \A p \in P : ~ (p.wh = w /\ p.lot = l),
              \E r \in done.rows \cup new : r.wh = w /\ r.lot = l
       PROVE  Held(both, w, l) <= onHand[w][l]
  <2>1. \A r \in new : ~ (r.wh = w /\ r.lot = l)
    BY <1>9, <1>16
  <2>2. \E r \in done.rows : r.wh = w /\ r.lot = l
    BY <1>16, <2>1
  <2>3. Held(rows, w, l) <= onHand[w][l]
    BY <2>2 DEF Within, TagRows, rows
  <2>4. {x \in both : x[2].wh = w /\ x[2].lot = l} = {x \in rows : x[2].wh = w /\ x[2].lot = l}
    <3>1. \A x \in tag : ~ (x[2].wh = w /\ x[2].lot = l)
      <4> TAKE x \in tag
      <4>1. PICK p \in P : x = <<o, row[p]>>
        BY <1>13
      <4> QED BY <1>9, <1>16, <4>1
    <3> HIDE DEF both, tag
    <3> QED BY <1>11, <3>1
  <2>5. Held(both, w, l) = Held(rows, w, l)
    BY <2>4 DEF Held
  <2> QED BY <2>3, <2>5
<1> HIDE DEF both
<1>17. ASSUME NEW w \in Warehouses, NEW l \in Lots,
              \E r \in done.rows \cup new : r.wh = w /\ r.lot = l
       PROVE  Held(both, w, l) <= onHand[w][l]
  BY <1>15, <1>16, <1>17
<1> QED BY <1>8, <1>17 DEF Within, both

\* An allocation takes only what is free, of its needs together.
LEMMA AllocatedWithin ==
    ASSUME StockTyped, OrderTyped, NEW o \in Orders, NEW wanted
    PROVE  Within(o, AllocateAll(o, wanted).rows)
<1>1. PICK g : NeedByNeed(g, o, wanted)
  BY AllocateAllSteps
<1> DEFINE n == Len(oNeeds[o])
<1>2. oNeeds[o] \in Seq(Need)
  BY NeedsTyped
<1>3. n \in Nat /\ \A k \in 1..n : oNeeds[o][k] \in Need
  BY <1>2
<1>0. /\ g \in [0..n -> AllocResult] /\ g[0] = [ok |-> TRUE, rows |-> {}]
      /\ \A k \in 1..n :
           g[k] = IF k \in wanted THEN Allocate(o, g[k - 1], oNeeds[o][k]) ELSE g[k - 1]
      /\ AllocateAll(o, wanted) = g[n]
  BY <1>1 DEF NeedByNeed
<1> HIDE DEF n
<1> DEFINE S == {k \in 0..n : Within(o, g[k].rows)}
<1>4. 0 \in S
  <2>1. g[0].rows = {}
    BY <1>0
  <2> QED BY <1>3, <2>1 DEF Within
<1>5. ASSUME NEW k \in 1..n, k - 1 \in S PROVE k \in S
  <2>1. k \in 0..n /\ k - 1 \in 0..n /\ Within(o, g[k - 1].rows)
    BY <1>3, <1>5
  <2>2. g[k - 1] \in AllocResult /\ oNeeds[o][k] \in Need
    BY <1>0, <1>3, <2>1
  <2>3. Within(o, Allocate(o, g[k - 1], oNeeds[o][k]).rows)
    BY <2>1, <2>2, AllocateWithin
  <2>4. Within(o, g[k].rows)
    BY <1>0, <1>5, <2>1, <2>3
  <2> QED BY <2>1, <2>4
<1> HIDE DEF S
<1>6. 0..n \subseteq S
  BY <1>3, <1>4, <1>5, Onwards
<1>7. n \in S
  BY <1>3, <1>6
<1> QED BY <1>0, <1>7 DEF S

-----------------------------------------------------------------------------
(* What the orders shipped and what the jobs made, against the balances.   *)

\* The movements orders have posted, with their slots; what the jobs posted.
Shipments == {x \in AllOrderSlots \X Move : x[2] \in posting[x[1]]}
Made == UNION {posting[OutputSlot(j)] : j \in Jobs}

\* Only a job's output brings stock, and only of the job's own lot.
Directed(s, P) ==
    /\ \A j \in Jobs : s = OutputSlot(j) => \A m \in P : m.way = "IN" /\ m.lot = OutputLot(j)
    /\ (\A j \in Jobs : s # OutputSlot(j)) => \A m \in P : m.way = "OUT"
OneWay ==
    /\ \A s \in Slots : Directed(s, posting[s])
    /\ \A c \in Callers : /\ Directed(call[c].slot, call[c].plan)
                          /\ \A t \in call[c].rest : Directed(t.slot, t.plan)

\* What is on hand and what was shipped was there or was made.
ShippedFits ==
    \A w \in Warehouses, l \in Lots :
        onHand[w][l] + Held(Shipments, w, l) <= InitStock[w][l] + Moved(Made, "IN", w, l)

\* A job's lot is its own, so there are finitely many jobs.
LEMMA JobsFinite ==
    IsFiniteSet(Jobs) /\ \A j, k \in Jobs : OutputLot(j) = OutputLot(k) => j = k
<1> DEFINE f == [j \in Jobs |-> OutputLot(j)]
<1>1. \A j, k \in Jobs : OutputLot(j) = OutputLot(k) => j = k
  BY DEF OutputLot
<1>2. f \in [Jobs -> Lots]
  BY JobAssumptions
<1>3. f \in Injection(Jobs, Lots)
  BY <1>1, <1>2 DEF Injection, IsInjective
<1> HIDE DEF f
<1>4. IsFiniteSet(Jobs)
  BY <1>3, JobAssumptions, FS_Injection
<1> QED BY <1>1, <1>4

\* The orders have finitely many slots.
LEMMA OrderSlotsFinite == IsFiniteSet(AllOrderSlots)
<1> DEFINE f == [o \in Orders |-> OrderSlots(o)]
<1>1. AllOrderSlots = UNION {f[o] : o \in Orders} /\ DOMAIN f = Orders
        /\ f = [o \in Orders |-> f[o]]
  BY DEF AllOrderSlots
<1>2. \A o \in Orders : IsFiniteSet(f[o])
  <2> TAKE o \in Orders
  <2>1. IsFiniteSet({GeneralSlot(o)}) /\ IsFiniteSet({JobOutSlot(o)})
    BY FS_Singleton
  <2>2. IsFiniteSet({GeneralSlot(o)} \cup {JobOutSlot(o)})
    BY <2>1, FS_Union
  <2>3. f[o] = {GeneralSlot(o)} \cup {JobOutSlot(o)}
    BY DEF OrderSlots
  <2> QED BY <2>2, <2>3
<1> HIDE DEF f
<1>3. IsFiniteSet({f[o] : o \in Orders})
  BY <1>1, OrderAssumptions, FiniteImage
<1>4. IsFiniteSet(UNION {f[o] : o \in Orders})
  BY <1>2, <1>3, FS_UNION
<1> QED BY <1>1, <1>4

\* Finitely many movements were shipped, and finitely many made.
LEMMA ShipmentsCountable == ASSUME StockTyped PROVE Countable(Shipments)
<1> DEFINE f == [s \in AllOrderSlots |-> {<<s, m>> : m \in posting[s]}]
<1>0. \A s \in AllOrderSlots : posting[s] \in Plans
  BY ProductionSlotsKnown DEF ProductionSlots, StockTyped
<1>1. Shipments = UNION {f[s] : s \in AllOrderSlots}
  <2>1. ASSUME NEW x \in Shipments PROVE x \in UNION {f[s] : s \in AllOrderSlots}
    <3>1. x[1] \in AllOrderSlots /\ x[2] \in posting[x[1]] /\ x = <<x[1], x[2]>>
      BY DEF Shipments
    <3>2. x \in f[x[1]]
      BY <3>1
    <3> QED BY <3>1, <3>2
  <2>2. ASSUME NEW s \in AllOrderSlots, NEW x \in f[s] PROVE x \in Shipments
    <3>1. PICK m \in posting[s] : x = <<s, m>>
      BY <2>2
    <3>2. m \in Move
      BY <1>0 DEF Plans
    <3> QED BY <3>1, <3>2 DEF Shipments
  <2> QED BY <2>1, <2>2
<1>2. f = [s \in AllOrderSlots |-> f[s]] /\ DOMAIN f = AllOrderSlots
  OBVIOUS
<1>3. \A s \in AllOrderSlots : IsFiniteSet(f[s])
  <2> TAKE s \in AllOrderSlots
  <2>1. IsFiniteSet(posting[s])
    BY <1>0 DEF Plans
  <2>2. IsFiniteSet({<<s, m>> : m \in posting[s]})
    BY <2>1, TaggedFinite
  <2> QED BY <2>2
<1> HIDE DEF f
<1>4. IsFiniteSet({f[s] : s \in AllOrderSlots})
  BY <1>2, OrderSlotsFinite, FiniteImage
<1>5. IsFiniteSet(UNION {f[s] : s \in AllOrderSlots})
  BY <1>3, <1>4, FS_UNION
<1>6. \A x \in Shipments : x[2].qty \in Nat
  BY StockAssumptions DEF Shipments, Move, Quantity
<1> QED BY <1>1, <1>5, <1>6 DEF Countable

\* What the jobs made is a finite plan of moves.
LEMMA MadeTyped == ASSUME StockTyped PROVE Made \in Plans
<1> DEFINE f == [j \in Jobs |-> posting[OutputSlot(j)]]
<1>1. \A j \in Jobs : f[j] \in Plans
  BY JobAssumptions DEF OutputSlot, StockTyped
<1>2. Made = UNION {f[j] : j \in Jobs} /\ f = [j \in Jobs |-> f[j]] /\ DOMAIN f = Jobs
  BY DEF Made
<1> HIDE DEF f
<1>3. IsFiniteSet({f[j] : j \in Jobs})
  BY <1>2, JobsFinite, FiniteImage
<1>4. IsFiniteSet(UNION {f[j] : j \in Jobs})
  BY <1>1, <1>3, FS_UNION DEF Plans
<1>5. UNION {f[j] : j \in Jobs} \subseteq Move
  BY <1>1 DEF Plans
<1> QED BY <1>2, <1>4, <1>5 DEF Plans

\* What a posting does to the shipments and to what was made.
LEMMA CommitFits ==
    ASSUME StockTyped, LedgerShape, OneWay, ShippedFits, NEW c \in Callers, Commit(c),
           call[c].slot \in ProductionSlots
    PROVE  ShippedFits'
<1> DEFINE s == call[c].slot
           P == call[c].plan
<1>0. /\ s \in Slots /\ P \in Plans /\ posting[s] = {}
      /\ posting' = [posting EXCEPT ![s] = P] /\ onHand' = After(P)
      /\ DOMAIN posting = Slots /\ Directed(s, P)
  <2>1. call[c] \in Sound
    BY DEF StockTyped
  <2> QED BY <2>1, SoundPlan, ProductionSlotsKnown DEF Commit, LedgerShape, OneWay
<1>1. ASSUME NEW w \in Warehouses, NEW l \in Lots
      PROVE  /\ onHand'[w][l] = onHand[w][l] + Moved(P, "IN", w, l) - Moved(P, "OUT", w, l)
             /\ Moved(P, "IN", w, l) \in Nat /\ Moved(P, "OUT", w, l) \in Nat
             /\ onHand[w][l] \in Nat /\ InitStock[w][l] \in Nat
             /\ Held(Shipments, w, l) \in Nat /\ Moved(Made, "IN", w, l) \in Nat
             /\ onHand[w][l] + Held(Shipments, w, l) <= InitStock[w][l] + Moved(Made, "IN", w, l)
  <2>1. Moved(P, "IN", w, l) \in Nat /\ Moved(P, "OUT", w, l) \in Nat
    BY <1>0, MovedNat
  <2>2. Moved(Made, "IN", w, l) \in Nat
    BY MadeTyped, MovedNat
  <2>3. Held(Shipments, w, l) \in Nat
    BY ShipmentsCountable, HeldParts
  <2>4. onHand[w][l] \in Nat /\ InitStock[w][l] \in Nat
    BY StockAssumptions DEF StockTyped, Balances
  <2>5. onHand'[w][l] = onHand[w][l] + Moved(P, "IN", w, l) - Moved(P, "OUT", w, l)
    BY <1>0 DEF After
  <2> QED BY <2>1, <2>2, <2>3, <2>4, <2>5 DEF ShippedFits
<1>2. \A k \in Slots : k # s => posting'[k] = posting[k]
  BY <1>0
<1>3. posting'[s] = P
  BY <1>0
<1>4. \A j \in Jobs : OutputSlot(j) \in Slots /\ OutputSlot(j) \notin AllOrderSlots
                        /\ OutputSlot(j)' = OutputSlot(j)
  <2> TAKE j \in Jobs
  <2>1. OutputSlot(j) \in Slots
    BY JobAssumptions DEF OutputSlot
  <2>2. OutputSlot(j) \in JobSlots(j)
    BY DEF JobSlots
  <2>3. OutputSlot(j) \notin AllOrderSlots
    BY <2>2, ProductionSlotsApart
  <2> QED BY <2>1, <2>3 DEF OutputSlot
<1> DEFINE Goal == \A w \in Warehouses, l \in Lots :
              onHand'[w][l] + Held(Shipments', w, l)
                <= InitStock[w][l] + Moved(Made', "IN", w, l)
<1> SUFFICES Goal
  BY DEF ShippedFits, Held, Moved, Units, QtyOf
<1>5. ASSUME s \notin AllOrderSlots PROVE Shipments' = Shipments
  <2>1. \A k \in AllOrderSlots : posting'[k] = posting[k]
    BY <1>2, <1>5, ProductionSlotsKnown DEF ProductionSlots
  <2> HIDE DEF s, P
  <2>2. AllOrderSlots' = AllOrderSlots
    BY DEF AllOrderSlots, OrderSlots, GeneralSlot, JobOutSlot
  <2> QED BY <2>1, <2>2 DEF Shipments
<1>6. ASSUME \A j \in Jobs : s # OutputSlot(j)
      PROVE  Made' = Made /\ \A w, l : Moved(P, "IN", w, l) = 0
  <2>1. \A j \in Jobs : posting'[OutputSlot(j)] = posting[OutputSlot(j)]
    BY <1>2, <1>4, <1>6
  <2>2. \A m \in P : m.way = "OUT"
    BY <1>0, <1>6 DEF Directed
  <2>3. \A w, l : Moved(P, "IN", w, l) = 0
    BY <2>2, NoneMoved
  <2>4. Made' = Made
    BY <1>4, <2>1 DEF Made
  <2> QED BY <2>3, <2>4
<1>7. CASE s \in AllOrderSlots
  <2> DEFINE T == {<<s, m>> : m \in P}
  <2>1. \A j \in Jobs : s # OutputSlot(j)
    BY <1>4, <1>7
  <2>2. \A m \in P : m.way = "OUT"
    BY <1>0, <2>1 DEF Directed
  <2>3. Shipments' = Shipments \cup T /\ Shipments \cap T = {}
    <3>1. AllOrderSlots' = AllOrderSlots
      BY DEF AllOrderSlots, OrderSlots, GeneralSlot, JobOutSlot
    <3>2. \A k \in AllOrderSlots : k # s => posting'[k] = posting[k]
      BY <1>2, ProductionSlotsKnown DEF ProductionSlots
    <3>3. P \subseteq Move
      BY <1>0 DEF Plans
    <3> HIDE DEF s, P
    <3>4. ASSUME NEW x \in AllOrderSlots \X Move
          PROVE  x[2] \in posting'[x[1]] <=> x[2] \in posting[x[1]] \/ x \in T
      <4>1. CASE x[1] = s
        <5>1. x = <<s, x[2]>>
          BY <4>1
        <5>2. x \in T <=> x[2] \in P
          BY <5>1
        <5> QED BY <1>0, <1>3, <4>1, <5>2 DEF s, P
      <4>2. CASE x[1] # s
        BY <3>2, <4>2
      <4> QED BY <4>1, <4>2
    <3>5. T \subseteq AllOrderSlots \X Move
      BY <1>7, <3>3
    <3>6. Shipments' = Shipments \cup T
      <4> HIDE DEF T
      <4> QED BY <3>1, <3>4, <3>5 DEF Shipments
    <3>7. Shipments \cap T = {}
      BY <1>0 DEF Shipments, s
    <3> QED BY <3>6, <3>7
  <2> HIDE DEF s, P
  <2>4. ASSUME NEW w \in Warehouses, NEW l \in Lots
        PROVE  onHand'[w][l] + Held(Shipments', w, l)
                 <= InitStock[w][l] + Moved(Made', "IN", w, l)
    <3>1. Countable(T) /\ Held(T, w, l) = Moved(P, "OUT", w, l)
      <4>1. P \in Plans
        BY <1>0 DEF P, s
      <4> QED BY <2>2, <4>1, HeldOfPlan
    <3> HIDE DEF T
    <3>2. Held(Shipments \cup T, w, l) = Held(Shipments, w, l) + Held(T, w, l)
      BY <2>3, <3>1, ShipmentsCountable, HeldJoin
    <3>3. Moved(P, "IN", w, l) = 0 /\ Made' = Made
      BY <1>6, <2>1
    <3>4. Held(Shipments', w, l) = Held(Shipments, w, l) + Moved(P, "OUT", w, l)
      BY <2>3, <3>1, <3>2
    <3> QED BY <1>1, <3>3, <3>4
  <2> QED BY <2>4
<1>8. CASE \E j \in Jobs : s = OutputSlot(j)
  <2>0. PICK j \in Jobs : s = OutputSlot(j)
    BY <1>8
  <2>1. Shipments' = Shipments
    BY <1>4, <1>5, <2>0
  <2>2. \A m \in P : m.lot = OutputLot(j)
    BY <1>0, <2>0 DEF Directed
  <2>3. Made' = Made \cup P
    <3>1. \A k \in Jobs : posting'[OutputSlot(k)]
                            = posting[OutputSlot(k)] \cup (IF k = j THEN P ELSE {})
      <4> TAKE k \in Jobs
      <4>1. k # j => OutputSlot(k) # s
        BY <2>0 DEF OutputSlot
      <4> QED BY <1>0, <1>2, <1>3, <1>4, <2>0, <4>1
    <3> HIDE DEF P, s
    <3> QED BY <1>4, <3>1 DEF Made
  <2>4. Made \cap P = {}
    <3> SUFFICES ASSUME NEW m \in Made, m \in P PROVE FALSE
      OBVIOUS
    <3>1. PICK k \in Jobs : m \in posting[OutputSlot(k)]
      BY DEF Made
    <3>2. m.lot = OutputLot(k)
      BY <1>4, <3>1 DEF OneWay, Directed
    <3>3. k = j
      BY <2>2, <3>2, JobsFinite
    <3> QED BY <1>0, <2>0, <3>1, <3>3
  <2> HIDE DEF s, P
  <2>5. ASSUME NEW w \in Warehouses, NEW l \in Lots
        PROVE  onHand'[w][l] + Held(Shipments', w, l)
                 <= InitStock[w][l] + Moved(Made', "IN", w, l)
    <3>1. P \in Plans
      BY <1>0 DEF P, s
    <3>2. Moved(Made \cup P, "IN", w, l) = Moved(Made, "IN", w, l) + Moved(P, "IN", w, l)
      BY <2>4, <3>1, MadeTyped, MovedJoin
    <3> QED BY <1>1, <2>1, <2>3, <3>2
  <2> QED BY <2>5
<1>9. CASE s \notin AllOrderSlots /\ \A j \in Jobs : s # OutputSlot(j)
  <2>1. Shipments' = Shipments /\ Made' = Made /\ \A w, l : Moved(P, "IN", w, l) = 0
    BY <1>5, <1>6, <1>9
  <2> HIDE DEF s, P
  <2>2. ASSUME NEW w \in Warehouses, NEW l \in Lots
        PROVE  onHand'[w][l] + Held(Shipments', w, l)
                 <= InitStock[w][l] + Moved(Made', "IN", w, l)
    <3>1. Moved(P, "IN", w, l) = 0
      BY <2>1
    <3> QED BY <1>1, <2>1, <3>1
  <2> QED BY <2>2
<1> QED BY <1>7, <1>8, <1>9

-----------------------------------------------------------------------------
(* Which way each posting goes.                                            *)

\* The postings a request has still to make go their ways.
Ordered(r) == Directed(r.slot, r.plan) /\ \A t \in r.rest : Directed(t.slot, t.plan)

\* Postings change by a commit only.
LEMMA PostingsAfter ==
    ASSUME ProductionLedger, [ProductionNext]_productionVars
    PROVE  posting' = posting \/ \E c \in Callers : Committing(c)
<1>1. ASSUME NEW S, LedgerStep(S)
      PROVE  posting' = posting \/ \E c \in Callers : Committing(c)
  BY <1>1 DEF LedgerStep, Passing, Still, Answering, Ending, Starting, Continuing
<1> QED BY <1>1, ProductionStepKinds, JobKindSteps

\* An order ships, a job consumes, and only completing it brings stock.
LEMMA PlansDirected ==
    /\ \A o : \A s \in OrderSlots(o) : \A st, linked : Directed(s, ShipPlan(o, st, linked))
    /\ \A j \in Jobs : Directed(ConsumeSlot(j), ConsumePlan(j))
    /\ \A j \in Jobs : \A q : Directed(OutputSlot(j), {OutputMove(j, q)})
    /\ Directed(NoSlot, {})
<1>1. ASSUME NEW o, NEW s \in OrderSlots(o), NEW st, NEW linked
      PROVE  Directed(s, ShipPlan(o, st, linked))
  <2>1. \A m \in ShipPlan(o, st, linked) : m.way = "OUT"
    BY DEF ShipPlan, ShipMove
  <2>2. \A j \in Jobs : s # OutputSlot(j)
    BY DEF OrderSlots, GeneralSlot, JobOutSlot, OutputSlot
  <2> QED BY <2>1, <2>2 DEF Directed
<1>2. ASSUME NEW j \in Jobs PROVE Directed(ConsumeSlot(j), ConsumePlan(j))
  <2>1. \A m \in ConsumePlan(j) : m.way = "OUT"
    <3> TAKE m \in ConsumePlan(j)
    <3>1. m = ConsumeMove(m.line, [wh |-> JobWarehouse(j), lot |-> m.lot, qty |-> m.qty])
      BY ConsumeFromWarehouse DEF FromWarehouse
    <3> QED BY <3>1 DEF ConsumeMove
  <2>2. \A k \in Jobs : ConsumeSlot(j) # OutputSlot(k)
    BY DEF ConsumeSlot, OutputSlot
  <2> QED BY <2>1, <2>2 DEF Directed
<1>3. ASSUME NEW j \in Jobs, NEW q PROVE Directed(OutputSlot(j), {OutputMove(j, q)})
  <2>1. \A m \in {OutputMove(j, q)} : m.way = "IN" /\ m.lot = OutputLot(j)
    BY DEF OutputMove
  <2>2. \A k \in Jobs : OutputSlot(j) = OutputSlot(k) => k = j
    BY DEF OutputSlot
  <2> QED BY <2>1, <2>2 DEF Directed
<1>4. Directed(NoSlot, {})
  BY DEF Directed
<1> QED BY <1>1, <1>2, <1>3, <1>4

\* Every step keeps the ways of the postings.
LEMMA OneWayKept ==
    ASSUME ProductionLedger, RestFollows, OneWay, [ProductionNext]_productionVars
    PROVE  OneWay'
<1>0. CallShape(ProductionSlots) /\ LedgerShape /\ \A c \in Callers : Ordered(call[c])
  BY DEF ProductionLedger, LedgerInv, OneWay, Ordered
<1>1. \A s \in Slots : Directed(s, posting'[s])
  <2>1. CASE posting' = posting
    BY <2>1 DEF OneWay
  <2>2. ASSUME NEW c \in Callers, Committing(c) PROVE \A s \in Slots : Directed(s, posting'[s])
    <3>1. posting' = [posting EXCEPT ![call[c].slot] = call[c].plan]
      BY <2>2 DEF Committing
    <3>2. \A s \in Slots : posting'[s] = posting[s]
                             \/ (s = call[c].slot /\ posting'[s] = call[c].plan)
      BY <1>0, <3>1 DEF LedgerShape
    <3> QED BY <3>2 DEF OneWay
  <2> QED BY <2>1, <2>2, PostingsAfter
<1>2. ASSUME \A c \in Callers : Ordered(call'[c]) PROVE OneWay'
  BY <1>1, <1>2 DEF OneWay, Ordered, Directed, OutputSlot, OutputLot
<1>3. ASSUME NEW k, SameRun(k) \/ call'[k] = Idle, Ordered(call[k]) PROVE Ordered(call'[k])
  <2>1. CASE SameRun(k)
    BY <1>3, <2>1 DEF SameRun, Ordered
  <2>2. CASE call'[k] = Idle
    BY <2>2, PlansDirected DEF Idle, Ordered
  <2> QED BY <1>3, <2>1, <2>2
<1>4. CASE Passing
  <2>1. \A c \in Callers : SameRun(c) \/ call'[c] = Idle
    BY <1>0, <1>4, PassingRuns
  <2> QED BY <1>0, <1>2, <1>3, <2>1
<1>5. ASSUME NEW c \in Callers, \A k \in Callers \ {c} : call'[k] = call[k],
             Ordered(call'[c])
      PROVE  OneWay'
  BY <1>0, <1>2, <1>5
<1>6. ASSUME NEW j \in Jobs, JobStep(j) PROVE OneWay'
  <2>1. ASSUME NEW c \in Callers, NEW s, NEW plan, NEW v, Prepared(c, s, plan, {}, v),
               Directed(s, plan)
        PROVE  OneWay'
    <3>1. /\ call'[c].slot = s /\ call'[c].plan = plan /\ call'[c].rest = {}
          /\ \A k \in Callers \ {c} : call'[k] = call[k]
      BY <1>0, <2>1, StartsWith
    <3> QED BY <1>5, <2>1, <3>1 DEF Ordered
  <2>2. ASSUME NEW c \in Callers, NEW u \in Users, StartJobPrepare(c, j, u) PROVE OneWay'
    BY <2>1, <2>2, PlansDirected DEF StartJobPrepare
  <2>3. ASSUME NEW c \in Callers, NEW u \in Users, NEW q, CompleteJobPrepare(c, j, u, q)
        PROVE  OneWay'
    BY <2>1, <2>3, PlansDirected DEF CompleteJobPrepare
  <2> QED BY <1>0, <1>4, <1>6, <2>2, <2>3, JobKinds
<1>7. ASSUME NEW o \in Orders, NEW c \in Callers, NEW u \in Users, FulfillPrepare(c, o, u)
      PROVE  OneWay'
  <2> DEFINE G == ShipPlan(o, "ACTIVE", FALSE)
             J == ShipPlan(o, "ACTIVE", TRUE)
  <2>1. /\ \A k \in Callers \ {c} : call'[k] = call[k]
        /\ \/ /\ call'[c].slot = GeneralSlot(o) /\ call'[c].plan = G
              /\ call'[c].rest = {} \/ call'[c].rest = {TaskFor(JobOutSlot(o), J)}
           \/ call'[c].slot = JobOutSlot(o) /\ call'[c].plan = J /\ call'[c].rest = {}
    BY <1>0, <1>7, FulfillRequest
  <2>2. Directed(GeneralSlot(o), G) /\ Directed(JobOutSlot(o), J)
    BY PlansDirected DEF OrderSlots
  <2>3. TaskFor(JobOutSlot(o), J).slot = JobOutSlot(o) /\ TaskFor(JobOutSlot(o), J).plan = J
    BY DEF TaskFor
  <2> HIDE DEF G, J
  <2>4. Ordered(call'[c])
    BY <2>1, <2>2, <2>3 DEF Ordered
  <2> QED BY <1>5, <2>1, <2>4
<1>8. ASSUME NEW c \in Callers, FulfillContinue(c) PROVE OneWay'
  <2>1. PICK t \in call[c].rest :
             /\ \A k \in Callers \ {c} : call'[k] = call[k]
             /\ call'[c].slot = t.slot /\ call'[c].plan = t.plan /\ call'[c].rest = {}
    BY <1>0, <1>8, ContinuedRequest
  <2>2. Directed(t.slot, t.plan)
    BY <1>0, <2>1 DEF Ordered
  <2>3. Ordered(call'[c])
    BY <2>1, <2>2 DEF Ordered
  <2> QED BY <1>5, <2>1, <2>3
<1>9. CASE PostingNext \/ \E c \in Callers : FulfillCompensate(c)
  <2>1. PostingNext \/ \E c \in Callers : Compensate(c) BY <1>9 DEF FulfillCompensate
  <2> QED BY <1>0, <1>4, <2>1, PostingSteps
<1>10. CASE BomNext BY <1>4, <1>10, BomSteps DEF Passing
<1>11. CASE OrderNext
  BY <1>4, <1>7, <1>8, <1>11, OrderKinds DEF OrderNext
<1>12. CASE UNCHANGED productionVars
  BY <1>4, <1>12 DEF productionVars, stockVars, Passing, Still
<1> QED BY <1>6, <1>9, <1>10, <1>11, <1>12 DEF ProductionNext, JobNext

-----------------------------------------------------------------------------
(* The balances follow the postings.                                       *)

\* Balances and postings change by a commit only.
LEMMA BalancesAfter ==
    ASSUME [ProductionNext]_productionVars
    PROVE  (onHand' = onHand /\ posting' = posting) \/ \E c \in Callers : Commit(c)
<1> DEFINE Same == onHand' = onHand /\ posting' = posting
<1>1. CASE PostingNext
  BY <1>1 DEF PostingNext, Post, PostLost, PostReplay, PostRefused, Crash, NextDay
<1>2. ASSUME NEW c \in Callers, FulfillCompensate(c) PROVE Same
  BY <1>2 DEF FulfillCompensate, Compensate
<1>3. ASSUME BomNext PROVE Same
  BY <1>3 DEF BomNext, BomStep, CreateBomHeader, CreateDraftVersion, ReplaceDraftComponents,
     ActivateVersion, RetireVersion, stockVars
<1>4. ASSUME NEW j \in Jobs, JobStep(j) PROVE Same
  BY <1>4 DEF JobStep, JobDesk, CreateJobOrderDraft, SubmitJobOrder, ApproveJobOrder,
     ReleaseJobOrder, CancelJobOrder, FailJobOrder, StartJobPrepare, CompleteJobPrepare,
     StartJobFinalize, CompleteJobFinalize, stockVars
<1>5. ASSUME NEW o \in Orders, OrderStep(o) PROVE Same
  <2>1. ASSUME NEW u \in Users, OrderDesk(o, u) \/ AllocateCustomerOrder(o, u)
                 \/ MarkCustomerOrderInProduction(o, u) \/ MarkCustomerOrderReady(o, u)
                 \/ CancelCustomerOrder(o, u)
        PROVE  Same
    BY <2>1 DEF OrderDesk, CreateCustomerOrderDraft, UpdateCustomerOrderDraft,
       SubmitCustomerOrder, ApproveCustomerOrder, AllocateCustomerOrder,
       MarkCustomerOrderInProduction, MarkCustomerOrderReady, CancelCustomerOrder, stockVars
  <2>2. ASSUME NEW c \in Callers, NEW u \in Users, FulfillPrepare(c, o, u) PROVE Same
    BY <2>2 DEF FulfillPrepare
  <2>3. ASSUME NEW c \in Callers, FulfillFinalize(c, o) PROVE Same
    BY <2>3 DEF FulfillFinalize
  <2> QED BY <1>5, <2>1, <2>2, <2>3 DEF OrderStep
<1>6. ASSUME NEW c \in Callers, FulfillContinue(c) PROVE Same
  BY <1>6 DEF FulfillContinue
<1>7. ASSUME UNCHANGED productionVars PROVE Same
  BY <1>7 DEF productionVars, stockVars
<1> HIDE DEF Same
<1>8. Same \/ \E c \in Callers : Commit(c)
  BY <1>1, <1>2, <1>3, <1>4, <1>5, <1>6, <1>7 DEF ProductionNext, JobNext, OrderNext, Same
<1> QED BY <1>8 DEF Same

\* Every step keeps what is on hand and what was shipped within what there was.
LEMMA ShippedFitsKept ==
    ASSUME ProductionLedger, StockTyped, OneWay, ShippedFits, [ProductionNext]_productionVars
    PROVE  ShippedFits'
<1>1. CASE onHand' = onHand /\ posting' = posting
  <2>1. AllOrderSlots' = AllOrderSlots
    BY DEF AllOrderSlots, OrderSlots, GeneralSlot, JobOutSlot
  <2>2. Shipments' = Shipments
    BY <1>1, <2>1 DEF Shipments
  <2>3. Made' = Made
    BY <1>1 DEF Made, OutputSlot
  <2>4. \A w \in Warehouses, l \in Lots :
           onHand'[w][l] + Held(Shipments', w, l) <= InitStock[w][l] + Moved(Made', "IN", w, l)
    BY <1>1, <2>2, <2>3 DEF ShippedFits
  <2> QED BY <2>4 DEF ShippedFits, Held, Moved, Units, QtyOf
<1>2. ASSUME NEW c \in Callers, Commit(c) PROVE ShippedFits'
  <2>1. call[c].phase # "idle"
    BY <1>2 DEF Commit
  <2>2. call[c].slot \in ProductionSlots /\ LedgerShape
    BY <2>1 DEF ProductionLedger, LedgerInv, CallShape
  <2> QED BY <1>2, <2>2, CommitFits
<1> QED BY <1>1, <1>2, BalancesAfter

-----------------------------------------------------------------------------
(* What the standing orders hold and have shipped.                         *)

Standing == {x \in Orders \X Move : oStatus[x[1]] # "CANCELLED" /\ x[2] \in Claims(x[1])}

\* A claim is a shipped movement or an ACTIVE row, each of its own order.
LEMMA ClaimsCovered ==
    ASSUME NEW C, NEW S, NEW R, Countable(S), Countable(R),
           \A x \in C : /\ x = <<x[1], x[2]>>
                        /\ \/ \E s \in OrderSlots(x[1]) : <<s, x[2]>> \in S
                           \/ \E r : <<x[1], r>> \in R /\ ShipMove(r) = x[2],
           \A x \in C : x[1] \in Orders,
           NEW w, NEW l
    PROVE  Countable(C) /\ Held(C, w, l) <= Held(S, w, l) + Held(R, w, l)
<1> DEFINE A == {x \in C : \E s \in OrderSlots(x[1]) : <<s, x[2]>> \in S}
           B == C \ A
           slot(x) == CHOOSE s \in OrderSlots(x[1]) : <<s, x[2]>> \in S
           row(x) == CHOOSE r : <<x[1], r>> \in R /\ ShipMove(r) = x[2]
           p == [x \in A |-> <<slot(x), x[2]>>]
           q == [x \in B |-> <<x[1], row(x)>>]
<1>1. \A x \in A : slot(x) \in OrderSlots(x[1]) /\ <<slot(x), x[2]>> \in S
  OBVIOUS
<1>2. \A x \in B : <<x[1], row(x)>> \in R /\ ShipMove(row(x)) = x[2]
  OBVIOUS
<1>3. A \subseteq C /\ B \subseteq C /\ C = A \cup B
  OBVIOUS
<1>4. \A x \in A : p[x] = <<slot(x), x[2]>>
  OBVIOUS
<1>5. \A x \in B : q[x] = <<x[1], row(x)>>
  OBVIOUS
<1> HIDE DEF slot, row, A, B
<1>6. p = [x \in A |-> p[x]] /\ q = [x \in B |-> q[x]]
  OBVIOUS
<1> HIDE DEF slot, row, p, q, A, B
<1>7. \A x \in A : p[x] \in S /\ p[x][2] = x[2]
  BY <1>1, <1>4
<1>8. \A x, y \in A : p[x] = p[y] => x = y
  <2> TAKE x, y \in A
  <2> HAVE p[x] = p[y]
  <2>1. slot(x) = slot(y) /\ x[2] = y[2]
    BY <1>4
  <2>2. x[1] \in Orders /\ y[1] \in Orders /\ x = <<x[1], x[2]>> /\ y = <<y[1], y[2]>>
    BY <1>3
  <2>3. x[1] = y[1]
    BY <1>1, <2>1, <2>2, OrderSlotsApart
  <2> QED BY <2>1, <2>2, <2>3
<1>9. \A x \in B : /\ q[x] \in R /\ q[x][2].wh = x[2].wh /\ q[x][2].lot = x[2].lot
                   /\ q[x][2].qty = x[2].qty
  <2> TAKE x \in B
  <2>1. q[x][2] = row(x) /\ q[x] \in R
    BY <1>2, <1>5
  <2>2. ShipMove(row(x)).wh = row(x).wh /\ ShipMove(row(x)).lot = row(x).lot
          /\ ShipMove(row(x)).qty = row(x).qty
    BY DEF ShipMove
  <2> QED BY <1>2, <2>1, <2>2
<1>10. \A x, y \in B : q[x] = q[y] => x = y
  <2> TAKE x, y \in B
  <2> HAVE q[x] = q[y]
  <2>1. row(x) = row(y) /\ x[1] = y[1]
    BY <1>5
  <2>2. x[2] = y[2]
    <3>1. ShipMove(row(x)) = x[2] /\ ShipMove(row(y)) = y[2]
      BY <1>2
    <3>2. ShipMove(row(x)) = ShipMove(row(y))
      BY <2>1
    <3> QED BY <3>1, <3>2
  <2> QED BY <1>3, <2>1, <2>2
<1>11. Countable(A) /\ Held(A, w, l) <= Held(S, w, l)
  BY <1>6, <1>7, <1>8, HeldCovered
<1>12. Countable(B) /\ Held(B, w, l) <= Held(R, w, l)
  BY <1>6, <1>9, <1>10, HeldCovered
<1>13. Countable(C) /\ Held(C, w, l) <= Held(A, w, l) + Held(B, w, l)
  BY <1>3, <1>11, <1>12, CountableParts, HeldJoin
<1>14. /\ Held(A, w, l) \in Nat /\ Held(B, w, l) \in Nat /\ Held(C, w, l) \in Nat
       /\ Held(S, w, l) \in Nat /\ Held(R, w, l) \in Nat
  BY <1>11, <1>12, <1>13, HeldParts
<1> QED BY <1>11, <1>12, <1>13, <1>14

\* A claim is of a posting of its order, or of a row of it that is ACTIVE.
LEMMA ClaimIs ==
    ASSUME NEW o, NEW m
    PROVE  m \in Claims(o) <=>
             \/ m \in posting[GeneralSlot(o)] \/ m \in posting[JobOutSlot(o)]
             \/ \E r \in oAlloc[o] : r.status = "ACTIVE" /\ m = ShipMove(r)
BY DEF Claims

\* What is known of the claims in every state.
ClaimFacts ==
    /\ Countable(Standing) /\ Countable(Shipments) /\ Countable(ActiveRows) /\ Made \in Plans
    /\ \A w \in Warehouses, l \in Lots :
         Held(Standing, w, l) <= Held(Shipments, w, l) + Held(ActiveRows, w, l)

\* These facts follow from the types.
LEMMA ClaimsKnown == ASSUME StockTyped, OrderTyped PROVE ClaimFacts
<1>1. Countable(ActiveRows)
  BY ActiveRowsFinite DEF Countable
<1>2. \A x \in Standing : /\ x = <<x[1], x[2]>> /\ x[1] \in Orders
                          /\ \/ \E s \in OrderSlots(x[1]) : <<s, x[2]>> \in Shipments
                             \/ \E r : <<x[1], r>> \in ActiveRows /\ ShipMove(r) = x[2]
  <2> TAKE x \in Standing
  <2>1. x = <<x[1], x[2]>> /\ x[1] \in Orders /\ x[2] \in Move /\ x[2] \in Claims(x[1])
    BY DEF Standing
  <2>2. ASSUME NEW s \in OrderSlots(x[1]), x[2] \in posting[s] PROVE <<s, x[2]>> \in Shipments
    <3>1. s \in AllOrderSlots
      BY <2>1, OrderSlotsApart
    <3> QED BY <2>1, <2>2, <3>1 DEF Shipments
  <2>3. ASSUME NEW r \in oAlloc[x[1]], r.status = "ACTIVE" PROVE <<x[1], r>> \in ActiveRows
    BY <2>1, <2>3 DEF ActiveRows
  <2> QED BY <2>1, <2>2, <2>3, ClaimIs DEF OrderSlots
<1>3. Countable(Standing)
        /\ \A w, l : Held(Standing, w, l) <= Held(Shipments, w, l) + Held(ActiveRows, w, l)
  BY <1>1, <1>2, ShipmentsCountable, ClaimsCovered
<1> QED BY <1>1, <1>3, ShipmentsCountable, MadeTyped DEF ClaimFacts

-----------------------------------------------------------------------------
(* How a step changes the claims.                                          *)

Allocates(o) == \E u \in Users : AllocateCustomerOrder(o, u) \/ MarkCustomerOrderReady(o, u)

\* What the order claims after a step, and that it still stands.
StandsAfter(o) == oStatus'[o] # "CANCELLED"
ClaimsAfter(o) ==
    {m \in Move : \/ m \in posting'[GeneralSlot(o)] \/ m \in posting'[JobOutSlot(o)]
                  \/ \E r \in oAlloc'[o] : r.status = "ACTIVE" /\ m = ShipMove(r)}

\* With its rows as they were and at most a plan of its own posted, an order
\* claims what it did: the plan is of its rows.
LEMMA PostedIsClaimed ==
    ASSUME NEW o \in Orders, OrderInv(o), oStatus[o] # "CANCELLED", NEW s \in OrderSlots(o),
           posting'[s] = posting[s] \/ PostedMeanwhile(s), NEW m \in posting'[s]
    PROVE  m \in Claims(o)
<1>1. CASE posting'[s] = posting[s]
  BY <1>1, ClaimIs DEF OrderSlots
<1>2. CASE PostedMeanwhile(s)
  <2>1. PICK c \in Callers : call[c].slot = s /\ posting'[s] = call[c].plan
    BY <1>2 DEF PostedMeanwhile
  <2>2. posting[s] = {} /\ call[c].plan # {}
    BY <1>2, <2>1 DEF PostedMeanwhile
  <2>3. OrderEarly(o) /\ OrderReady(o) /\ OrderFulfilled(o)
    BY DEF OrderInv
  <2>4. CASE oStatus[o] \notin {"READY", "FULFILLED", "CANCELLED"}
    BY <2>1, <2>3, <2>4 DEF OrderEarly, Untouched, OrderSlots
  <2>5. CASE oStatus[o] = "READY"
    <3>1. RunFits(c, o, "ACTIVE")
      BY <2>3, <2>5 DEF OrderReady, RunsFit
    <3>2. \E linked \in BOOLEAN : call[c].plan = ShipPlan(o, "ACTIVE", linked)
      BY <2>1, <3>1 DEF RunFits, OrderSlots
    <3>3. PICK linked \in BOOLEAN : m \in ShipPlan(o, "ACTIVE", linked)
      BY <2>1, <3>2
    <3>4. PICK r \in oAlloc[o] : r.status = "ACTIVE" /\ m = ShipMove(r)
      BY <3>3 DEF ShipPlan
    <3> QED BY <3>4, ClaimIs
  <2>6. CASE oStatus[o] = "FULFILLED"
    <3>1. /\ RunFits(c, o, "CONSUMED")
          /\ posting[GeneralSlot(o)] = ShipPlan(o, "CONSUMED", FALSE)
          /\ posting[JobOutSlot(o)] = ShipPlan(o, "CONSUMED", TRUE)
      BY <2>3, <2>6 DEF OrderFulfilled, RunsFit
    <3>2. posting[s] = call[c].plan
      BY <2>1, <3>1, OrderSlotsApart DEF RunFits, OrderSlots
    <3> QED BY <2>2, <3>2
  <2> QED BY <2>4, <2>5, <2>6
<1> QED BY <1>1, <1>2

\* Only an allocation adds to what an order claims.
LEMMA ClaimsShrink ==
    ASSUME ProductionInv, [ProductionNext]_productionVars, NEW o \in Orders, ~Allocates(o),
           StandsAfter(o)
    PROVE  oStatus[o] # "CANCELLED" /\ ClaimsAfter(o) \subseteq Claims(o)
<1>0. /\ ProductionLedger /\ RestFollows /\ OrderTyped /\ OrderInv(o)
      /\ GeneralSlot(o) \in OrderSlots(o) /\ JobOutSlot(o) \in OrderSlots(o)
  BY DEF ProductionInv, ProductionTyped, OrderHistory, OrderSlots
<1>1. /\ DOMAIN oStatus = Orders /\ DOMAIN oAlloc = Orders /\ oAlloc[o] \subseteq Allocation
  BY <1>0 DEF OrderTyped, OrderTypeOK
<1>2. ASSUME oStatus[o] # "CANCELLED",
             \A s \in OrderSlots(o) : posting'[s] = posting[s] \/ PostedMeanwhile(s),
             \A r \in oAlloc'[o] : r.status = "ACTIVE" => r \in oAlloc[o]
      PROVE  oStatus[o] # "CANCELLED" /\ ClaimsAfter(o) \subseteq Claims(o)
  <2>1. ASSUME NEW m \in ClaimsAfter(o) PROVE m \in Claims(o)
    <3>1. ASSUME NEW s \in OrderSlots(o), m \in posting'[s] PROVE m \in Claims(o)
      BY <1>0, <1>2, <3>1, PostedIsClaimed
    <3>2. ASSUME NEW r \in oAlloc'[o], r.status = "ACTIVE", m = ShipMove(r)
          PROVE  m \in Claims(o)
      <4>1. r \in oAlloc[o]
        BY <1>2, <3>2
      <4> QED BY <3>2, <4>1, ClaimIs
    <3> QED BY <1>0, <3>1, <3>2 DEF ClaimsAfter
  <2> QED BY <1>2, <2>1
<1>3. CASE SameOrder(o) /\ Undisturbed(OrderSlots(o))
  BY <1>2, <1>3 DEF SameOrder, Undisturbed, StandsAfter
<1>4. ASSUME NEW c \in Callers, FulfillContinue(c)
      PROVE  oStatus[o] # "CANCELLED" /\ ClaimsAfter(o) \subseteq Claims(o)
  BY <1>2, <1>4 DEF FulfillContinue, orderVars, StandsAfter
<1>5. CASE OrderStep(o)
  <2>1. ASSUME NEW u \in Users, OrderDesk(o, u) \/ MarkCustomerOrderInProduction(o, u)
        PROVE  oStatus[o] # "CANCELLED" /\ ClaimsAfter(o) \subseteq Claims(o)
    <3>1. posting' = posting /\ oAlloc' = oAlloc /\ oStatus[o] # "CANCELLED"
      BY <2>1 DEF OrderDesk, CreateCustomerOrderDraft, UpdateCustomerOrderDraft,
         SubmitCustomerOrder, ApproveCustomerOrder, MarkCustomerOrderInProduction,
         OrderAdvances, stockVars
    <3> QED BY <1>2, <3>1
  <2>2. ASSUME NEW u \in Users, CancelCustomerOrder(o, u) PROVE FALSE
    BY <1>1, <2>2 DEF CancelCustomerOrder, OrderAdvances, StandsAfter
  <2>3. ASSUME NEW c \in Callers, NEW u \in Users, FulfillPrepare(c, o, u)
        PROVE  oStatus[o] # "CANCELLED" /\ ClaimsAfter(o) \subseteq Claims(o)
    <3>1. posting' = posting /\ oAlloc' = oAlloc /\ oStatus[o] # "CANCELLED"
      BY <2>3 DEF FulfillPrepare, orderVars
    <3> QED BY <1>2, <3>1
  <2>4. ASSUME NEW c \in Callers, FulfillFinalize(c, o)
        PROVE  oStatus[o] # "CANCELLED" /\ ClaimsAfter(o) \subseteq Claims(o)
    <3>1. CASE UNCHANGED <<oStatus, oVersion, oAlloc, oShipped>>
      BY <1>2, <2>4, <3>1 DEF FulfillFinalize, StandsAfter
    <3>2. CASE /\ oStatus[o] = "READY"
               /\ oAlloc' = [oAlloc EXCEPT ![o] =
                    {IF r \in Consumed(o, c) THEN [r EXCEPT !.status = "CONSUMED"] ELSE r : r \in @}]
      <4>1. oAlloc'[o] = {IF r \in Consumed(o, c) THEN [r EXCEPT !.status = "CONSUMED"] ELSE r :
                            r \in oAlloc[o]}
        BY <1>1, <3>2
      <4>2. \A r \in oAlloc[o] : [r EXCEPT !.status = "CONSUMED"].status = "CONSUMED"
        BY <1>1 DEF Allocation
      <4>3. \A r \in oAlloc'[o] : r.status = "ACTIVE" => r \in oAlloc[o]
        BY <4>1, <4>2
      <4> QED BY <1>2, <2>4, <3>2, <4>3 DEF FulfillFinalize
    <3> QED BY <2>4, <3>1, <3>2 DEF FulfillFinalize
  <2> QED BY <1>5, <2>1, <2>2, <2>3, <2>4 DEF OrderStep, Allocates
<1> QED BY <1>0, <1>3, <1>4, <1>5, OrderFrame

\* An allocation adds the rows it takes, and moves nothing.
LEMMA ClaimsGrow ==
    ASSUME ProductionInv, NEW o \in Orders, Allocates(o)
    PROVE  /\ OrderStep(o) /\ oStatus[o] # "CANCELLED" /\ oStatus'[o] # oStatus[o]
           /\ onHand' = onHand
           /\ \E wanted :
                LET new == AllocateAll(o, wanted).rows IN
                /\ \A r \in new : r.status = "ACTIVE"
                /\ oAlloc' = [oAlloc EXCEPT ![o] = @ \cup new]
                /\ ClaimsAfter(o) \subseteq Claims(o) \cup {ShipMove(r) : r \in new}
<1>0. StockTyped /\ OrderTyped
  BY DEF ProductionInv, ProductionTyped
<1>1. DOMAIN oStatus = Orders /\ DOMAIN oAlloc = Orders
  BY <1>0 DEF OrderTyped, OrderTypeOK
<1>2. PICK u \in Users : AllocateCustomerOrder(o, u) \/ MarkCustomerOrderReady(o, u)
  BY DEF Allocates
<1>3. OrderStep(o)
  BY <1>2 DEF OrderStep
<1>4. /\ oStatus[o] # "CANCELLED" /\ oStatus'[o] # oStatus[o]
      /\ onHand' = onHand /\ posting' = posting
  BY <1>1, <1>2 DEF AllocateCustomerOrder, MarkCustomerOrderReady, OrderAdvances, stockVars
<1>5. \E wanted : oAlloc' = [oAlloc EXCEPT ![o] = @ \cup AllocateAll(o, wanted).rows]
  BY <1>2 DEF AllocateCustomerOrder, MarkCustomerOrderReady
<1>6. PICK wanted : oAlloc' = [oAlloc EXCEPT ![o] = @ \cup AllocateAll(o, wanted).rows]
  BY <1>5
<1> DEFINE new == AllocateAll(o, wanted).rows
<1>7. \A r \in new : r.status = "ACTIVE"
  <2>1. new \in NewRows
    BY <1>0, AllocateAllTyped DEF AllocResult
  <2> QED BY <2>1 DEF NewRows
<1>8. oAlloc'[o] = oAlloc[o] \cup new
  BY <1>1, <1>6
<1> HIDE DEF new
<1>9. ClaimsAfter(o) \subseteq Claims(o) \cup {ShipMove(r) : r \in new}
  <2>1. ASSUME NEW m \in ClaimsAfter(o), m \notin Claims(o)
        PROVE  \E r \in new : m = ShipMove(r)
    BY <1>4, <1>8, <2>1, ClaimIs DEF ClaimsAfter
  <2> QED BY <2>1
<1> QED BY <1>3, <1>4, <1>6, <1>7, <1>9 DEF new

\* What was made is made for good.
LEMMA MadeGrows ==
    ASSUME ProductionLedger, [ProductionNext]_productionVars, Made \in Plans, Made' \in Plans,
           NEW w, NEW l
    PROVE  /\ Moved(Made, "IN", w, l) \in Nat /\ Moved(Made', "IN", w, l) \in Nat
           /\ Moved(Made, "IN", w, l) <= Moved(Made', "IN", w, l)
<1>1. \A j \in Jobs : posting[OutputSlot(j)] \subseteq posting'[OutputSlot(j)]
  <2>1. CASE posting' = posting
    BY <2>1
  <2>2. ASSUME NEW c \in Callers, Committing(c), NEW j \in Jobs
        PROVE  posting[OutputSlot(j)] \subseteq posting'[OutputSlot(j)]
    BY <2>2 DEF Committing, ProductionLedger, LedgerInv, LedgerShape
  <2> QED BY <2>1, <2>2, PostingsAfter
<1>2. Made \subseteq Made'
  BY <1>1 DEF Made, OutputSlot
<1> DEFINE A == Made
           B == Made'
           new == B \ A
<1>3. A \in Plans /\ B \in Plans /\ new \in Plans
  BY FS_Subset DEF Plans
<1>4. B = A \cup new /\ A \cap new = {}
  BY <1>2
<1> HIDE DEF A, B, new
<1>5. Moved(B, "IN", w, l) = Moved(A, "IN", w, l) + Moved(new, "IN", w, l)
  BY <1>3, <1>4, MovedJoin
<1>6. Moved(A, "IN", w, l) \in Nat /\ Moved(B, "IN", w, l) \in Nat
        /\ Moved(new, "IN", w, l) \in Nat
  BY <1>3, MovedNat
<1>7. Moved(A, "IN", w, l) <= Moved(B, "IN", w, l)
  BY <1>5, <1>6
<1> QED BY <1>6, <1>7 DEF A, B

\* What the orders that stand claim is within what there was and was made.
Promised ==
    \A w \in Warehouses, l \in Lots :
        Held(Standing, w, l) <= InitStock[w][l] + Moved(Made, "IN", w, l)

\* The claims after a step.
LEMMA StandingAfter ==
    \A x : x \in Standing' <=> /\ x \in Orders \X Move
                               /\ StandsAfter(x[1]) /\ x[2] \in ClaimsAfter(x[1])
<1>1. ASSUME NEW x \in Orders \X Move PROVE x[2] \in Claims(x[1])' <=> x[2] \in ClaimsAfter(x[1])
  <2>1. x[2] \in Move
    OBVIOUS
  <2>2. x[2] \in Claims(x[1])' <=>
             \/ x[2] \in posting'[GeneralSlot(x[1])] \/ x[2] \in posting'[JobOutSlot(x[1])]
             \/ \E r \in oAlloc'[x[1]] : r.status = "ACTIVE" /\ x[2] = ShipMove(r)
    BY DEF Claims, GeneralSlot, JobOutSlot, ShipMove
  <2> QED BY <2>1, <2>2 DEF ClaimsAfter
<1> QED BY <1>1 DEF Standing, StandsAfter

\* Every step keeps it: what an allocation adds is free, and no other step
\* adds a claim.
LEMMA PromisedKept ==
    ASSUME ProductionInv, [ProductionNext]_productionVars, ShippedFits', ClaimFacts, ClaimFacts',
           Promised
    PROVE  Promised'
<1> DEFINE S == Standing
           T == Standing'
           D == Shipments'
           R == ActiveRows'
           Goal(w, l) == Held(T, w, l) <= InitStock[w][l] + Moved(Made', "IN", w, l)
<1>0. /\ ProductionLedger /\ StockTyped /\ OrderTyped
      /\ \A o \in Orders : OrderInv(o)
  BY DEF ProductionInv, ProductionTyped, OrderHistory
<1>1. /\ Countable(S) /\ Countable(T) /\ Countable(D) /\ Countable(R)
      /\ Made \in Plans /\ Made' \in Plans
      /\ \A w \in Warehouses, l \in Lots : Held(T, w, l) <= Held(D, w, l) + Held(R, w, l)
  BY DEF ClaimFacts, Countable, Held, Units, Plans
<1>2. \A w \in Warehouses, l \in Lots :
         /\ Held(S, w, l) <= InitStock[w][l] + Moved(Made, "IN", w, l)
         /\ onHand'[w][l] + Held(D, w, l) <= InitStock[w][l] + Moved(Made', "IN", w, l)
  BY DEF Promised, ShippedFits, Held, Units, Moved, QtyOf
<1>3. SUFFICES \A w \in Warehouses, l \in Lots : Goal(w, l)
  BY DEF Promised, Held, Units, Moved, QtyOf
<1>4. \A x : x \in S <=> /\ x \in Orders \X Move
                         /\ oStatus[x[1]] # "CANCELLED" /\ x[2] \in Claims(x[1])
  BY DEF Standing
<1>5. \A x : x \in T <=> /\ x \in Orders \X Move
                         /\ StandsAfter(x[1]) /\ x[2] \in ClaimsAfter(x[1])
  BY StandingAfter
<1> HIDE DEF S, T, D, R
\* Nothing more is claimed of this balance.
<1>6. ASSUME NEW w \in Warehouses, NEW l \in Lots,
             \A x \in T : x[2].wh = w /\ x[2].lot = l => x \in S
      PROVE  Goal(w, l)
  <2> DEFINE here == {x \in T : x[2].wh = w /\ x[2].lot = l}
  <2>1. here \in SUBSET S
    BY <1>6
  <2>2. Held(here, w, l) = Held(T, w, l)
    <3>1. {x \in here : x[2].wh = w /\ x[2].lot = l} = here
      OBVIOUS
    <3>2. Held(here, w, l) = Units({x \in here : x[2].wh = w /\ x[2].lot = l})
      BY DEF Held
    <3>3. Held(T, w, l) = Units(here)
      BY DEF Held
    <3> QED BY <3>1, <3>2, <3>3
  <2> HIDE DEF here
  <2>3. Held(S, w, l) \in Nat /\ Held(here, w, l) \in Nat /\ Held(here, w, l) <= Held(S, w, l)
    BY <1>1, <2>1, HeldParts
  <2>4. /\ Moved(Made, "IN", w, l) \in Nat /\ Moved(Made', "IN", w, l) \in Nat
        /\ Moved(Made, "IN", w, l) <= Moved(Made', "IN", w, l)
    BY <1>0, <1>1, MadeGrows
  <2>5. InitStock[w][l] \in Nat
    BY StockAssumptions
  <2>6. Held(S, w, l) <= InitStock[w][l] + Moved(Made, "IN", w, l)
    BY <1>2
  <2> QED BY <2>2, <2>3, <2>4, <2>5, <2>6
<1>7. CASE \A o \in Orders : ~Allocates(o)
  <2>1. ASSUME NEW x \in T PROVE x \in S
    <3>1. x \in Orders \X Move /\ StandsAfter(x[1]) /\ x[2] \in ClaimsAfter(x[1])
      BY <1>5
    <3>2. x[1] \in Orders
      BY <3>1
    <3>3. oStatus[x[1]] # "CANCELLED" /\ ClaimsAfter(x[1]) \subseteq Claims(x[1])
      BY <1>7, <3>1, <3>2, ClaimsShrink
    <3> QED BY <1>4, <3>1, <3>3
  <2> QED BY <1>6, <2>1
<1>8. ASSUME NEW a \in Orders, Allocates(a)
      PROVE  \A w \in Warehouses, l \in Lots : Goal(w, l)
  <2>0. /\ OrderStep(a) /\ oStatus[a] # "CANCELLED" /\ oStatus'[a] # oStatus[a]
        /\ onHand' = onHand
    BY <1>8, ClaimsGrow
  <2>1. PICK wanted :
          LET new == AllocateAll(a, wanted).rows IN
          /\ \A r \in new : r.status = "ACTIVE"
          /\ oAlloc' = [oAlloc EXCEPT ![a] = @ \cup new]
          /\ ClaimsAfter(a) \subseteq Claims(a) \cup {ShipMove(r) : r \in new}
    BY <1>8, ClaimsGrow
  <2> DEFINE new == AllocateAll(a, wanted).rows
             all == ActiveRows \cup TagRows(a, new)
  <2>2. /\ \A r \in new : r.status = "ACTIVE"
        /\ oAlloc' = [oAlloc EXCEPT ![a] = @ \cup new]
        /\ ClaimsAfter(a) \subseteq Claims(a) \cup {ShipMove(r) : r \in new}
    BY <2>1
  <2>3. Within(a, new)
    BY <1>0, AllocatedWithin
  <2>4. new \in AllocRows
    BY <1>0, AllocateAllTyped DEF AllocResult, NewRows
  <2>5. Countable(all)
    BY <1>0, <2>4, RowsWith DEF Countable, TagRows
  <2> HIDE DEF new
  <2>6. R \subseteq all
    <3>1. DOMAIN oAlloc = Orders
      BY <1>0 DEF OrderTyped, OrderTypeOK
    <3>2. \A o \in Orders : oAlloc'[o] = IF o = a THEN oAlloc[a] \cup new ELSE oAlloc[o]
      BY <2>2, <3>1
    <3>3. ASSUME NEW x \in R PROVE x \in all
      <4>1. PICK o \in Orders : x \in {<<o, r>> : r \in {y \in oAlloc'[o] : y.status = "ACTIVE"}}
        BY DEF ActiveRows, R
      <4>2. PICK r \in oAlloc'[o] : x = <<o, r>> /\ r.status = "ACTIVE"
        BY <4>1
      <4>3. CASE r \in oAlloc[o]
        BY <4>2, <4>3 DEF ActiveRows
      <4>4. CASE r \notin oAlloc[o]
        <5>1. o = a /\ r \in new
          BY <3>2, <4>2, <4>4
        <5> QED BY <4>2, <5>1 DEF TagRows
      <4> QED BY <4>3, <4>4
    <3> QED BY <3>3
  <2>7. \A o \in Orders : o # a => ~Allocates(o)
    <3> SUFFICES ASSUME NEW o \in Orders, o # a, Allocates(o) PROVE FALSE
      OBVIOUS
    <3>1. oStatus'[o] # oStatus[o]
      BY ClaimsGrow
    <3>2. SameOrder(o)
      BY <1>0, <2>0, OtherOrders
    <3> QED BY <3>1, <3>2 DEF SameOrder
  <2>8. ASSUME NEW x \in T PROVE x \in S \/ x \in {<<a, ShipMove(r)>> : r \in new}
    <3>1. x \in Orders \X Move /\ StandsAfter(x[1]) /\ x[2] \in ClaimsAfter(x[1])
      BY <1>5
    <3>2. x[1] \in Orders /\ x = <<x[1], x[2]>>
      BY <3>1
    <3>3. CASE x[1] # a
      <4>1. oStatus[x[1]] # "CANCELLED" /\ ClaimsAfter(x[1]) \subseteq Claims(x[1])
        BY <2>7, <3>1, <3>2, <3>3, ClaimsShrink
      <4> QED BY <1>4, <3>1, <4>1
    <3>4. CASE x[1] = a
      <4>1. CASE x[2] \in Claims(a)
        BY <1>4, <2>0, <3>1, <3>4, <4>1
      <4>2. CASE x[2] \notin Claims(a)
        <5>1. PICK r \in new : x[2] = ShipMove(r)
          BY <2>2, <3>1, <3>4, <4>2
        <5> QED BY <3>2, <3>4, <5>1
      <4> QED BY <4>1, <4>2
    <3> QED BY <3>3, <3>4
  <2>9. ASSUME NEW w \in Warehouses, NEW l \in Lots PROVE Goal(w, l)
    <3>1. CASE \E r \in new : r.wh = w /\ r.lot = l
      <4>1. Held(all, w, l) <= onHand[w][l]
        BY <2>3, <3>1 DEF Within
      <4> HIDE DEF all
      <4>2. Held(R, w, l) <= Held(all, w, l) /\ Held(R, w, l) \in Nat /\ Held(all, w, l) \in Nat
        BY <2>5, <2>6, HeldParts
      <4>3. Held(T, w, l) \in Nat /\ Held(D, w, l) \in Nat
        BY <1>1, HeldParts
      <4>4. onHand[w][l] \in Nat /\ InitStock[w][l] \in Nat /\ onHand'[w][l] = onHand[w][l]
        BY <1>0, <2>0, StockAssumptions DEF StockTyped, Balances
      <4>5. Moved(Made', "IN", w, l) \in Nat
        BY <1>0, <1>1, MadeGrows
      <4>6. /\ Held(T, w, l) <= Held(D, w, l) + Held(R, w, l)
            /\ onHand'[w][l] + Held(D, w, l) <= InitStock[w][l] + Moved(Made', "IN", w, l)
        BY <1>1, <1>2
      <4> QED BY <4>1, <4>2, <4>3, <4>4, <4>5, <4>6
    <3>2. CASE ~\E r \in new : r.wh = w /\ r.lot = l
      <4>1. ASSUME NEW x \in T, x[2].wh = w, x[2].lot = l PROVE x \in S
        <5>1. \A r \in new : <<a, ShipMove(r)>>[2].wh = r.wh /\ <<a, ShipMove(r)>>[2].lot = r.lot
          BY DEF ShipMove
        <5> QED BY <2>8, <3>2, <4>1, <5>1
      <4> HIDE DEF Goal
      <4> QED BY <1>6, <4>1
    <3> QED BY <3>1, <3>2
  <2> QED BY <2>9
<1> QED BY <1>7, <1>8

\* The claims of the property are these.
LEMMA ClaimsTogether ==
    ASSUME StockTyped, OrderTyped
    PROVE  UNION {{<<o, m>> : m \in Claims(o)} : o \in {x \in Orders : oStatus[x] # "CANCELLED"}}
             = Standing
<1> DEFINE U == UNION {{<<o, m>> : m \in Claims(o)} : o \in {x \in Orders : oStatus[x] # "CANCELLED"}}
<1>1. ASSUME NEW o \in Orders PROVE Claims(o) \subseteq Move
  <2>1. posting[GeneralSlot(o)] \subseteq Move /\ posting[JobOutSlot(o)] \subseteq Move
    BY OrderAssumptions DEF GeneralSlot, JobOutSlot, StockTyped, Plans
  <2>2. \A r \in oAlloc[o] : ShipMove(r) \in Move
    BY DEF OrderTyped, OrderTypeOK, Allocation, ShipMove, Move, Policies
  <2> QED BY <2>1, <2>2, ClaimIs
<1>2. ASSUME NEW x \in U PROVE x \in Standing
  <2>1. PICK o \in Orders : oStatus[o] # "CANCELLED" /\ x \in {<<o, m>> : m \in Claims(o)}
    OBVIOUS
  <2>2. PICK m \in Claims(o) : x = <<o, m>>
    BY <2>1
  <2>3. m \in Move
    BY <1>1
  <2> QED BY <2>1, <2>2, <2>3 DEF Standing
<1>3. ASSUME NEW x \in Standing PROVE x \in U
  <2>1. x = <<x[1], x[2]>> /\ x[1] \in Orders /\ oStatus[x[1]] # "CANCELLED"
          /\ x[2] \in Claims(x[1])
    BY DEF Standing
  <2>2. x \in {<<x[1], m>> : m \in Claims(x[1])}
    BY <2>1
  <2> QED BY <2>1, <2>2
<1> HIDE DEF U
<1>4. U = Standing
  BY <1>2, <1>3
<1> QED BY <1>4 DEF U

\* At first nothing is posted and nothing is claimed.
LEMMA PromisesAtFirst ==
    ASSUME ProductionInit PROVE OneWay /\ ShippedFits /\ Promised
<1>0. /\ StockInit /\ OrderInit /\ ProductionInv
  BY ProductionInvAtFirst DEF ProductionInit
<1>1. \A s \in Slots : posting[s] = {}
  BY <1>0 DEF StockInit
<1>2. OneWay
  <2>1. \A s \in Slots : Directed(s, posting[s])
    BY <1>1 DEF Directed
  <2>2. \A c \in Callers : Directed(call[c].slot, call[c].plan) /\ call[c].rest = {}
    BY <1>0 DEF StockInit, Idle, Directed
  <2> QED BY <2>1, <2>2 DEF OneWay
<1>3. ClaimFacts
  BY <1>0, ClaimsKnown DEF ProductionInv, ProductionTyped
<1>4. Shipments = {}
  BY <1>1, ProductionSlotsKnown DEF Shipments, ProductionSlots
<1>5. Standing = {}
  <2>1. \A o \in Orders : GeneralSlot(o) \in Slots /\ JobOutSlot(o) \in Slots /\ oAlloc[o] = {}
    BY <1>0, OrderAssumptions DEF GeneralSlot, JobOutSlot, OrderInit
  <2>2. \A o \in Orders : \A m : m \notin Claims(o)
    BY <1>1, <2>1, ClaimIs
  <2> QED BY <2>2 DEF Standing
<1>6. ASSUME NEW w \in Warehouses, NEW l \in Lots
      PROVE  /\ Held({}, w, l) = 0 /\ Moved(Made, "IN", w, l) \in Nat
             /\ InitStock[w][l] \in Nat /\ onHand[w][l] = InitStock[w][l]
  <2>1. Held({}, w, l) = 0
    <3>1. {x \in {} : x[2].wh = w /\ x[2].lot = l} = {}
      OBVIOUS
    <3>2. Held({}, w, l) = Units({})
      BY <3>1 DEF Held
    <3> DEFINE f == [x \in {} |-> x[2].qty]
    <3>3. Units({}) = SumFunctionOnSet(f, {})
      BY DEF Units
    <3> HIDE DEF f
    <3>4. SumFunctionOnSet(f, {}) = 0
      BY SumUnfold, FS_EmptySet
    <3> QED BY <3>2, <3>3, <3>4
  <2>2. Moved(Made, "IN", w, l) \in Nat
    BY <1>3, MovedNat DEF ClaimFacts
  <2> QED BY <1>0, <2>1, <2>2, StockAssumptions DEF StockInit
<1>7. ShippedFits
  BY <1>4, <1>6 DEF ShippedFits
<1>8. Promised
  BY <1>5, <1>6 DEF Promised
<1> QED BY <1>2, <1>7, <1>8

\* No unit is promised twice: of every balance the standing orders hold and
\* have shipped together at most what was there and what the jobs brought
\* (selectFefoAllocationPortions subtracts what other orders hold, and an order
\* ships only what it holds), whatever else allocates, ships and fails between.
THEOREM PromisesBacked == ProductionSpec => []PromisedOnce
<1> DEFINE Inv == ProductionInv /\ OneWay /\ ShippedFits /\ Promised
<1>1. ProductionInit => Inv
  BY ProductionInvAtFirst, PromisesAtFirst
<1>2. ProductionInv => ClaimFacts
  BY ClaimsKnown DEF ProductionInv, ProductionTyped
<1>3. Inv /\ ClaimFacts /\ ClaimFacts' /\ [ProductionNext]_productionVars => Inv'
  <2> SUFFICES ASSUME Inv, ClaimFacts, ClaimFacts', [ProductionNext]_productionVars
               PROVE  Inv'
    OBVIOUS
  <2>0. ProductionLedger /\ RestFollows /\ StockTyped
    BY DEF ProductionInv, ProductionTyped
  <2>1. ProductionInv'
    BY ProductionInvKept
  <2>2. OneWay' /\ ShippedFits'
    BY <2>0, OneWayKept, ShippedFitsKept
  <2>3. Promised'
    BY <2>2, PromisedKept
  <2> QED BY <2>1, <2>2, <2>3
<1>4. Inv => PromisedOnce
  <2> SUFFICES ASSUME Inv PROVE PromisedOnce
    OBVIOUS
  <2>1. UNION {{<<o, m>> : m \in Claims(o)} : o \in {x \in Orders : oStatus[x] # "CANCELLED"}}
          = Standing
    BY ClaimsTogether DEF ProductionInv, ProductionTyped
  <2>2. \A w \in Warehouses, l \in Lots :
           Held(Standing, w, l) <= InitStock[w][l] + Moved(Made, "IN", w, l)
    BY DEF Promised
  <2> QED BY <2>1, <2>2 DEF PromisedOnce, Made
<1> HIDE DEF Inv
<1>5. Inv => ProductionInv
  BY DEF Inv
<1> QED BY <1>1, <1>2, <1>3, <1>4, <1>5, ProductionInvKept, PTL DEF ProductionSpec

-----------------------------------------------------------------------------
(* What goes into what: no item into itself, at any depth.                 *)

\* The items one edge away from a set of items.
Successors(edges, S) == {e[2] : e \in {d \in edges : d[1] \in S}}

\* S is closed: no edge leads out of it.
Closed(edges, S) == Successors(edges, S) \subseteq S

\* The items reached over 1, 2, .. n + 1 edges, one number after another.
Spread(f, edges, item, n) ==
    /\ f \in [0..n -> SUBSET Items] /\ f[0] = Successors(edges, {item})
    /\ \A k \in 1..n : f[k] = f[k - 1] \cup Successors(edges, f[k - 1])

Into(edges) == \A e \in edges : e[2] \in Items

\* The recursive function of Reach exists, and Reach is its last value.
LEMMA ReachSpreads ==
    ASSUME NEW edges, Into(edges), NEW item, NEW n \in Nat
    PROVE  \E f : Spread(f, edges, item, n) /\ Reach(edges, item, n) = f[n]
<1> DEFINE V == SUBSET Items
           b == {e[2] : e \in {d \in edges : d[1] = item}}
           F == [p \in (1..n) \X V |-> p[2] \cup {e[2] : e \in {d \in edges : d[1] \in p[2]}}]
           D(g) == g = [k \in 0..n |->
                     IF k = 0 THEN b
                     ELSE g[k - 1] \cup {e[2] : e \in {d \in edges : d[1] \in g[k - 1]}}]
<1>1. b \in V
  BY DEF Into
<1>2. F \in [(1..n) \X V -> V]
  <2> SUFFICES ASSUME NEW p \in (1..n) \X V
               PROVE  p[2] \cup {e[2] : e \in {d \in edges : d[1] \in p[2]}} \in V
    OBVIOUS
  <2> QED BY DEF Into
<1>3. PICK g : Iterates(g, n, V, b, F)
  <2> HIDE DEF V, b, F
  <2> QED BY <1>1, <1>2, Iterated
<1>4. g \in [0..n -> V] /\ g[0] = b
  BY <1>3 DEF Iterates
<1>5. ASSUME NEW k \in 1..n
      PROVE  g[k] = g[k - 1] \cup {e[2] : e \in {d \in edges : d[1] \in g[k - 1]}}
  <2>1. g[k] = F[<<k, g[k - 1]>>] /\ k - 1 \in 0..n
    <3> HIDE DEF V, b, F
    <3> QED BY <1>3 DEF Iterates
  <2>2. g[k - 1] \in V
    BY <1>4, <2>1
  <2>3. <<k, g[k - 1]>> \in (1..n) \X V
    BY <2>2
  <2> DEFINE p == <<k, g[k - 1]>>
  <2>4. F[p] = p[2] \cup {e[2] : e \in {d \in edges : d[1] \in p[2]}}
    <3> HIDE DEF V
    <3> QED BY <2>3
  <2>5. p[2] = g[k - 1]
    OBVIOUS
  <2> HIDE DEF F
  <2> QED BY <2>1, <2>4, <2>5
<1> HIDE DEF b, V
<1>6. D(g)
  <2> DEFINE h == [k \in 0..n |->
                     IF k = 0 THEN b
                     ELSE g[k - 1] \cup {e[2] : e \in {d \in edges : d[1] \in g[k - 1]}}]
  <2>1. ASSUME NEW k \in 0..n PROVE g[k] = h[k]
    <3>1. CASE k = 0
      BY <1>4, <3>1
    <3>2. CASE k # 0
      <4>1. k \in 1..n
        BY <3>2
      <4> QED BY <1>5, <3>2, <4>1
    <3> QED BY <3>1, <3>2
  <2>2. g = [k \in 0..n |-> g[k]]
    BY <1>4
  <2> QED BY <2>1, <2>2
<1>7. ASSUME NEW f, D(f) PROVE f[n] = g[n]
  <2> DEFINE S == {k \in 0..n : f[k] = g[k]}
  <2>1. f[0] = b /\ 0 \in S
    <3>1. 0 \in 0..n
      OBVIOUS
    <3> QED BY <1>4, <1>7, <3>1
  <2>2. ASSUME NEW k \in 1..n, k - 1 \in S PROVE k \in S
    <3>1. k \in 0..n /\ k # 0 /\ f[k - 1] = g[k - 1]
      BY <2>2
    <3>2. f[k] = f[k - 1] \cup {e[2] : e \in {d \in edges : d[1] \in f[k - 1]}}
      BY <1>7, <3>1
    <3> QED BY <1>5, <3>1, <3>2
  <2> HIDE DEF S, D
  <2>3. 0..n \subseteq S
    BY <2>1, <2>2, Onwards
  <2> QED BY <2>3 DEF S
<1>8. Reach(edges, item, n) = (CHOOSE f : D(f))[n]
  BY Zenon DEF Reach, b
<1>9. D(CHOOSE f : D(f))
  <2> HIDE DEF D
  <2> QED BY <1>6
<1>10. Reach(edges, item, n) = g[n]
  <2> HIDE DEF D
  <2> QED BY <1>7, <1>8, <1>9
<1>11. Spread(g, edges, item, n)
  <2>1. b = Successors(edges, {item})
    BY DEF b, Successors
  <2>2. \A k \in 1..n : g[k] = g[k - 1] \cup Successors(edges, g[k - 1])
    BY <1>5 DEF Successors
  <2> QED BY <1>4, <2>1, <2>2 DEF Spread, V
<1> QED BY <1>10, <1>11

\* What is reached is in every closed set that holds the item's own parts.
LEMMA ReachWithin ==
    ASSUME NEW edges, Into(edges), NEW item, NEW n \in Nat,
           NEW S, Successors(edges, {item}) \subseteq S, Closed(edges, S)
    PROVE  Reach(edges, item, n) \subseteq S
<1>1. PICK f : Spread(f, edges, item, n) /\ Reach(edges, item, n) = f[n]
  BY ReachSpreads
<1> DEFINE T == {k \in 0..n : f[k] \subseteq S}
<1>2. 0 \in T
  BY <1>1 DEF Spread
<1>3. ASSUME NEW k \in 1..n, k - 1 \in T PROVE k \in T
  <2>1. f[k] = f[k - 1] \cup Successors(edges, f[k - 1]) /\ f[k - 1] \subseteq S /\ k \in 0..n
    BY <1>1, <1>3 DEF Spread
  <2>2. Successors(edges, f[k - 1]) \subseteq Successors(edges, S)
    BY <2>1 DEF Successors
  <2> QED BY <2>1, <2>2 DEF Closed
<1> HIDE DEF T
<1>4. 0..n \subseteq T
  BY <1>2, <1>3, Onwards
<1> QED BY <1>1, <1>4 DEF T

\* Successors as many edges as there are items nothing new is reached.
LEMMA ReachCloses ==
    ASSUME NEW edges, Into(edges), NEW item
    PROVE  /\ Successors(edges, {item}) \subseteq Reach(edges, item, Cardinality(Items))
           /\ Closed(edges, Reach(edges, item, Cardinality(Items)))
           /\ Reach(edges, item, Cardinality(Items)) \subseteq Items
<1> DEFINE N == Cardinality(Items)
<1>0. IsFiniteSet(Items) /\ N \in Nat
  BY BomAssumptions, FS_CardinalityType
<1> HIDE DEF N
<1>1. PICK f : Spread(f, edges, item, N) /\ Reach(edges, item, N) = f[N]
  BY <1>0, ReachSpreads
<1>2. \A k \in 0..N : f[k] \subseteq Items /\ IsFiniteSet(f[k]) /\ Cardinality(f[k]) \in Nat
  <2> SUFFICES ASSUME NEW k \in 0..N
               PROVE  f[k] \subseteq Items /\ IsFiniteSet(f[k]) /\ Cardinality(f[k]) \in Nat
    OBVIOUS
  <2>1. f[k] \subseteq Items
    BY <1>1 DEF Spread
  <2> QED BY <1>0, <2>1, FS_Subset, FS_CardinalityType
<1> DEFINE Full(k) == /\ Successors(edges, {item}) \subseteq f[k]
                      /\ Closed(edges, f[k]) \/ Cardinality(f[k]) >= k
           T == {k \in 0..N : Full(k)}
<1>3. 0 \in T
  <2>1. 0 \in 0..N /\ f[0] = Successors(edges, {item})
    BY <1>0, <1>1 DEF Spread
  <2>2. Cardinality(f[0]) >= 0
    BY <1>2, <2>1
  <2> QED BY <2>1, <2>2
<1>4. ASSUME NEW k \in 1..N, k - 1 \in T PROVE k \in T
  <2>1. k \in 0..N /\ k - 1 \in 0..N /\ k \in Int /\ Full(k - 1)
    <3> HIDE DEF Full
    <3> QED BY <1>0, <1>4
  <2>2. f[k] = f[k - 1] \cup Successors(edges, f[k - 1])
    BY <1>1 DEF Spread
  <2>3. Successors(edges, {item}) \subseteq f[k]
    BY <2>1, <2>2
  <2>4. CASE Closed(edges, f[k - 1])
    <3>1. f[k] = f[k - 1]
      BY <2>2, <2>4 DEF Closed
    <3> QED BY <2>1, <2>3, <2>4, <3>1
  <2>5. CASE ~ Closed(edges, f[k - 1])
    <3>1. f[k - 1] \subseteq f[k] /\ f[k - 1] # f[k]
      BY <2>2, <2>5 DEF Closed
    <3>2. Cardinality(f[k - 1]) < Cardinality(f[k])
      BY <1>2, <2>1, <3>1, FS_Subset
    <3>3. Cardinality(f[k - 1]) >= k - 1
      BY <2>1, <2>5
    <3>4. Cardinality(f[k]) >= k
      BY <1>2, <2>1, <3>2, <3>3
    <3> QED BY <2>1, <2>3, <3>4
  <2> QED BY <2>4, <2>5
<1> HIDE DEF T
<1>5. 0..N \subseteq T
  BY <1>0, <1>3, <1>4, Onwards
<1>6. N \in 0..N /\ Full(N)
  BY <1>0, <1>5 DEF T
<1>7. ASSUME Cardinality(f[N]) >= N PROVE Closed(edges, f[N])
  <2>1. f[N] = Items
    BY <1>0, <1>2, <1>6, <1>7, FS_Subset DEF N
  <2> QED BY <2>1 DEF Closed, Successors, Into
<1>8. Closed(edges, f[N])
  BY <1>6, <1>7
<1> QED BY <1>1, <1>2, <1>6, <1>8 DEF N

\* No item goes into itself.
Acyclic(edges) == \A i \in Items : i \notin Reach(edges, i, Cardinality(Items))

\* Fewer edges reach no more.
LEMMA FewerReach ==
    ASSUME NEW more, Into(more), NEW fewer, fewer \subseteq more, NEW item
    PROVE  /\ Into(fewer)
           /\ Reach(fewer, item, Cardinality(Items)) \subseteq Reach(more, item, Cardinality(Items))
<1>1. Into(fewer)
  BY DEF Into
<1>2. Cardinality(Items) \in Nat
  BY BomAssumptions, FS_CardinalityType
<1>3. \A S : Successors(fewer, S) \subseteq Successors(more, S)
  BY DEF Successors
<1> DEFINE R == Reach(more, item, Cardinality(Items))
<1>4. Successors(more, {item}) \subseteq R /\ Closed(more, R)
  BY ReachCloses
<1> HIDE DEF R
<1>5. Successors(fewer, {item}) \subseteq R /\ Closed(fewer, R)
  BY <1>3, <1>4 DEF Closed
<1>6. Reach(fewer, item, Cardinality(Items)) \subseteq R
  BY <1>1, <1>2, <1>5, ReachWithin
<1> QED BY <1>1, <1>6 DEF R

\* Fewer edges make no cycle.
LEMMA FewerAcyclic ==
    ASSUME NEW more, Into(more), NEW fewer, fewer \subseteq more, Acyclic(more)
    PROVE  Acyclic(fewer)
BY FewerReach DEF Acyclic

\* Edges out of one item make no cycle unless that item goes into itself: a
\* cycle that uses one of them passes through it.
LEMMA ExtendedAcyclic ==
    ASSUME NEW old, NEW all, Into(all), old \subseteq all, Acyclic(old), NEW o,
           \A e \in all : e \in old \/ e[1] = o,
           o \notin Reach(all, o, Cardinality(Items))
    PROVE  Acyclic(all)
<1> DEFINE N == Cardinality(Items)
<1>0. N \in Nat /\ Into(old)
  BY BomAssumptions, FS_CardinalityType, FewerReach
<1> SUFFICES ASSUME NEW i \in Items, i \in Reach(all, i, N) PROVE FALSE
  BY DEF Acyclic
<1> DEFINE B == Reach(old, i, N)
           R == Reach(all, o, N)
<1>1. /\ Successors(old, {i}) \subseteq B /\ Closed(old, B)
      /\ Successors(all, {o}) \subseteq R /\ Closed(all, R)
  BY <1>0, ReachCloses
<1>2. i \notin B /\ o \notin R
  BY DEF Acyclic
<1>3. B \subseteq Reach(all, i, N)
  BY FewerReach
<1> HIDE DEF B, R, N
<1>4. i # o
  BY <1>2 DEF R
<1>5. CASE o \in B
  <2>1. Successors(all, {i}) \subseteq B \cup R
    BY <1>1, <1>4 DEF Successors
  <2>2. Closed(all, B \cup R)
    BY <1>1 DEF Successors, Closed
  <2>3. Reach(all, i, N) \subseteq B \cup R
    BY <1>0, <2>1, <2>2, ReachWithin
  <2>4. i \in R
    BY <1>2, <2>3
  <2>5. Successors(all, {i}) \subseteq R
    BY <1>1, <2>4 DEF Successors, Closed
  <2>6. Reach(all, i, N) \subseteq R
    BY <1>0, <1>1, <2>5, ReachWithin
  <2> QED BY <1>2, <1>3, <1>5, <2>6
<1>6. CASE o \notin B
  <2>1. Successors(all, {i}) \subseteq B
    BY <1>1, <1>4 DEF Successors
  <2>2. Closed(all, B)
    BY <1>1, <1>6 DEF Successors, Closed
  <2>3. Reach(all, i, N) \subseteq B
    BY <1>0, <2>1, <2>2, ReachWithin
  <2> QED BY <1>2, <2>3
<1> QED BY <1>5, <1>6

Live(v) == bStatus[v] \in {"ACTIVE", "DRAFT"}

\* No version exists before its header names an output, and none has
\* components before it exists.
BomsBlank ==
    /\ \A v \in Versions : bOutput[v[1]] = None => bStatus[v] = "ABSENT"
    /\ \A v \in Versions : bStatus[v] = "ABSENT" => bParts[v] = {}

BomsSound == BomTyped /\ BomsBlank /\ NothingMakesItself

\* The edges in use, one by one.
LEMMA LiveEdge ==
    ASSUME NEW e
    PROVE  e \in LiveEdges <=> \E v \in Versions : /\ Live(v)
                                                   /\ \E x \in bParts[v] : e = <<bOutput[v[1]], x.item>>
BY DEF LiveEdges, Live

\* They lead to items.
LEMMA LiveInto == ASSUME BomTyped PROVE Into(LiveEdges)
<1> SUFFICES ASSUME NEW e \in LiveEdges PROVE e[2] \in Items
  BY DEF Into
<1>1. PICK v \in Versions : \E x \in bParts[v] : e = <<bOutput[v[1]], x.item>>
  BY LiveEdge
<1>2. \A x \in bParts[v] : x.item \in Items
  BY DEF BomTyped, BomTypeOK, Component
<1> QED BY <1>1, <1>2

\* A step that makes no version live, and gives no live one other components
\* or another output, makes no cycle.
LEMMA NothingNewLive ==
    ASSUME BomsSound, BomTyped',
           \A v \in Versions : Live(v)' => \/ bParts'[v] = {}
                                           \/ /\ Live(v) /\ bParts'[v] = bParts[v]
                                              /\ bOutput'[v[1]] = bOutput[v[1]]
    PROVE  Acyclic(LiveEdges')
<1>1. LiveEdges' \subseteq LiveEdges
  <2> SUFFICES ASSUME NEW e \in LiveEdges' PROVE e \in LiveEdges
    OBVIOUS
  <2>1. PICK v \in Versions : Live(v)' /\ \E x \in bParts'[v] : e = <<bOutput'[v[1]], x.item>>
    BY DEF LiveEdges, Live
  <2>2. Live(v) /\ \E x \in bParts[v] : e = <<bOutput[v[1]], x.item>>
    BY <2>1
  <2> QED BY <2>2, LiveEdge
<1>2. Into(LiveEdges) /\ Acyclic(LiveEdges)
  BY LiveInto DEF BomsSound, NothingMakesItself, Acyclic
<1> QED BY <1>1, <1>2, FewerAcyclic

\* A draft takes components: assertNoCycle looks at what goes into its output
\* with every other version in use and with the new components.
LEMMA ReplaceSound ==
    ASSUME BomsSound, NEW v \in Versions, NEW u, NEW parts \in Recipes,
           ReplaceDraftComponents(v, u, parts)
    PROVE  Acyclic(LiveEdges')
<1> DEFINE all == Edges(v, parts)
           old == UNION {{<<bOutput[w[1]], x.item>> : x \in bParts[w]} :
                           w \in {k \in Versions \ {v} : bStatus[k] \in {"ACTIVE", "DRAFT"}}}
           own == {<<bOutput[v[1]], x.item>> : x \in parts}
<1>1. all = old \cup own
  BY DEF Edges
<1>2. old \subseteq LiveEdges
  BY DEF LiveEdges
<1>3. Into(LiveEdges) /\ Acyclic(LiveEdges)
  BY LiveInto DEF BomsSound, NothingMakesItself, Acyclic
<1>4. \A x \in parts : x.item \in Items
  BY BomAssumptions DEF Recipe, Component
<1>5. \A e \in own : e[1] = bOutput[v[1]] /\ e[2] \in Items
  BY <1>4
<1>6. LiveEdges' \subseteq all
  <2> SUFFICES ASSUME NEW e \in LiveEdges' PROVE e \in all
    OBVIOUS
  <2>1. PICK w \in Versions : Live(w)' /\ \E x \in bParts'[w] : e = <<bOutput'[w[1]], x.item>>
    BY DEF LiveEdges, Live
  <2>2. Live(w) /\ bOutput' = bOutput /\ bParts' = [bParts EXCEPT ![v] = parts]
    BY <2>1 DEF ReplaceDraftComponents, Live
  <2>3. DOMAIN bParts = Versions
    BY DEF BomsSound, BomTyped, BomTypeOK
  <2>4. CASE w = v
    <3>1. e \in own
      BY <2>1, <2>2, <2>3, <2>4
    <3> QED BY <1>1, <3>1
  <2>5. CASE w # v
    <3>1. bParts'[w] = bParts[w]
      BY <2>2, <2>3, <2>5
    <3>2. e \in old
      BY <2>1, <2>2, <2>5, <3>1 DEF Live
    <3> QED BY <1>1, <3>2
  <2> QED BY <2>4, <2>5
<1>7. bOutput[v[1]] \notin Reach(all, bOutput[v[1]], Cardinality(Items))
  BY DEF ReplaceDraftComponents, NoCycle
<1> HIDE DEF all, old, own
<1>8. Acyclic(old)
  BY <1>2, <1>3, FewerAcyclic
<1>9. Into(all) /\ old \subseteq all
  BY <1>1, <1>2, <1>3, <1>5 DEF Into
<1>10. \A e \in all : e \in old \/ e[1] = bOutput[v[1]]
  BY <1>1, <1>5
<1>11. Acyclic(all)
  BY <1>7, <1>8, <1>9, <1>10, ExtendedAcyclic
<1> QED BY <1>6, <1>9, <1>11, FewerAcyclic

\* The part of the property that is about activation.
OneActive ==
    \A v, w \in Versions :
        bStatus[v] = "ACTIVE" /\ bStatus[w] = "ACTIVE" /\ v[1] = w[1] => v = w

\* The property in its two parts.
LEMMA NothingMakesItselfParts == NothingMakesItself <=> Acyclic(LiveEdges) /\ OneActive
BY DEF NothingMakesItself, Acyclic, OneActive

\* Every step on the bills keeps them sound.
LEMMA BomsKept == ASSUME BomsSound, BomNext PROVE BomsSound'
<1>0. BomTyped /\ BomsBlank /\ OneActive /\ BomTyped'
  BY BomsTyped, NothingMakesItselfParts DEF BomsSound
<1>1. /\ bStatus \in [Versions -> BomStatuses] /\ bParts \in [Versions -> SUBSET Component]
      /\ bOutput \in [Headers -> Items \cup {None}]
      /\ \A v \in Versions : v[1] \in Headers
  BY <1>0 DEF BomTyped, BomTypeOK, Versions
<1> SUFFICES BomsBlank' /\ Acyclic(LiveEdges') /\ OneActive'
  BY <1>0 DEF BomsSound, NothingMakesItself, Acyclic, OneActive
<1>2. ASSUME NEW u, NEW h \in Headers, NEW item \in Items, CreateBomHeader(h, u, item)
      PROVE  BomsBlank' /\ Acyclic(LiveEdges') /\ OneActive'
  <2>1. /\ bOutput[h] = None /\ bOutput' = [bOutput EXCEPT ![h] = item]
        /\ bStatus' = bStatus /\ bParts' = bParts
    BY <1>2 DEF CreateBomHeader
  <2>2. item # None
    BY BomAssumptions
  <2>3. \A v \in Versions : v[1] # h => bOutput'[v[1]] = bOutput[v[1]]
    BY <1>1, <2>1
  <2>4. \A v \in Versions : v[1] = h => bStatus[v] = "ABSENT" /\ bOutput'[v[1]] = item
    BY <1>0, <1>1, <2>1 DEF BomsBlank
  <2>5. BomsBlank'
    BY <1>0, <2>1, <2>2, <2>3, <2>4 DEF BomsBlank
  <2>6. Acyclic(LiveEdges')
    BY <1>0, <2>1, <2>3, <2>4, NothingNewLive DEF Live
  <2> QED BY <1>0, <2>1, <2>5, <2>6 DEF OneActive
<1>3. ASSUME NEW u, NEW h \in Headers, NEW n \in 1..MaxVersions, NEW y,
             CreateDraftVersion(h, n, u, y)
      PROVE  BomsBlank' /\ Acyclic(LiveEdges') /\ OneActive'
  <2> DEFINE v == <<h, n>>
  <2>1. /\ bOutput[h] # None /\ bStatus' = [bStatus EXCEPT ![v] = "DRAFT"]
        /\ bOutput' = bOutput /\ bParts' = bParts
    BY <1>3 DEF CreateDraftVersion
  <2>2. v \in Versions /\ v[1] = h
    BY DEF Versions
  <2>3. bStatus[v] = "ABSENT"
    <3>1. n \in Int /\ n >= n
      OBVIOUS
    <3> QED BY <1>3, <3>1 DEF CreateDraftVersion
  <2>4. bParts[v] = {}
    BY <1>0, <2>2, <2>3 DEF BomsBlank
  <2> HIDE DEF v
  <2>5. bStatus'[v] = "DRAFT" /\ \A w \in Versions : w # v => bStatus'[w] = bStatus[w]
    BY <1>1, <2>1, <2>2
  <2>6. BomsBlank'
    BY <1>0, <2>1, <2>2, <2>5 DEF BomsBlank
  <2>7. Acyclic(LiveEdges')
    BY <1>0, <2>1, <2>4, <2>5, NothingNewLive DEF Live
  <2> QED BY <1>0, <2>5, <2>6, <2>7 DEF OneActive
<1>4. ASSUME NEW u, NEW v \in Versions, NEW parts \in Recipes,
             ReplaceDraftComponents(v, u, parts)
      PROVE  BomsBlank' /\ Acyclic(LiveEdges') /\ OneActive'
  <2>1. /\ bStatus[v] = "DRAFT" /\ bParts' = [bParts EXCEPT ![v] = parts]
        /\ bOutput' = bOutput /\ bStatus' = bStatus
    BY <1>4 DEF ReplaceDraftComponents
  <2>2. \A w \in Versions : w # v => bParts'[w] = bParts[w]
    BY <1>1, <2>1
  <2>3. BomsBlank'
    BY <1>0, <2>1, <2>2 DEF BomsBlank
  <2>4. Acyclic(LiveEdges')
    BY <1>4, ReplaceSound
  <2> QED BY <1>0, <2>1, <2>3, <2>4 DEF OneActive
<1>5. ASSUME NEW u, NEW v \in Versions, ActivateVersion(v, u)
      PROVE  BomsBlank' /\ Acyclic(LiveEdges') /\ OneActive'
  <2>1. bStatus[v] = "DRAFT" /\ bOutput' = bOutput /\ bParts' = bParts
    BY <1>5 DEF ActivateVersion
  <2>2. \A w \in Versions :
           bStatus'[w] = IF w = v THEN "ACTIVE"
                         ELSE IF w[1] = v[1] /\ bStatus[w] = "ACTIVE" THEN "RETIRED"
                         ELSE bStatus[w]
    BY <1>5 DEF ActivateVersion
  <2>3. \A w \in Versions : bStatus'[w] = "ABSENT" <=> bStatus[w] = "ABSENT"
    BY <2>1, <2>2
  <2>4. BomsBlank'
    BY <1>0, <2>1, <2>3 DEF BomsBlank
  <2>5. \A w \in Versions : Live(w)' => Live(w)
    BY <2>1, <2>2 DEF Live
  <2>6. Acyclic(LiveEdges')
    BY <1>0, <2>1, <2>5, NothingNewLive
  <2>7. OneActive'
    <3>1. \A w \in Versions : w # v /\ bStatus'[w] = "ACTIVE" => bStatus[w] = "ACTIVE" /\ w[1] # v[1]
      BY <2>2
    <3> QED BY <1>0, <3>1 DEF OneActive
  <2> QED BY <2>4, <2>6, <2>7
<1>6. ASSUME NEW u, NEW v \in Versions, RetireVersion(v, u)
      PROVE  BomsBlank' /\ Acyclic(LiveEdges') /\ OneActive'
  <2>1. /\ bStatus[v] = "ACTIVE" /\ bOutput' = bOutput /\ bParts' = bParts
        /\ bStatus' = [bStatus EXCEPT ![v] = "RETIRED"]
    BY <1>6 DEF RetireVersion
  <2>2. bStatus'[v] = "RETIRED" /\ \A w \in Versions : w # v => bStatus'[w] = bStatus[w]
    BY <1>1, <2>1
  <2>3. BomsBlank'
    BY <1>0, <2>1, <2>2 DEF BomsBlank
  <2>4. \A w \in Versions : Live(w)' => Live(w)
    BY <2>1, <2>2 DEF Live
  <2>5. Acyclic(LiveEdges')
    BY <1>0, <2>1, <2>4, NothingNewLive
  <2> QED BY <1>0, <2>2, <2>3, <2>5 DEF OneActive
<1> QED BY <1>2, <1>3, <1>4, <1>5, <1>6 DEF BomNext, BomStep

\* The bills of materials in use or in preparation never need, at any depth,
\* what they make, and a header has one active version (assertNoCycle, the
\* retirement in activateBomVersion), in whatever order drafts are filled,
\* activated and retired.
THEOREM BillsAreSound == ProductionSpec => []NothingMakesItself
<1>1. ProductionInit => BomsSound
  <2> SUFFICES ASSUME ProductionInit PROVE BomsSound
    OBVIOUS
  <2>1. BomTyped
    BY ProductionTypedAtFirst DEF ProductionTyped
  <2>2. BomsBlank /\ OneActive /\ \A v \in Versions : ~ Live(v)
    BY DEF ProductionInit, BomInit, BomsBlank, OneActive, Live, Versions
  <2>3. LiveEdges = {}
    BY <2>2, LiveEdge
  <2>4. Acyclic(LiveEdges)
    <3> SUFFICES ASSUME NEW i \in Items PROVE i \notin Reach(LiveEdges, i, Cardinality(Items))
      BY DEF Acyclic
    <3>1. /\ Into(LiveEdges) /\ Successors(LiveEdges, {i}) \subseteq {} /\ Closed(LiveEdges, {})
          /\ Cardinality(Items) \in Nat
      BY <2>3, BomAssumptions, FS_CardinalityType DEF Into, Successors, Closed
    <3>2. Reach(LiveEdges, i, Cardinality(Items)) \subseteq {}
      BY <3>1, ReachWithin
    <3> QED BY <3>2
  <2> QED BY <2>1, <2>2, <2>4, NothingMakesItselfParts DEF BomsSound
<1>2. BomsSound /\ [ProductionNext]_productionVars => BomsSound'
  <2> SUFFICES ASSUME BomsSound, [ProductionNext]_productionVars PROVE BomsSound'
    OBVIOUS
  <2>1. CASE BomNext
    BY <2>1, BomsKept
  <2>2. CASE UNCHANGED bomVars
    <3>1. UNCHANGED <<bOutput, bStatus, bYield, bParts>>
      BY <2>2 DEF bomVars
    <3>2. BomTyped'
      BY <2>2, BomTypedStays DEF BomsSound
    <3>3. LiveEdges' = LiveEdges
      BY <3>1 DEF LiveEdges
    <3>4. BomsBlank' /\ NothingMakesItself'
      BY <3>1, <3>3 DEF BomsSound, BomsBlank, NothingMakesItself
    <3> QED BY <3>2, <3>4 DEF BomsSound
  <2>3. ASSUME JobNext PROVE UNCHANGED bomVars
    <3>1. PICK j \in Jobs : JobStep(j)
      BY <2>3 DEF JobNext
    <3> QED BY <3>1 DEF JobStep, JobDesk, CreateJobOrderDraft, SubmitJobOrder, ApproveJobOrder,
       ReleaseJobOrder, CancelJobOrder, FailJobOrder, StartJobPrepare, StartJobFinalize,
       CompleteJobPrepare, CompleteJobFinalize
  <2> QED BY <2>1, <2>2, <2>3 DEF ProductionNext, productionVars, bomVars
<1>3. BomsSound => NothingMakesItself
  BY DEF BomsSound
<1> QED BY <1>1, <1>2, <1>3, PTL DEF ProductionSpec
=============================================================================
