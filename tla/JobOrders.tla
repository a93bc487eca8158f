------------------------------ MODULE JobOrders ------------------------------
(***************************************************************************)
(* Job orders (production/job-order-service.ts): a job is planned from an  *)
(* active bill of materials, approved, released, started (its components   *)
(* leave the production warehouse) and completed (its output enters it).   *)
(* Start and complete are sagas of StockPosting; neither compensates, its  *)
(* two documents exist since the release and stay.                         *)
(***************************************************************************)
EXTENDS Boms

CONSTANTS
    Jobs,
    JobDrafts,       \* [version, site, qty] a client may enter
    Fefo             \* rank of a balance: expires_at NULLS LAST, then lot_code

JobStatuses == {"ABSENT", "DRAFT", "SUBMITTED", "APPROVED", "RELEASED", "IN_PROGRESS",
                "COMPLETED", "FAILED", "CANCELLED"}

\* job_order_component_allocation: the lot is drawn when the job starts; the
\* rows a line is split into keep its number here.
JobLine == [no : Nat, item : Items, lot : Lots \cup {None}, qty : Quantity]

\* The lot a job makes, JOBORDER:<id>; it is minted once, so that its Expiry
\* stands for the day it is minted plus the item's shelf life.
OutputLot(j) == <<"JOBORDER", j>>

\* What a client may send.
JobDraft == [version : Versions, site : {Site[w] : w \in Warehouses}, qty : Quantity]

ASSUME JobAssumptions ==
    /\ JobDrafts \subseteq JobDraft
    /\ IsFiniteSet(Warehouses) /\ IsFiniteSet(Lots)
    /\ \A j \in Jobs :
         /\ OutputLot(j) \in Lots \ OpeningLots
         /\ <<j, "PRODUCTION_CONSUME">> \in Slots
         /\ <<j, "PRODUCTION_OUTPUT">> \in Slots
    /\ Fefo \in [Warehouses \X Lots -> Nat]
    /\ \A x, y \in Warehouses \X Lots :
         /\ Fefo[x] = Fefo[y] => x = y
         /\ Expiry[x[2]] < Expiry[y[2]] => Fefo[x] < Fefo[y]

VARIABLES
    jStatus, jVersion,
    jMaker,          \* submitted_by
    jBom, jSite,
    jLines,
    jEvidence,       \* job_order_output_lot.quantity, 0 for no row
    jActual          \* actual_output_qty, 0 for NULL

jobVars == <<jStatus, jVersion, jMaker, jBom, jSite, jLines, jEvidence, jActual>>

ConsumeSlot(j) == <<j, "PRODUCTION_CONSUME">>
OutputSlot(j) == <<j, "PRODUCTION_OUTPUT">>

JobTypeOK ==
    /\ jStatus \in [Jobs -> JobStatuses]
    /\ jVersion \in [Jobs -> Nat]
    /\ jMaker \in [Jobs -> Users \cup {None}]
    /\ jBom \in [Jobs -> Versions \cup {None}]
    /\ jSite \in [Jobs -> {d.site : d \in JobDrafts} \cup {None}]
    /\ jLines \in [Jobs -> SUBSET JobLine]
    /\ jEvidence \in [Jobs -> 0..MaxQty]
    /\ jActual \in [Jobs -> 0..MaxQty]

JobInit ==
    /\ jStatus = [j \in Jobs |-> "ABSENT"]
    /\ jVersion = [j \in Jobs |-> 0]
    /\ jMaker = [j \in Jobs |-> None]
    /\ jBom = [j \in Jobs |-> None]
    /\ jSite = [j \in Jobs |-> None]
    /\ jLines = [j \in Jobs |-> {}]
    /\ jEvidence = [j \in Jobs |-> 0]
    /\ jActual = [j \in Jobs |-> 0]

-----------------------------------------------------------------------------

MayMake(u, site) == MayAct(u, ProductionRoles, site)

ProductionWarehouses(site) ==
    {w \in Warehouses : Site[w] = site /\ Purpose[w] = "PRODUCTION"}
JobWarehouse(j) == CHOOSE w \in ProductionWarehouses(jSite[j]) : TRUE

\* derivePlannedAllocationQty: exact, or the draft is refused.
Needed(x, qty) == x.base * qty * (100 + x.scrap)
Divides(v, x, qty) == Needed(x, qty) % (100 * bYield[v]) = 0
Planned(v, x, qty) == Needed(x, qty) \div (100 * bYield[v])

JobAdvances(j, from, to) ==
    /\ jStatus[j] \in from
    /\ jStatus' = [jStatus EXCEPT ![j] = to]
    /\ jVersion' = [jVersion EXCEPT ![j] = @ + 1]

CreateJobOrderDraft(j, u, d) ==
    LET v == d.version IN
    /\ MayMake(u, d.site) /\ ProductionWarehouses(d.site) # {}
    /\ bStatus[v] = "ACTIVE" /\ bParts[v] # {}
    /\ \A x \in bParts[v] : Divides(v, x, d.qty) /\ Planned(v, x, d.qty) \in Quantity
    /\ JobAdvances(j, {"ABSENT"}, "DRAFT")
    /\ jBom' = [jBom EXCEPT ![j] = v]
    /\ jSite' = [jSite EXCEPT ![j] = d.site]
    /\ jLines' = [jLines EXCEPT ![j] =
         {[no |-> x.no, item |-> x.item, lot |-> None, qty |-> Planned(v, x, d.qty)] :
            x \in bParts[v]}]
    /\ UNCHANGED <<jMaker, jEvidence, jActual, bomVars, stockVars>>

SubmitJobOrder(j, u) ==
    /\ JobAdvances(j, {"DRAFT"}, "SUBMITTED") /\ MayMake(u, jSite[j])
    /\ jMaker' = [jMaker EXCEPT ![j] = u]
    /\ UNCHANGED <<jBom, jSite, jLines, jEvidence, jActual, bomVars, stockVars>>

ApproveJobOrder(j, u) ==
    /\ JobAdvances(j, {"SUBMITTED"}, "APPROVED") /\ MayMake(u, jSite[j]) /\ u # jMaker[j]
    /\ UNCHANGED <<jMaker, jBom, jSite, jLines, jEvidence, jActual, bomVars, stockVars>>

\* Both documents are ensured here, PENDING.
ReleaseJobOrder(j, u) ==
    /\ JobAdvances(j, {"APPROVED"}, "RELEASED") /\ MayMake(u, jSite[j])
    /\ doc' = [doc EXCEPT ![ConsumeSlot(j)] = Ensured(ConsumeSlot(j)),
                          ![OutputSlot(j)] = Ensured(OutputSlot(j))]
    /\ UNCHANGED <<jMaker, jBom, jSite, jLines, jEvidence, jActual, bomVars,
                   onHand, lotState, today, posting, call>>

CancelJobOrder(j, u) ==
    /\ JobAdvances(j, {"DRAFT", "SUBMITTED", "APPROVED", "RELEASED"}, "CANCELLED")
    /\ MayMake(u, jSite[j])
    /\ UNCHANGED <<jMaker, jBom, jSite, jLines, jEvidence, jActual, bomVars, stockVars>>

FailJobOrder(j, u) ==
    /\ JobAdvances(j, {"IN_PROGRESS"}, "FAILED") /\ MayMake(u, jSite[j])
    /\ UNCHANGED <<jMaker, jBom, jSite, jLines, jEvidence, jActual, bomVars, stockVars>>

-----------------------------------------------------------------------------
(* First expiring, first out, over as many lots as it takes.               *)

MinOf(a, b) == IF a < b THEN a ELSE b

\* A need is met from the balances in cand, free of each being what may be
\* taken: each gives what those ranked before it leave open.
Portions(cand, free, need) ==
    LET ahead(x) == {y \in cand : Fefo[y] < Fefo[x]}
        open(x) == need - SumFunctionOnSet(free, ahead(x)) IN
    {[wh |-> x[1], lot |-> x[2], qty |-> MinOf(free[x], open(x))] :
       x \in {y \in cand : open(y) > 0}}

Covers(cand, free, need) == SumFunctionOnSet(free, cand) >= need

-----------------------------------------------------------------------------
(* startJobOrder                                                           *)

\* selectFefoLots: the balances of a component in the job's warehouse.
JobCandidates(j, item) ==
    {JobWarehouse(j)} \X Plannable(item, JobWarehouse(j))
OnShelf == [x \in Warehouses \X Lots |-> onHand[x[1]][x[2]]]

ConsumeMove(no, p) ==
    [line |-> no, way |-> "OUT", wh |-> p.wh, lot |-> p.lot, qty |-> p.qty,
     policy |-> "ALLOCATABLE"]
ConsumePlan(j) ==
    UNION {{ConsumeMove(l.no, p) : p \in Portions(JobCandidates(j, l.item), OnShelf, l.qty)} :
             l \in jLines[j]}

StartJobPrepare(c, j, u) ==
    /\ jStatus[j] = "RELEASED" /\ MayMake(u, jSite[j])
    /\ \A l \in jLines[j] : Covers(JobCandidates(j, l.item), OnShelf, l.qty)
    /\ Prepared(c, ConsumeSlot(j), ConsumePlan(j), {}, jVersion[j])
    /\ UNCHANGED <<jobVars, bomVars, onHand, lotState, today, posting>>

\* Mutant: the version the plan was made for is not compared.
StartJobFinalizeAnyway(c, j) ==
    /\ call[c].phase = "posted" /\ call[c].slot = ConsumeSlot(j)
    /\ Finished(c)
    /\ jStatus' = [jStatus EXCEPT ![j] = "IN_PROGRESS"]
    /\ jVersion' = [jVersion EXCEPT ![j] = @ + 1]
    /\ UNCHANGED <<jMaker, jBom, jSite, jLines, jEvidence, jActual, bomVars,
                   onHand, lotState, today, doc, posting>>

\* The lots drawn are written back; a job that is no longer as it was prepared
\* keeps its rows.
StartJobFinalize(c, j) ==
    /\ call[c].phase = "posted" /\ call[c].slot = ConsumeSlot(j)
    /\ Finished(c)
    /\ IF jStatus[j] = "RELEASED" /\ jVersion[j] = call[c].version
       THEN /\ JobAdvances(j, {"RELEASED"}, "IN_PROGRESS")
            /\ jLines' = [jLines EXCEPT ![j] =
                 {[no |-> m.line, item |-> ItemOf[m.lot], lot |-> m.lot, qty |-> m.qty] :
                    m \in call[c].plan}]
       ELSE UNCHANGED <<jStatus, jVersion, jLines>>
    /\ UNCHANGED <<jMaker, jBom, jSite, jEvidence, jActual, bomVars,
                   onHand, lotState, today, doc, posting>>

-----------------------------------------------------------------------------
(* completeJobOrder                                                        *)

OutputMove(j, q) ==
    [line |-> 1, way |-> "IN", wh |-> JobWarehouse(j), lot |-> OutputLot(j), qty |-> q,
     policy |-> "ALLOCATABLE"]

\* The output lot and the evidence row stay, with the first attempt's quantity.
CompleteJobPrepare(c, j, u, q) ==
    /\ jStatus[j] = "IN_PROGRESS" /\ MayMake(u, jSite[j])
    /\ jLines[j] # {} /\ \A l \in jLines[j] : l.lot # None
    /\ Prepared(c, OutputSlot(j), {OutputMove(j, q)}, {}, jVersion[j])
    /\ lotState' = [lotState EXCEPT ![OutputLot(j)] = "AVAILABLE"]
    /\ jEvidence' = [jEvidence EXCEPT ![j] = IF @ = 0 THEN q ELSE @]
    /\ UNCHANGED <<jStatus, jVersion, jMaker, jBom, jSite, jLines, jActual, bomVars,
                   onHand, today, posting>>

CompleteJobFinalize(c, j) ==
    /\ call[c].phase = "posted" /\ call[c].slot = OutputSlot(j)
    /\ Finished(c)
    /\ IF jStatus[j] = "IN_PROGRESS" /\ jVersion[j] = call[c].version
       THEN /\ JobAdvances(j, {"IN_PROGRESS"}, "COMPLETED")
            /\ jActual' = [jActual EXCEPT ![j] = (CHOOSE m \in call[c].plan : TRUE).qty]
       ELSE UNCHANGED <<jStatus, jVersion, jActual>>
    /\ UNCHANGED <<jMaker, jBom, jSite, jLines, jEvidence, bomVars,
                   onHand, lotState, today, doc, posting>>

-----------------------------------------------------------------------------

\* A job up to its release.
JobDesk(j, u) ==
    \/ \E d \in JobDrafts : CreateJobOrderDraft(j, u, d)
    \/ SubmitJobOrder(j, u) \/ ApproveJobOrder(j, u) \/ ReleaseJobOrder(j, u)

JobStep(j) ==
    \/ \E u \in Users :
         \/ JobDesk(j, u)
         \/ CancelJobOrder(j, u) \/ FailJobOrder(j, u)
         \/ \E c \in Callers :
              StartJobPrepare(c, j, u) \/ \E q \in Quantity : CompleteJobPrepare(c, j, u, q)
    \/ \E c \in Callers : StartJobFinalize(c, j) \/ CompleteJobFinalize(c, j)

JobNext == \E j \in Jobs : JobStep(j)
=============================================================================
