---------------------------- MODULE StockReturns ----------------------------
(***************************************************************************)
(* Stock return batches (stock-returns/service.ts): an outlet sends stock  *)
(* back, HQ receives every line into quarantine under a lot of its own and *)
(* either writes it off in the same posting or, for a reusable reason,     *)
(* holds it there.  Dispatch and receipt are sagas of StockPosting.        *)
(*                                                                         *)
(* Submitting also ensures two documents under the batch's bare number;    *)
(* nothing is ever posted against them, so they are not state here.        *)
(***************************************************************************)
EXTENDS StockPosting

CONSTANTS
    ReturnBatches,
    ReturnDrafts     \* [site, lines] an outlet may enter

ReturnStatuses == {"ABSENT", "DRAFT", "SUBMITTED", "APPROVED", "DISPATCHED",
                   "RECEIVED_DISPOSED", "CANCELLED"}
ReturnRoles == {"OWNER", "WAREHOUSE_MAIN", "OUTLET_MANAGER", "WAREHOUSE_OUTLET"}
ReturnApproveRoles == {"OWNER", "WAREHOUSE_MAIN", "OUTLET_MANAGER"}
ReturnReceiveRoles == {"OWNER", "WAREHOUSE_MAIN"}

\* The reason HQ gives a returned line: one that condemns it, or OTHER, the
\* only one in QA_RELEASE_RELEASABLE_REASONS.
Reasons == {"SPOILED", "OTHER"}
Reusable == {"OTHER"}

ReturnLine == [no : Nat, item : Items, lot : Lots, wh : Warehouses, qty : Quantity]
ReceiptLine == [no : Nat, lot : Lots, qty : Quantity, reason : Reasons]

\* What an outlet may send.
ReturnDraft == [site : {Site[w] : w \in Warehouses}, lines : SUBSET ReturnLine]

\* The lot a line is received under, RETURN:<batch>:<line>.
QuarantineLot(b, no) == <<"RETURN", b, no>>

ASSUME ReturnAssumptions ==
    /\ IsFiniteSet(ReturnBatches) /\ ReturnDrafts \subseteq ReturnDraft
    /\ \A d \in ReturnDrafts : IsFiniteSet(d.lines)
    /\ \A d \in ReturnDrafts : \A l, k \in d.lines :
         /\ l.no = k.no => l = k
         /\ \A b \in ReturnBatches :
              /\ QuarantineLot(b, l.no) \in Lots \ OpeningLots
              /\ ItemOf[QuarantineLot(b, l.no)] = l.item
              /\ Expiry[QuarantineLot(b, l.no)] >= LastDay
    /\ \A b \in ReturnBatches :
         /\ <<b, "STOCK_RETURN_DISPATCH">> \in Slots
         /\ <<b, "STOCK_RETURN_RECEIPT">> \in Slots
    /\ \E w \in Warehouses : Purpose[w] = "HQ_MAIN"
    /\ \E w \in Warehouses : Purpose[w] = "QUARANTINE"

VARIABLES
    rStatus, rVersion,
    rMaker,          \* submitted_by
    rSite,           \* source_location_id
    rLines,
    rReceipt         \* stock_return_receipt_line rows

returnVars == <<rStatus, rVersion, rMaker, rSite, rLines, rReceipt>>

ReturnSlot(b) == <<b, "STOCK_RETURN_DISPATCH">>
ReturnReceiptSlot(b) == <<b, "STOCK_RETURN_RECEIPT">>

ReturnTypeOK ==
    /\ rStatus \in [ReturnBatches -> ReturnStatuses]
    /\ rVersion \in [ReturnBatches -> Nat]
    /\ rMaker \in [ReturnBatches -> Users \cup {None}]
    /\ rSite \in [ReturnBatches -> {d.site : d \in ReturnDrafts} \cup {None}]
    /\ rLines \in [ReturnBatches -> SUBSET ReturnLine]
    /\ rReceipt \in [ReturnBatches -> SUBSET ReceiptLine]

ReturnInit ==
    /\ rStatus = [b \in ReturnBatches |-> "ABSENT"]
    /\ rVersion = [b \in ReturnBatches |-> 0]
    /\ rMaker = [b \in ReturnBatches |-> None]
    /\ rSite = [b \in ReturnBatches |-> None]
    /\ rLines = [b \in ReturnBatches |-> {}]
    /\ rReceipt = [b \in ReturnBatches |-> {}]

-----------------------------------------------------------------------------

\* resolveHqDestination: the outlet of the one HQ_MAIN warehouse.
HqSite == Site[HqMain]

\* authorizeActor and the scope check.
MayReturn(u, roles, site) == MayAct(u, roles, site)

\* The source is an outlet node of the batch's own outlet, the lot exists and is
\* of the line's item.
ReturnLineOk(site, l) ==
    /\ Site[l.wh] = site /\ Purpose[l.wh] \in {"OUTLET_STORAGE", "KITCHEN"}
    /\ lotState[l.lot] # "ABSENT" /\ ItemOf[l.lot] = l.item

\* resolveAndValidateLines: no lot twice from one warehouse, every line sound.
ReturnLinesOk(site, lines) ==
    /\ lines # {}
    /\ \A l, k \in lines : l.lot = k.lot /\ l.wh = k.wh => l = k
    /\ \A l \in lines : ReturnLineOk(site, l)

ReturnAdvances(b, from, to) ==
    /\ rStatus[b] \in from
    /\ rStatus' = [rStatus EXCEPT ![b] = to]
    /\ rVersion' = [rVersion EXCEPT ![b] = @ + 1]

CreateStockReturnDraft(b, u, d) ==
    /\ MayReturn(u, ReturnRoles, d.site) /\ d.site # HqSite
    /\ ReturnLinesOk(d.site, d.lines)
    /\ ReturnAdvances(b, {"ABSENT"}, "DRAFT")
    /\ rSite' = [rSite EXCEPT ![b] = d.site]
    /\ rLines' = [rLines EXCEPT ![b] = d.lines]
    /\ UNCHANGED <<rMaker, rReceipt, stockVars>>

UpdateStockReturnDraft(b, u, lines) ==
    /\ rVersion[b] <= MaxEdits
    /\ rStatus[b] = "DRAFT" /\ MayReturn(u, ReturnRoles, rSite[b])
    /\ ReturnLinesOk(rSite[b], lines)
    /\ rVersion' = [rVersion EXCEPT ![b] = @ + 1]
    /\ rLines' = [rLines EXCEPT ![b] = lines]
    /\ UNCHANGED <<rStatus, rMaker, rSite, rReceipt, stockVars>>

\* The stored lines are validated again: they may have drifted since the draft.
SubmitStockReturnBatch(b, u) ==
    /\ ReturnAdvances(b, {"DRAFT"}, "SUBMITTED")
    /\ MayReturn(u, ReturnRoles, rSite[b]) /\ ReturnLinesOk(rSite[b], rLines[b])
    /\ rMaker' = [rMaker EXCEPT ![b] = u]
    /\ UNCHANGED <<rSite, rLines, rReceipt, stockVars>>

ApproveStockReturnBatch(b, u) ==
    /\ ReturnAdvances(b, {"SUBMITTED"}, "APPROVED")
    /\ MayReturn(u, ReturnApproveRoles, rSite[b]) /\ u # rMaker[b]
    /\ UNCHANGED <<rMaker, rSite, rLines, rReceipt, stockVars>>

\* Unlike a transfer, an approved batch cannot be cancelled.
CancelStockReturnBatch(b, u) ==
    /\ ReturnAdvances(b, {"DRAFT", "SUBMITTED"}, "CANCELLED")
    /\ MayReturn(u, ReturnRoles, rSite[b])
    /\ UNCHANGED <<rMaker, rSite, rLines, rReceipt, stockVars>>

-----------------------------------------------------------------------------
(* dispatchStockReturnBatch                                                *)

\* Custody moves: the lot may be expired.
ReturnPlan(b) ==
    {[line |-> l.no, way |-> "OUT", wh |-> l.wh, lot |-> l.lot, qty |-> l.qty,
      policy |-> "CUSTODY_MOVE"] : l \in rLines[b]}

DispatchReturnPrepare(c, b, u) ==
    /\ rStatus[b] \in {"APPROVED", "DISPATCHED"}
    /\ MayReturn(u, ReturnRoles, rSite[b])
    /\ Prepared(c, ReturnSlot(b), ReturnPlan(b), {}, rVersion[b])
    /\ UNCHANGED <<returnVars, onHand, lotState, today, posting>>

DispatchReturnFinalize(c, b) ==
    /\ call[c].phase = "posted" /\ call[c].slot = ReturnSlot(b)
    /\ Finished(c)
    /\ IF rStatus[b] = "APPROVED" /\ rVersion[b] = call[c].version
       THEN ReturnAdvances(b, {"APPROVED"}, "DISPATCHED")
       ELSE UNCHANGED <<rStatus, rVersion>>
    /\ UNCHANGED <<rMaker, rSite, rLines, rReceipt, onHand, lotState, today, doc, posting>>

-----------------------------------------------------------------------------
(* receiveAndDisposeStockReturnBatch                                       *)

\* validateReceiptLines: exactly one reason for every line of the batch.
Dispositions(b) == [{l.no : l \in rLines[b]} -> Reasons]

\* A quarantine entry per line, and the write-off of every line whose reason
\* is not reusable.
QuarantineIn(b, l, reason) ==
    [line |-> l.no, way |-> "IN", wh |-> Quarantine, lot |-> QuarantineLot(b, l.no),
     qty |-> l.qty,
     policy |-> IF reason \in Reusable THEN "QUARANTINE_HOLD" ELSE "ALLOCATABLE"]
WriteOff(b, l) ==
    [line |-> l.no, way |-> "OUT", wh |-> Quarantine, lot |-> QuarantineLot(b, l.no),
     qty |-> l.qty, policy |-> "DISPOSITION"]
ReturnReceiptPlan(b, reason) ==
    {QuarantineIn(b, l, reason[l.no]) : l \in rLines[b]}
      \cup {WriteOff(b, l) : l \in {k \in rLines[b] : reason[k.no] \notin Reusable}}

\* ensureQuarantineLot: the lots stay, whatever becomes of the posting.
QuarantineLotsMinted(b) ==
    lotState' = [k \in Lots |->
        IF k \in {QuarantineLot(b, l.no) : l \in rLines[b]} THEN "QUARANTINED"
        ELSE lotState[k]]

ReceiveReturnPrepare(c, b, u, reason) ==
    /\ rStatus[b] \in {"DISPATCHED", "RECEIVED_DISPOSED"}
    /\ MayReturn(u, ReturnReceiveRoles, HqSite)
    /\ Prepared(c, ReturnReceiptSlot(b), ReturnReceiptPlan(b, reason), {}, rVersion[b])
    /\ QuarantineLotsMinted(b)
    /\ UNCHANGED <<returnVars, onHand, today, posting>>

\* The reason a posted plan acted on for a line.
ReasonOf(plan, no) ==
    IF \E m \in plan : m.line = no /\ m.way = "OUT" THEN "SPOILED" ELSE "OTHER"

\* ensureReceiptLine: insert, or keep the row an earlier attempt wrote.
ReceiptRows(b, plan) ==
    {[no |-> l.no, lot |-> QuarantineLot(b, l.no), qty |-> l.qty,
      reason |-> ReasonOf(plan, l.no)] : l \in rLines[b]}

\* The receipt rows and the status are written together or, when the batch
\* changed otherwise, not at all.
ReceiveReturnFinalize(c, b) ==
    /\ call[c].phase = "posted" /\ call[c].slot = ReturnReceiptSlot(b)
    /\ Finished(c)
    /\ IF rStatus[b] = "DISPATCHED" /\ rVersion[b] = call[c].version
       THEN /\ ReturnAdvances(b, {"DISPATCHED"}, "RECEIVED_DISPOSED")
            /\ rReceipt' = [rReceipt EXCEPT ![b] =
                 @ \cup {x \in ReceiptRows(b, call[c].plan) : \A y \in @ : y.no # x.no}]
       ELSE UNCHANGED <<rStatus, rVersion, rReceipt>>
    /\ UNCHANGED <<rMaker, rSite, rLines, onHand, lotState, today, doc, posting>>

-----------------------------------------------------------------------------

\* A batch up to its approval or cancellation.
ReturnDesk(b, u) ==
    \/ \E d \in ReturnDrafts :
         CreateStockReturnDraft(b, u, d) \/ UpdateStockReturnDraft(b, u, d.lines)
    \/ SubmitStockReturnBatch(b, u) \/ ApproveStockReturnBatch(b, u)
    \/ CancelStockReturnBatch(b, u)

ReturnStep(b) ==
    \/ \E u \in Users : ReturnDesk(b, u)
    \/ \E c \in Callers, u \in Users :
         \/ DispatchReturnPrepare(c, b, u)
         \/ \E reason \in Dispositions(b) : ReceiveReturnPrepare(c, b, u, reason)
    \/ \E c \in Callers : DispatchReturnFinalize(c, b) \/ ReceiveReturnFinalize(c, b)

ReturnNext == \E b \in ReturnBatches : ReturnStep(b)
=============================================================================
