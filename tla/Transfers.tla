------------------------------ MODULE Transfers ------------------------------
(***************************************************************************)
(* HQ transfer orders (transfers/service.ts): draft, submit, approve,      *)
(* dispatch (stock leaves the source), receive (stock enters the           *)
(* destination), cancel.  Dispatch and receive are sagas of StockPosting.  *)
(* A handler that is not a saga is one transaction under the order's row   *)
(* lock; a call with a stale version is refused and is no step.            *)
(***************************************************************************)
EXTENDS StockPosting

CONSTANTS
    TransferOrders,
    TransferDrafts   \* [from, to, lines] a client may enter

TransferStatuses == {"ABSENT", "DRAFT", "SUBMITTED", "APPROVED", "DISPATCHED",
                     "RECEIVED", "CANCELLED"}
TransferRoles == {"OWNER", "WAREHOUSE_MAIN", "OUTLET_MANAGER", "WAREHOUSE_OUTLET"}
TransferApproveRoles == {"OWNER", "WAREHOUSE_MAIN", "OUTLET_MANAGER"}

\* A transfer_order_line: its lot is pinned by the draft or by the dispatch.
TransferLine == [no : Nat, item : Items, lot : Lots \cup {None}, qty : Quantity,
                 sent : 0..MaxQty, got : 0..MaxQty]

\* What a client may send: the quantities and units of the lines are checked,
\* what was sent and received is not the client's to say.
TransferDraft == [from : Warehouses, to : Warehouses, lines : SUBSET TransferLine]

ASSUME TransferAssumptions ==
    /\ TransferDrafts \subseteq TransferDraft
    /\ \A d \in TransferDrafts : IsFiniteSet(d.lines)
    /\ \A d \in TransferDrafts : \A l, k \in d.lines :
         l.sent = 0 /\ l.got = 0 /\ (l.no = k.no => l = k)
    /\ \A o \in TransferOrders :
         /\ <<o, "TRANSFER_ORDER_DISPATCH">> \in Slots
         /\ <<o, "TRANSFER_ORDER_RECEIPT">> \in Slots

VARIABLES
    tStatus, tVersion,
    tMaker,          \* requested_by
    tFrom, tTo,
    tLines

transferVars == <<tStatus, tVersion, tMaker, tFrom, tTo, tLines>>

DispatchSlot(o) == <<o, "TRANSFER_ORDER_DISPATCH">>
ReceiptSlot(o) == <<o, "TRANSFER_ORDER_RECEIPT">>

TransferTypeOK ==
    /\ tStatus \in [TransferOrders -> TransferStatuses]
    /\ tVersion \in [TransferOrders -> Nat]
    /\ tMaker \in [TransferOrders -> Users \cup {None}]
    /\ tFrom \in [TransferOrders -> Warehouses \cup {None}]
    /\ tTo \in [TransferOrders -> Warehouses \cup {None}]
    /\ tLines \in [TransferOrders -> SUBSET TransferLine]

TransferInit ==
    /\ tStatus = [o \in TransferOrders |-> "ABSENT"]
    /\ tVersion = [o \in TransferOrders |-> 0]
    /\ tMaker = [o \in TransferOrders |-> None]
    /\ tFrom = [o \in TransferOrders |-> None]
    /\ tTo = [o \in TransferOrders |-> None]
    /\ tLines = [o \in TransferOrders |-> {}]

-----------------------------------------------------------------------------

\* authorizeActor and the scope check, for the outlet of warehouse w.
MayTransfer(u, roles, w) == MayAct(u, roles, Site[w])

TransferRoutes ==
    {<<"HQ_MAIN", "OUTLET_STORAGE">>, <<"HQ_MAIN", "PRODUCTION">>,
     <<"PRODUCTION", "HQ_MAIN">>, <<"PRODUCTION", "OUTLET_STORAGE">>}

\* resolveHeaderRoute.
TransferRouteOk(from, to) ==
    from # to /\ <<Purpose[from], Purpose[to]>> \in TransferRoutes

\* resolveAndValidateLines: at least one line, no lot pinned twice, a pinned
\* lot exists and is of the line's item.
TransferLinesOk(lines) ==
    /\ lines # {}
    /\ \A l, k \in lines : l.lot # None /\ l.lot = k.lot => l = k
    /\ \A l \in lines : l.lot # None =>
         lotState[l.lot] # "ABSENT" /\ ItemOf[l.lot] = l.item

TransferAdvances(o, from, to) ==
    /\ tStatus[o] \in from
    /\ tStatus' = [tStatus EXCEPT ![o] = to]
    /\ tVersion' = [tVersion EXCEPT ![o] = @ + 1]

CreateTransferOrderDraft(o, u, d) ==
    /\ MayTransfer(u, TransferRoles, d.from)
    /\ TransferRouteOk(d.from, d.to) /\ TransferLinesOk(d.lines)
    /\ TransferAdvances(o, {"ABSENT"}, "DRAFT")
    /\ tFrom' = [tFrom EXCEPT ![o] = d.from]
    /\ tTo' = [tTo EXCEPT ![o] = d.to]
    /\ tLines' = [tLines EXCEPT ![o] = d.lines]
    /\ UNCHANGED <<tMaker, stockVars>>

UpdateTransferOrderDraft(o, u, lines) ==
    /\ tVersion[o] <= MaxEdits
    /\ tStatus[o] = "DRAFT" /\ MayTransfer(u, TransferRoles, tFrom[o])
    /\ TransferLinesOk(lines)
    /\ tVersion' = [tVersion EXCEPT ![o] = @ + 1]
    /\ tLines' = [tLines EXCEPT ![o] = lines]
    /\ UNCHANGED <<tStatus, tMaker, tFrom, tTo, stockVars>>

SubmitTransferOrder(o, u) ==
    /\ TransferAdvances(o, {"DRAFT"}, "SUBMITTED")
    /\ MayTransfer(u, TransferRoles, tFrom[o])
    /\ TransferRouteOk(tFrom[o], tTo[o])
    /\ tMaker' = [tMaker EXCEPT ![o] = u]
    /\ UNCHANGED <<tFrom, tTo, tLines, stockVars>>

\* Segregation of duties: the submitter may not approve.
ApproveTransferOrder(o, u) ==
    /\ TransferAdvances(o, {"SUBMITTED"}, "APPROVED")
    /\ MayTransfer(u, TransferApproveRoles, tFrom[o]) /\ u # tMaker[o]
    /\ UNCHANGED <<tMaker, tFrom, tTo, tLines, stockVars>>

CancelTransferOrder(o, u) ==
    /\ TransferAdvances(o, {"DRAFT", "SUBMITTED", "APPROVED"}, "CANCELLED")
    /\ MayTransfer(u, TransferRoles, tFrom[o])
    /\ UNCHANGED <<tMaker, tFrom, tTo, tLines, stockVars>>

-----------------------------------------------------------------------------
(* dispatchTransferOrder                                                   *)

\* selectFefoLot: one lot must cover the whole line; lines are planned one by
\* one, each against the balances as they are.
CoveringLots(l, w) == {k \in Plannable(l.item, w) : onHand[w][k] >= l.qty}

\* Mutant: the pinned lot is ignored.
LotForSoonest(l, w) == Soonest(CoveringLots(l, w))
LotFor(l, w) == IF l.lot # None THEN l.lot ELSE Soonest(CoveringLots(l, w))

DispatchMove(l, w, lot) ==
    [line |-> l.no, way |-> "OUT", wh |-> w, lot |-> lot, qty |-> l.qty,
     policy |-> "ALLOCATABLE"]

DispatchPlan(o) == {DispatchMove(l, tFrom[o], LotFor(l, tFrom[o])) : l \in tLines[o]}

DispatchTransferPrepare(c, o, u) ==
    /\ tStatus[o] \in {"APPROVED", "DISPATCHED"}
    /\ MayTransfer(u, TransferRoles, tFrom[o])
    /\ \A l \in tLines[o] : l.lot # None \/ CoveringLots(l, tFrom[o]) # {}
    /\ Prepared(c, DispatchSlot(o), DispatchPlan(o), {}, tVersion[o])
    /\ UNCHANGED <<transferVars, onHand, lotState, today, posting>>

\* Mutant: the lot of any movement.
LotOfAny(plan, no) == (CHOOSE m \in plan : m.line # no \/ Cardinality(plan) = 1).lot
\* The lot the posting took for a line.
LotOfLine(plan, no) == (CHOOSE m \in plan : m.line = no).lot

\* An order that is DISPATCHED already is returned as it stands; one that
\* changed otherwise rolls the transaction back.
DispatchTransferFinalize(c, o) ==
    LET plan == call[c].plan IN
    /\ call[c].phase = "posted" /\ call[c].slot = DispatchSlot(o)
    /\ Finished(c)
    /\ IF tStatus[o] = "APPROVED" /\ tVersion[o] = call[c].version /\ DocumentStands(c)
       THEN /\ TransferAdvances(o, {"APPROVED"}, "DISPATCHED")
            /\ tLines' = [tLines EXCEPT ![o] =
                 {IF l.sent = 0 THEN [l EXCEPT !.lot = LotOfLine(plan, l.no), !.sent = l.qty]
                  ELSE l : l \in @}]
       ELSE UNCHANGED <<tStatus, tVersion, tLines>>
    /\ UNCHANGED <<tMaker, tFrom, tTo, onHand, lotState, today, doc, posting>>

-----------------------------------------------------------------------------
(* receiveTransferOrder                                                    *)

\* Mutant: more than was dispatched may be entered.
ReceiptsUnbounded(lines) == [{l.no : l \in lines} -> Quantity]

\* The quantities a receiver may enter: less than dispatched is a shortage.
Receipts(lines) ==
    {f \in [{l.no : l \in lines} -> Quantity] : \A l \in lines : f[l.no] <= l.sent}

ReceiptMove(l, w, q) ==
    [line |-> l.no, way |-> "IN", wh |-> w, lot |-> l.lot, qty |-> q,
     policy |-> "ALLOCATABLE"]

ReceiptPlan(o, got) == {ReceiptMove(l, tTo[o], got[l.no]) : l \in tLines[o]}

ReceiveTransferPrepare(c, o, u, got) ==
    /\ tStatus[o] \in {"DISPATCHED", "RECEIVED"}
    /\ MayTransfer(u, TransferRoles, tTo[o])
    /\ \A l \in tLines[o] : l.sent # 0
    /\ Prepared(c, ReceiptSlot(o), ReceiptPlan(o, got), {}, tVersion[o])
    /\ UNCHANGED <<transferVars, onHand, lotState, today, posting>>

ReceiveTransferFinalize(c, o) ==
    LET plan == call[c].plan IN
    /\ call[c].phase = "posted" /\ call[c].slot = ReceiptSlot(o)
    /\ Finished(c)
    /\ IF tStatus[o] = "DISPATCHED" /\ tVersion[o] = call[c].version /\ DocumentStands(c)
       THEN /\ TransferAdvances(o, {"DISPATCHED"}, "RECEIVED")
            /\ tLines' = [tLines EXCEPT ![o] =
                 {IF l.got = 0
                  THEN [l EXCEPT !.got = (CHOOSE m \in plan : m.line = l.no).qty]
                  ELSE l : l \in @}]
       ELSE UNCHANGED <<tStatus, tVersion, tLines>>
    /\ UNCHANGED <<tMaker, tFrom, tTo, onHand, lotState, today, doc, posting>>

-----------------------------------------------------------------------------

\* An order up to its approval.
TransferDesk(o, u) ==
    \/ \E d \in TransferDrafts :
         CreateTransferOrderDraft(o, u, d) \/ UpdateTransferOrderDraft(o, u, d.lines)
    \/ SubmitTransferOrder(o, u) \/ ApproveTransferOrder(o, u)

TransferStep(o) ==
    \/ \E u \in Users : TransferDesk(o, u) \/ CancelTransferOrder(o, u)
    \/ \E c \in Callers, u \in Users :
         \/ DispatchTransferPrepare(c, o, u)
         \/ \E got \in Receipts(tLines[o]) : ReceiveTransferPrepare(c, o, u, got)
    \/ \E c \in Callers : DispatchTransferFinalize(c, o) \/ ReceiveTransferFinalize(c, o)

TransferNext == \E o \in TransferOrders : TransferStep(o)
=============================================================================
