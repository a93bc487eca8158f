--------------------------- MODULE CustomerOrders ---------------------------
(***************************************************************************)
(* Customer orders (customer-orders/service.ts, allocation.ts): an order   *)
(* is drafted, approved, allocated (ACTIVE allocation rows, the module's   *)
(* own reservation ledger), waits for the jobs it is linked to, is ready   *)
(* and fulfilled.  Fulfilment is a saga with up to two postings, one for   *)
(* outlet stock and one for job output.                                    *)
(***************************************************************************)
EXTENDS JobOrders, Sequences

CONSTANTS
    Orders,
    OrderDrafts      \* [site, needs] a client may enter

OrderStatuses == {"ABSENT", "DRAFT", "SUBMITTED", "APPROVED", "ALLOCATED",
                  "IN_PRODUCTION", "READY", "FULFILLED", "CANCELLED"}
OrderRoles == {"OWNER", "OUTLET_MANAGER", "WAREHOUSE_MAIN", "WAREHOUSE_OUTLET"}
OrderApproveRoles == {"OWNER", "WAREHOUSE_MAIN", "OUTLET_MANAGER"}
OrderFulfillRoles == {"OWNER", "WAREHOUSE_MAIN", "WAREHOUSE_OUTLET"}

\* A line as what it needs: a STOCKED_OUTPUT line its own item, a line with a
\* component snapshot one need per component, which may name an item twice, a
\* job-linked line its job's output.
Need == [no : Nat, item : Items, qty : Quantity, job : Jobs \cup {None}]
Allocation == [no : Nat, wh : Warehouses, lot : Lots, qty : Quantity,
               status : {"ACTIVE", "CONSUMED", "RELEASED"}]

\* What a client may send: prices, taxes and remarks are left out.
OrderDraft == [site : {Site[w] : w \in Warehouses}, needs : Seq(Need)]

ASSUME OrderAssumptions ==
    /\ None \notin Jobs /\ IsFiniteSet(Orders)
    /\ OrderDrafts \subseteq OrderDraft
    /\ \A d \in OrderDrafts :
         \A i, k \in DOMAIN d.needs : d.needs[i].no = d.needs[k].no =>
              i = k \/ (d.needs[i].job = None /\ d.needs[k].job = None)
    /\ \A o \in Orders :
         /\ <<o, "CUSTOMER_ORDER_FULFILLMENT">> \in Slots
         /\ <<o, "CUSTOMER_ORDER_JOB_OUTPUT_FULFILLMENT">> \in Slots

VARIABLES
    oStatus, oVersion,
    oMaker,          \* submitted_by
    oSite, oNeeds,
    oAlloc,          \* customer_order_allocation rows
    oShipped         \* total quantity of the customer_order_fulfillment rows

orderVars == <<oStatus, oVersion, oMaker, oSite, oNeeds, oAlloc, oShipped>>

GeneralSlot(o) == <<o, "CUSTOMER_ORDER_FULFILLMENT">>
JobOutSlot(o) == <<o, "CUSTOMER_ORDER_JOB_OUTPUT_FULFILLMENT">>

OrderTypeOK ==
    /\ oStatus \in [Orders -> OrderStatuses]
    /\ oVersion \in [Orders -> Nat]
    /\ oMaker \in [Orders -> Users \cup {None}]
    /\ oSite \in [Orders -> {d.site : d \in OrderDrafts} \cup {None}]
    /\ oNeeds \in [Orders -> {d.needs : d \in OrderDrafts} \cup {<<>>}]
    /\ oAlloc \in [Orders -> SUBSET Allocation]
    /\ oShipped \in [Orders -> Nat]

OrderInit ==
    /\ oStatus = [o \in Orders |-> "ABSENT"]
    /\ oVersion = [o \in Orders |-> 0]
    /\ oMaker = [o \in Orders |-> None]
    /\ oSite = [o \in Orders |-> None]
    /\ oNeeds = [o \in Orders |-> <<>>]
    /\ oAlloc = [o \in Orders |-> {}]
    /\ oShipped = [o \in Orders |-> 0]

-----------------------------------------------------------------------------

\* authorizeActor and the scope check.
MayServe(u, roles, site) == MayAct(u, roles, site)

\* A linked job exists, at the same outlet, and makes the line's item.
LinkOk(site, need) ==
    need.job # None => /\ jStatus[need.job] # "ABSENT" /\ jSite[need.job] = site
                       /\ bOutput[jBom[need.job][1]] = need.item

\* resolveAndValidateLines.
OrderLinesOk(site, needs) == needs # <<>> /\ \A i \in DOMAIN needs : LinkOk(site, needs[i])

OrderAdvances(o, from, to) ==
    /\ oStatus[o] \in from
    /\ oStatus' = [oStatus EXCEPT ![o] = to]
    /\ oVersion' = [oVersion EXCEPT ![o] = @ + 1]

CreateCustomerOrderDraft(o, u, d) ==
    /\ MayServe(u, OrderRoles, d.site) /\ OrderLinesOk(d.site, d.needs)
    /\ OrderAdvances(o, {"ABSENT"}, "DRAFT")
    /\ oSite' = [oSite EXCEPT ![o] = d.site]
    /\ oNeeds' = [oNeeds EXCEPT ![o] = d.needs]
    /\ UNCHANGED <<oMaker, oAlloc, oShipped, stockVars>>

UpdateCustomerOrderDraft(o, u, needs) ==
    /\ oVersion[o] <= MaxEdits
    /\ oStatus[o] = "DRAFT" /\ MayServe(u, OrderRoles, oSite[o])
    /\ OrderLinesOk(oSite[o], needs)
    /\ oVersion' = [oVersion EXCEPT ![o] = @ + 1]
    /\ oNeeds' = [oNeeds EXCEPT ![o] = needs]
    /\ UNCHANGED <<oStatus, oMaker, oSite, oAlloc, oShipped, stockVars>>

SubmitCustomerOrder(o, u) ==
    /\ OrderAdvances(o, {"DRAFT"}, "SUBMITTED") /\ MayServe(u, OrderRoles, oSite[o])
    /\ oMaker' = [oMaker EXCEPT ![o] = u]
    /\ UNCHANGED <<oSite, oNeeds, oAlloc, oShipped, stockVars>>

ApproveCustomerOrder(o, u) ==
    /\ OrderAdvances(o, {"SUBMITTED"}, "APPROVED")
    /\ MayServe(u, OrderApproveRoles, oSite[o]) /\ u # oMaker[o]
    /\ UNCHANGED <<oMaker, oSite, oNeeds, oAlloc, oShipped, stockVars>>

-----------------------------------------------------------------------------
(* Allocation                                                              *)

\* resolveOutletSourceWarehouseIds.
OutletSources(site) ==
    {w \in Warehouses : Site[w] = site /\ Purpose[w] \in {"OUTLET_STORAGE", "KITCHEN"}}

ActiveRows == UNION {{<<o, r>> : r \in {x \in oAlloc[o] : x.status = "ACTIVE"}} : o \in Orders}

\* The quantity of pairs of an order and a row or movement of it.
Units(pairs) == SumFunctionOnSet([x \in pairs |-> x[2].qty], pairs)

Held(rows, w, l) == Units({x \in rows : x[2].wh = w /\ x[2].lot = l})

\* Mutant: the rows of other orders are not subtracted.
FreeOfOwn(o, rows) ==
    [x \in Warehouses \X Lots |->
        onHand[x[1]][x[2]] - Held({y \in rows : y[1] = o}, x[1], x[2])]

\* What no ACTIVE row of any order holds of a balance, rows being all of them.
FreeFor(o, rows) ==
    [x \in Warehouses \X Lots |-> onHand[x[1]][x[2]] - Held(rows, x[1], x[2])]

SourcesOf(o, need) ==
    IF need.job = None THEN OutletSources(oSite[o]) ELSE {JobWarehouse(need.job)}

\* selectFefoAllocationPortions: every lot of the item that may leave and of
\* which something is free.
OrderCandidates(o, need, free) ==
    {x \in Warehouses \X Lots :
       x[1] \in SourcesOf(o, need) /\ x[2] \in Plannable(need.item, x[1]) /\ free[x] > 0}

\* customer_order_allocation_line_lot_active_unique: a line holds a lot by one
\* row, whichever warehouse and component it is for.
OneRowPerLot(portions, need, rows) ==
    \A p \in portions :
        /\ \A q \in portions : q.lot = p.lot => q = p
        /\ \A r \in rows : r.no = need.no => r.lot # p.lot

\* One need more: its rows, seeing those the same transaction wrote before.
Allocate(o, done, need) ==
    LET free == FreeFor(o, ActiveRows \cup {<<o, r>> : r \in done.rows})
        cand == OrderCandidates(o, need, free)
        portions == Portions(cand, free, need.qty) IN
    [ok |-> /\ done.ok /\ Covers(cand, free, need.qty)
            /\ OneRowPerLot(portions, need, done.rows),
     rows |-> done.rows \cup
       {[no |-> need.no, wh |-> p.wh, lot |-> p.lot, qty |-> p.qty, status |-> "ACTIVE"] :
          p \in portions}]

\* The needs at the places in wanted, in their order.
AllocateAll(o, wanted) ==
    LET upto[k \in 0..Len(oNeeds[o])] ==
          IF k = 0 THEN [ok |-> TRUE, rows |-> {}]
          ELSE IF k \in wanted THEN Allocate(o, upto[k - 1], oNeeds[o][k])
          ELSE upto[k - 1]
    IN upto[Len(oNeeds[o])]

\* A job-linked need waits until its job is completed and has an output row.
JobReady(need) == need.job # None /\ jStatus[need.job] = "COMPLETED" /\ jEvidence[need.job] # 0
Allocated(o, no) == \E r \in oAlloc[o] : r.no = no /\ r.status = "ACTIVE"

AllocateCustomerOrder(o, u) ==
    LET now == {i \in DOMAIN oNeeds[o] : oNeeds[o][i].job = None \/ JobReady(oNeeds[o][i])}
        got == AllocateAll(o, now) IN
    /\ OrderAdvances(o, {"APPROVED"}, "ALLOCATED")
    /\ MayServe(u, OrderFulfillRoles, oSite[o])
    /\ got.ok
    /\ oAlloc' = [oAlloc EXCEPT ![o] = @ \cup got.rows]
    /\ UNCHANGED <<oMaker, oSite, oNeeds, oShipped, stockVars>>

MarkCustomerOrderInProduction(o, u) ==
    /\ OrderAdvances(o, {"ALLOCATED"}, "IN_PRODUCTION")
    /\ MayServe(u, OrderFulfillRoles, oSite[o])
    /\ \E i \in DOMAIN oNeeds[o] : oNeeds[o][i].job # None
    /\ UNCHANGED <<oMaker, oSite, oNeeds, oAlloc, oShipped, stockVars>>

\* Every line has its rows, or is job-linked and gets them now.
MarkCustomerOrderReady(o, u) ==
    LET late == {i \in DOMAIN oNeeds[o] : ~Allocated(o, oNeeds[o][i].no)}
        got == AllocateAll(o, late) IN
    /\ OrderAdvances(o, {"ALLOCATED", "IN_PRODUCTION"}, "READY")
    /\ MayServe(u, OrderFulfillRoles, oSite[o])
    /\ \A i \in late : JobReady(oNeeds[o][i])
    /\ got.ok
    /\ oAlloc' = [oAlloc EXCEPT ![o] = @ \cup got.rows]
    /\ UNCHANGED <<oMaker, oSite, oNeeds, oShipped, stockVars>>

\* releaseActiveAllocationsForLines.
Released(rows) == {[r EXCEPT !.status = IF @ = "ACTIVE" THEN "RELEASED" ELSE @] : r \in rows}

CancelCustomerOrder(o, u) ==
    /\ OrderAdvances(o, OrderStatuses \ {"ABSENT", "FULFILLED", "CANCELLED"}, "CANCELLED")
    /\ MayServe(u, OrderRoles, oSite[o])
    /\ oAlloc' = [oAlloc EXCEPT ![o] = Released(@)]
    /\ UNCHANGED <<oMaker, oSite, oNeeds, oShipped, stockVars>>

-----------------------------------------------------------------------------
(* fulfillCustomerOrder                                                    *)

JobLinked(o, no) == \E i \in DOMAIN oNeeds[o] : oNeeds[o][i].no = no /\ oNeeds[o][i].job # None

ShipMove(r) ==
    [line |-> r.no, way |-> "OUT", wh |-> r.wh, lot |-> r.lot, qty |-> r.qty,
     policy |-> "ALLOCATABLE"]
ShipPlan(o, status, linked) ==
    {ShipMove(r) : r \in {x \in oAlloc[o] : x.status = status /\ JobLinked(o, x.no) = linked}}

\* The postings of an order, outlet stock first; only what is not empty.
FulfillPrepare(c, o, u) ==
    LET general == ShipPlan(o, "ACTIVE", FALSE)
        jobOut == ShipPlan(o, "ACTIVE", TRUE) IN
    /\ oStatus[o] = "READY" /\ MayServe(u, OrderFulfillRoles, oSite[o])
    /\ \/ /\ general # {}
          /\ Prepared(c, GeneralSlot(o), general,
                      IF jobOut = {} THEN {} ELSE {<<JobOutSlot(o), jobOut>>}, oVersion[o])
       \/ /\ general = {} /\ jobOut # {}
          /\ Prepared(c, JobOutSlot(o), jobOut, {}, oVersion[o])
    /\ UNCHANGED <<orderVars, onHand, lotState, today, posting>>

\* The first posting is made, the second is next.
FulfillContinue(c) ==
    /\ call[c].phase = "posted"
    /\ \E t \in call[c].rest :
         call' = [call EXCEPT ![c] =
           [slot |-> t.slot, id |-> t.id, plan |-> t.plan, rest |-> call[c].rest \ {t},
            done |-> Tasks(c) \ call[c].rest, version |-> call[c].version,
            phase |-> "prepared"]]
    /\ UNCHANGED <<orderVars, onHand, lotState, today, doc, posting>>

Posted(c) == UNION {t.plan : t \in Tasks(c)}

\* Mutant: the allocations of the last posting only.
ConsumedLast(o, c) == {r \in oAlloc[o] : r.status = "ACTIVE" /\ ShipMove(r) \in call[c].plan}
Consumed(o, c) == {r \in oAlloc[o] : r.status = "ACTIVE" /\ ShipMove(r) \in Posted(c)}

\* A fulfilment row for each allocation that this request consumes.
Shipped(o, c) == oShipped[o] + QtyOf(Consumed(o, c))

\* Allocations, history and status change together, or not at all when the
\* order is no longer as it was prepared.
FulfillFinalize(c, o) ==
    /\ call[c].phase = "posted" /\ call[c].rest = {}
    /\ call[c].slot \in {GeneralSlot(o), JobOutSlot(o)}
    /\ Finished(c)
    /\ IF oStatus[o] = "READY" /\ oVersion[o] = call[c].version
       THEN /\ OrderAdvances(o, {"READY"}, "FULFILLED")
            /\ oAlloc' = [oAlloc EXCEPT ![o] =
                 {IF r \in Consumed(o, c) THEN [r EXCEPT !.status = "CONSUMED"] ELSE r : r \in @}]
            /\ oShipped' = [oShipped EXCEPT ![o] = Shipped(o, c)]
       ELSE UNCHANGED <<oStatus, oVersion, oAlloc, oShipped>>
    /\ UNCHANGED <<oMaker, oSite, oNeeds, onHand, lotState, today, doc, posting>>

-----------------------------------------------------------------------------

\* An order up to its approval.
OrderDesk(o, u) ==
    \/ \E d \in OrderDrafts :
         CreateCustomerOrderDraft(o, u, d) \/ UpdateCustomerOrderDraft(o, u, d.needs)
    \/ SubmitCustomerOrder(o, u) \/ ApproveCustomerOrder(o, u)

OrderStep(o) ==
    \/ \E u \in Users :
         \/ OrderDesk(o, u)
         \/ AllocateCustomerOrder(o, u) \/ MarkCustomerOrderInProduction(o, u)
         \/ MarkCustomerOrderReady(o, u) \/ CancelCustomerOrder(o, u)
         \/ \E c \in Callers : FulfillPrepare(c, o, u)
    \/ \E c \in Callers : FulfillFinalize(c, o)

OrderNext == (\E o \in Orders : OrderStep(o)) \/ \E c \in Callers : FulfillContinue(c)
=============================================================================
