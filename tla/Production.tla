----------------------------- MODULE Production -----------------------------
(***************************************************************************)
(* Bills of materials, job orders and customer orders at work on one stock *)
(* ledger.                                                                 *)
(***************************************************************************)
EXTENDS CustomerOrders

productionVars == <<stockVars, bomVars, jobVars, orderVars>>

ProductionInit == StockInit /\ BomInit /\ JobInit /\ OrderInit

\* Only the fulfilment of customer orders removes the documents it ensured.
FulfillCompensate(c) ==
    /\ \E o \in Orders : call[c].slot \in {GeneralSlot(o), JobOutSlot(o)}
    /\ Compensate(c)

ProductionNext ==
    \/ (PostingNext \/ \E c \in Callers : FulfillCompensate(c))
         /\ UNCHANGED <<bomVars, jobVars, orderVars>>
    \/ BomNext /\ UNCHANGED <<jobVars, orderVars>>
    \/ JobNext /\ UNCHANGED orderVars
    \/ OrderNext /\ UNCHANGED <<bomVars, jobVars>>

ProductionSpec == ProductionInit /\ [][ProductionNext]_productionVars

-----------------------------------------------------------------------------
(* Properties                                                              *)

ProductionTypeOK == StockTypeOK /\ BomTypeOK /\ JobTypeOK /\ OrderTypeOK

LiveEdges ==
    UNION {{<<bOutput[v[1]], x.item>> : x \in bParts[v]} :
             v \in {w \in Versions : bStatus[w] \in {"ACTIVE", "DRAFT"}}}

\* The bills of materials in use or in preparation never need, at any depth,
\* what they make, and a header has one active version, in whatever order
\* drafts are filled, activated and retired.
NothingMakesItself ==
    /\ \A i \in Items : i \notin Reach(LiveEdges, i, Cardinality(Items))
    /\ \A v, w \in Versions :
         bStatus[v] = "ACTIVE" /\ bStatus[w] = "ACTIVE" /\ v[1] = w[1] => v = w

\* A job that has been started consumed exactly the lots its rows name, a
\* completed one brought exactly the quantity it reports, and output is never
\* posted for a job whose components were not taken: after crashes, lost
\* answers, replans and with the job cancelled or failed on the way.
JobsBackedByPosting ==
    \A j \in Jobs :
        /\ jStatus[j] \in {"IN_PROGRESS", "COMPLETED", "FAILED"} =>
             posting[ConsumeSlot(j)] =
               {ConsumeMove(l.no, [wh |-> JobWarehouse(j), lot |-> l.lot, qty |-> l.qty]) :
                  l \in jLines[j]}
        /\ jStatus[j] = "COMPLETED" => posting[OutputSlot(j)] = {OutputMove(j, jActual[j])}
        /\ posting[OutputSlot(j)] # {} => posting[ConsumeSlot(j)] # {}

\* A fulfilled order shipped its allocations, each once, in the two postings
\* together; an order that is not keeps its allocations unconsumed, and the
\* half that is posted already is what a retry of a ready order will ask for.
OrdersBackedByPosting ==
    \A o \in Orders :
        /\ oStatus[o] = "FULFILLED" =>
             /\ posting[GeneralSlot(o)] = ShipPlan(o, "CONSUMED", FALSE)
             /\ posting[JobOutSlot(o)] = ShipPlan(o, "CONSUMED", TRUE)
             /\ oShipped[o] = QtyOf(oAlloc[o])
        /\ oStatus[o] # "FULFILLED" =>
             oShipped[o] = 0 /\ \A r \in oAlloc[o] : r.status # "CONSUMED"
        /\ oStatus[o] = "READY" =>
             /\ posting[GeneralSlot(o)] \in {{}, ShipPlan(o, "ACTIVE", FALSE)}
             /\ posting[JobOutSlot(o)] \in {{}, ShipPlan(o, "ACTIVE", TRUE)}

\* What an order has taken or still holds.
Claims(o) ==
    posting[GeneralSlot(o)] \cup posting[JobOutSlot(o)]
      \cup {ShipMove(r) : r \in {x \in oAlloc[o] : x.status = "ACTIVE"}}

\* No unit is promised twice: of every balance the orders that stand together
\* hold and have shipped at most what was there and what the jobs brought,
\* whatever is allocated, released and shipped in between.
PromisedOnce ==
    \A w \in Warehouses, l \in Lots :
        LET standing == {o \in Orders : oStatus[o] # "CANCELLED"}
            claims == UNION {{<<o, m>> : m \in Claims(o)} : o \in standing}
            made == UNION {posting[OutputSlot(j)] : j \in Jobs} IN
        Held(claims, w, l) <= InitStock[w][l] + Moved(made, "IN", w, l)
=============================================================================
