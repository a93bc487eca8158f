----------------------------- MODULE Purchasing -----------------------------
(***************************************************************************)
(* Purchase requests, purchase orders and their receipts                   *)
(* (purchasing/routes.ts), on the outlets' inventory.  A status change is  *)
(* one conditional update.  A receipt is a handler of two steps: it reads  *)
(* the order and its lines, and files the report in a transaction under    *)
(* the order's row lock; others may receive, and it may die, in between.   *)
(* The budget warning a submission may be answered with changes nothing    *)
(* and is left out.                                                        *)
(***************************************************************************)
EXTENDS OutletInventory

CONSTANTS
    Requests,
    RequestFor,     \* the request an order is raised for, or None
    OrderOf, ItemFor, Ordered,   \* order, ingredient and amount of an order line
    Receipts,       \* receipts a client may enter: sequences of [key, qty]
    Callers         \* receipts in flight

ASSUME PurchasingAssumptions ==
    /\ RequestFor \in [Orders -> Requests \cup {None}]
    /\ OrderOf \in [LineIds -> Orders]
    /\ ItemFor \in [LineIds -> Ingredients]
    /\ Ordered \in [LineIds -> Nat \ {0}]
    /\ Receipts \subseteq Seq([key : LineIds, qty : Nat \ {0}])
    /\ None \notin Requests

VARIABLES
    prStatus,
    poStatus,
    got,       \* purchase_order_line.qty_received
    receipt    \* the receipts in flight

purchasingVars == <<prStatus, poStatus, got, receipt>>
vars == <<inventoryVars, purchasingVars>>

NoReceipt == [po |-> None, by |-> None, at |-> None, lines |-> <<>>]
InFlight == [po : Orders, by : Users, at : Outlets, lines : Seq(Line)] \cup {NoReceipt}

PurchasingTypeOK ==
    /\ InventoryTypeOK
    /\ prStatus \in [Requests -> {"ABSENT", "DRAFT", "SUBMITTED", "APPROVED", "REJECTED"}]
    /\ poStatus \in [Orders -> {"ABSENT", "DRAFT", "SENT", "PARTIAL", "RECEIVED"}]
    /\ got \in [LineIds -> Nat]
    /\ receipt \in [Callers -> InFlight]

Init ==
    /\ InventoryInit
    /\ prStatus = [r \in Requests |-> "ABSENT"]
    /\ poStatus = [p \in Orders |-> "ABSENT"]
    /\ got = [l \in LineIds |-> 0]
    /\ receipt = [c \in Callers |-> NoReceipt]

REQUESTER_ROLES == {"OWNER", "PURCHASING", "WAREHOUSE_OUTLET", "KITCHEN_CREW"}
APPROVER_ROLES == {"OWNER"}
PO_ROLES == {"OWNER", "PURCHASING"}
RECEIVE_ROLES == {"OWNER", "WAREHOUSE_OUTLET"}

-----------------------------------------------------------------------------
(* Purchase requests.  A request is named by its client_request_id: a      *)
(* repeated create is answered with the request there is.                  *)

CreatePurchaseRequest(r, u) ==
    /\ HasRole(u, REQUESTER_ROLES)
    /\ prStatus[r] = "ABSENT"
    /\ prStatus' = [prStatus EXCEPT ![r] = "DRAFT"]
    /\ UNCHANGED <<inventoryVars, poStatus, got, receipt>>

SubmitPurchaseRequest(r, u) ==
    /\ HasRole(u, REQUESTER_ROLES)
    /\ prStatus[r] = "DRAFT"
    /\ prStatus' = [prStatus EXCEPT ![r] = "SUBMITTED"]
    /\ UNCHANGED <<inventoryVars, poStatus, got, receipt>>

\* Mutant: the status read before is trusted in the update.
TransitionFromAny(r, u, to) ==
    /\ HasRole(u, APPROVER_ROLES)
    /\ prStatus[r] \in {"SUBMITTED", "APPROVED", "REJECTED"}
    /\ prStatus' = [prStatus EXCEPT ![r] = to]
    /\ UNCHANGED <<inventoryVars, poStatus, got, receipt>>

\* prTransition: approve and reject.
Transition(r, u, to) ==
    /\ HasRole(u, APPROVER_ROLES)
    /\ prStatus[r] = "SUBMITTED"
    /\ prStatus' = [prStatus EXCEPT ![r] = to]
    /\ UNCHANGED <<inventoryVars, poStatus, got, receipt>>

-----------------------------------------------------------------------------
(* Purchase orders.                                                        *)

CreatePurchaseOrder(p, u) ==
    /\ HasRole(u, PO_ROLES)
    /\ RequestFor[p] # None => prStatus[RequestFor[p]] = "APPROVED"
    /\ poStatus[p] = "ABSENT"
    /\ poStatus' = [poStatus EXCEPT ![p] = "DRAFT"]
    /\ UNCHANGED <<inventoryVars, prStatus, got, receipt>>

SendPurchaseOrder(p, u) ==
    /\ HasRole(u, PO_ROLES)
    /\ poStatus[p] = "DRAFT"
    /\ poStatus' = [poStatus EXCEPT ![p] = "SENT"]
    /\ UNCHANGED <<inventoryVars, prStatus, got, receipt>>

-----------------------------------------------------------------------------
(* POST /purchase-orders/:id/receive                                       *)

\* Each line of the receipt is held against what its order line still lacks;
\* two lines of a receipt may name the same order line.
NothingOver(lines) ==
    \A n \in DOMAIN lines : lines[n].qty <= Ordered[lines[n].key] - got[lines[n].key]

WithItems(lines) ==
    [n \in DOMAIN lines |-> [key |-> lines[n].key, item |-> ItemFor[lines[n].key],
                             qty |-> lines[n].qty]]

\* resolveRequestLocationId: the outlet selected, or the receiver's only one.
ReceivesAt(u, o) == InScope(u, o)

\* The checks before the transaction; the outlet is the receiver's.
ReceiveRead(c, p, u, o, lines) ==
    /\ receipt[c] = NoReceipt
    /\ HasRole(u, RECEIVE_ROLES) /\ ReceivesAt(u, o)
    /\ poStatus[p] \in {"SENT", "PARTIAL"}
    /\ \A n \in DOMAIN lines : OrderOf[lines[n].key] = p
    /\ NothingOver(lines)
    /\ receipt' = [receipt EXCEPT ![c] = [po |-> p, by |-> u, at |-> o,
                                          lines |-> WithItems(lines)]]
    /\ UNCHANGED <<inventoryVars, prStatus, poStatus, got>>

Received(lines, l) ==
    SumFunctionOnSet([n \in DOMAIN lines |-> lines[n].qty],
                     {n \in DOMAIN lines : lines[n].key = l})

\* Mutant: the lines as they were before this receipt.
CompleteBefore(p, after) == \A l \in LineIds : OrderOf[l] = p => got[l] >= Ordered[l]
Complete(p, after) == \A l \in LineIds : OrderOf[l] = p => after[l] >= Ordered[l]

ReceiveFiles(c) ==
    LET x == receipt[c]
        r == NewReport(x.po, None, Main(x.at), x.by, x.lines)
        after == [l \in LineIds |-> IF l \in Keys(x.lines) THEN got[l] + Received(x.lines, l)
                                    ELSE got[l]] IN
    /\ x # NoReceipt
    /\ ~Duplicate(r) /\ NothingOver(x.lines)
    /\ FileReport(r)
    /\ got' = after
    /\ poStatus' = [poStatus EXCEPT ![x.po] =
                      IF Complete(x.po, after) THEN "RECEIVED" ELSE "PARTIAL"]
    /\ receipt' = [receipt EXCEPT ![c] = NoReceipt]
    /\ UNCHANGED <<ito, adj, prStatus>>

\* A duplicate is answered with the report there is, an excess is refused, or
\* the call dies.
ReceiveEnds(c) ==
    /\ receipt[c] # NoReceipt
    /\ receipt' = [receipt EXCEPT ![c] = NoReceipt]
    /\ UNCHANGED <<inventoryVars, prStatus, poStatus, got>>

-----------------------------------------------------------------------------

PurchasingStep(u) ==
    \/ \E r \in Requests :
         \/ CreatePurchaseRequest(r, u) \/ SubmitPurchaseRequest(r, u)
         \/ Transition(r, u, "APPROVED") \/ Transition(r, u, "REJECTED")
    \/ \E p \in Orders :
         \/ CreatePurchaseOrder(p, u) \/ SendPurchaseOrder(p, u)
         \/ \E c \in Callers, o \in Outlets, d \in Receipts : ReceiveRead(c, p, u, o, d)

PurchasingNext ==
    \/ \E u \in Users : PurchasingStep(u)
    \/ \E c \in Callers : ReceiveFiles(c) \/ ReceiveEnds(c)

Next ==
    \/ PurchasingNext
    \/ InventoryNext /\ UNCHANGED purchasingVars

Spec == Init /\ [][Next]_vars

-----------------------------------------------------------------------------
(* Properties                                                              *)

\* What the documents say of a balance: the reports filed into it, the ITOs
\* confirmed out of and into it, the adjustments approved on it.
Reported(w, i) ==
    SumFunctionOnSet([n \in DOMAIN reports |-> Total(reports[n].lines, i)],
                     {n \in DOMAIN reports : reports[n].wh = w})
Transferred(w, i) ==
    SumFunctionOnSet([t \in Itos |-> IF w[2] = "MAIN" THEN 0 - Total(ito[t].lines, i)
                                     ELSE Total(ito[t].lines, i)],
                     {t \in Itos : ito[t].status = "CONFIRMED" /\ ito[t].at = w[1]})
Adjusted(w, i) ==
    SumFunctionOnSet([a \in Adjustments |-> Signed(a)],
                     {a \in Adjustments : /\ adj[a].status = "APPROVED"
                                          /\ adj[a].wh = w /\ adj[a].item = i})

\* Every document moves a balance exactly once, however often its handlers are
\* called and whoever else is at it: the balance is the opening balance and
\* the documents.  Where MAIN has no row for an ingredient the confirmation of
\* an ITO takes nothing from it, so such a balance is left out.
DocumentsAppliedOnce ==
    \A w \in Warehouses, i \in Ingredients :
        <<w, i>> \in OpeningRows \/ w[2] = "KITCHEN" =>
            stock[w][i] = Opening[w][i] + Reported(w, i) + Transferred(w, i) + Adjusted(w, i)

EntriesOf(module, d) == {e \in ledger : e.module = module /\ e.doc = d}

\* The ledger tells which documents took effect: a line of every report filed,
\* both sides of an ITO exactly when it is confirmed, an adjustment exactly
\* when it is approved; a decision that lost the race leaves no entry.
LedgerTellsDocuments ==
    /\ \A e \in ledger : e.module = "RECEIVE" => e.doc \in DOMAIN reports
    /\ \A n \in DOMAIN reports :
         {e.key : e \in EntriesOf("RECEIVE", n)} = Keys(reports[n].lines)
    /\ \A t \in Itos :
         {<<e.way, e.key>> : e \in EntriesOf("ITO", t)} =
            IF ito[t].status = "CONFIRMED" THEN {"IN", "OUT"} \X Keys(ito[t].lines) ELSE {}
    /\ \A a \in Adjustments :
         EntriesOf("ADJUSTMENT", a) # {} <=> adj[a].status = "APPROVED"

\* A double click or a retry does not receive twice (receive-dedupe.ts): where
\* two reports of one scope say the same within the lookback window, the later
\* one was filed after LookbackLimit (in the code: five) others of that scope,
\* newer than the first, had pushed it out of the candidates the lookback reads.
NoDoubleReceipt ==
    \A m, n \in DOMAIN reports :
        /\ m < n /\ reports[m].fresh /\ reports[n].fresh
        /\ SameScope(reports[n], reports[m]) /\ SameLines(reports[n].lines, reports[m].lines)
        => Cardinality({k \in (m + 1)..(n - 1) : SameScope(reports[n], reports[k])})
             >= LookbackLimit

HasReport(p) == \E n \in DOMAIN reports : reports[n].po = p

\* The status of an order agrees with its lines under concurrent receipts:
\* nothing filed before the order is SENT, PARTIAL while a line lacks
\* something, RECEIVED once none does.
PoStatusMatchesLines ==
    \A p \in Orders :
        /\ HasReport(p) <=> poStatus[p] \in {"PARTIAL", "RECEIVED"}
        /\ HasReport(p) => (poStatus[p] = "RECEIVED" <=> Complete(p, got))

\* An order raised for a request rests on an approval that stands: no late
\* rejection takes it away (the double-submit guard of prTransition).
OrdersRestOnApproval ==
    \A p \in Orders :
        poStatus[p] # "ABSENT" /\ RequestFor[p] # None => prStatus[RequestFor[p]] = "APPROVED"
=============================================================================
