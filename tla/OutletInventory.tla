-------------------------- MODULE OutletInventory --------------------------
(***************************************************************************)
(* The outlets' own stock (inventory/routes.ts, inventory/adjustments.ts): *)
(* one MAIN and one KITCHEN warehouse each, a balance row per ingredient,  *)
(* and the stock ledger.  Three kinds of document move it here: receiving  *)
(* reports, internal transfer orders (ITO) and approved adjustments.       *)
(*                                                                         *)
(* A handler that decides a document does it with one conditional update,  *)
(* so the read before it adds nothing and the handler is one step; a call  *)
(* that loses is refused and is no step.  Amounts are in the ingredient's  *)
(* stock unit.  The supplier price list and the audit log, which these     *)
(* handlers write and never read, are left out.                            *)
(***************************************************************************)
EXTENDS Integers, Sequences, FiniteSets, Functions

CONSTANTS
    Users, RoleOf,
    Outlets, Access,   \* user_outlet_access: <<user, outlet>>
    Ingredients,
    Opening,           \* opening balances
    OpeningRows,       \* the balance rows that exist: <<warehouse, ingredient>>
    Deliveries,        \* direct deliveries a client may enter, as sequences of lines
    References,        \* supplier and delivery number of a direct receipt
    Itos, ItoLines,    \* transfer orders, and the item lists a client may enter
    Adjustments,
    Amounts,           \* amounts of an adjustment
    Orders, LineIds,   \* purchase orders and their lines: see Purchasing
    LookbackLimit,     \* candidates a lookback reads: the code's .limit(5)
    MaxReports,        \* bound: receiving reports
    None               \* NULL

Warehouses == Outlets \X {"MAIN", "KITCHEN"}
Main(o) == <<o, "MAIN">>
Kitchen(o) == <<o, "KITCHEN">>

\* A line of a document: what identifies it, its ingredient and its amount.
\* The routes of direct receipts and ITOs accept any number.
Line == [key : Ingredients \cup LineIds, item : Ingredients, qty : Int]

ASSUME InventoryAssumptions ==
    /\ Opening \in [Warehouses -> [Ingredients -> Int]]
    /\ OpeningRows \subseteq Warehouses \X Ingredients
    /\ \A w \in Warehouses, i \in Ingredients : <<w, i>> \notin OpeningRows => Opening[w][i] = 0
    /\ Deliveries \cup ItoLines \subseteq Seq(Line)
    /\ \A d \in Deliveries \cup ItoLines : \A n \in DOMAIN d : d[n].key = d[n].item
    /\ Amounts \subseteq Nat \ {0}
    /\ IsFiniteSet(Itos) /\ IsFiniteSet(Adjustments)
    /\ LookbackLimit \in Nat \ {0} /\ MaxReports \in Nat
    /\ None \notin Users \cup Outlets \cup Orders \cup References

VARIABLES
    stock,    \* inventory_stock.quantity
    rows,     \* the inventory_stock rows that exist
    ledger,   \* stock_ledger_entry
    reports,  \* receiving_report, in order of filing, taken for that of created_at
    ito,
    adj       \* stock_adjustment

inventoryVars == <<stock, rows, ledger, reports, ito, adj>>

Entry == [module : {"RECEIVE", "ITO", "ADJUSTMENT"}, doc : Nat \cup Itos \cup Adjustments,
          way : {"IN", "OUT"}, key : Ingredients \cup LineIds, wh : Warehouses,
          item : Ingredients, qty : Int]
Report == [po : Orders \cup {None}, ref : References \cup {None}, wh : Warehouses,
           by : Users, lines : Seq(Line), fresh : BOOLEAN]
Ito == [status : {"ABSENT", "REQUESTED", "CONFIRMED"}, at : Outlets \cup {None},
        lines : Seq(Line)]
Adjustment == [status : {"ABSENT", "PENDING", "APPROVED", "REJECTED"},
               by : Users \cup {None}, wh : Warehouses \cup {None},
               item : Ingredients \cup {None}, way : {"IN", "OUT"}, qty : Nat]

\* Balances exist only as rows.
InventoryTypeOK ==
    /\ stock \in [Warehouses -> [Ingredients -> Int]]
    /\ rows \subseteq Warehouses \X Ingredients
    /\ \A w \in Warehouses, i \in Ingredients : <<w, i>> \notin rows => stock[w][i] = 0
    /\ ledger \subseteq Entry
    /\ reports \in Seq(Report)
    /\ ito \in [Itos -> Ito]
    /\ adj \in [Adjustments -> Adjustment]

NoIto == [status |-> "ABSENT", at |-> None, lines |-> <<>>]
NoAdjustment == [status |-> "ABSENT", by |-> None, wh |-> None, item |-> None,
                 way |-> "IN", qty |-> 0]

InventoryInit ==
    /\ stock = Opening
    /\ rows = OpeningRows
    /\ ledger = {}
    /\ reports = <<>>
    /\ ito = [t \in Itos |-> NoIto]
    /\ adj = [a \in Adjustments |-> NoAdjustment]

-----------------------------------------------------------------------------
(* Who may act where: requireRole, resolveLocationId and isOutletInScope.  *)

INVENTORY_ROLES == {"OWNER", "WAREHOUSE_OUTLET"}
ITO_REQUEST_ROLES == {"OWNER", "KITCHEN_CREW"}
REQUEST_ROLES == {"OWNER", "OUTLET_MANAGER", "WAREHOUSE_MAIN", "WAREHOUSE_OUTLET"}
DECIDE_ROLES == {"OWNER", "OUTLET_MANAGER"}

\* requireAuth, requireRole: who may call a route at all.
HasRole(u, roles) == RoleOf[u] \in roles

\* resolveLocationId, isOutletInScope: a user acts at the outlets of user_outlet_access,
\* those at headquarters everywhere.
HQ_ALL_SCOPE_ROLES == {"OWNER", "HR", "ACCOUNTING", "WAREHOUSE_MAIN"}
InScope(u, o) == RoleOf[u] \in HQ_ALL_SCOPE_ROLES \/ <<u, o>> \in Access

-----------------------------------------------------------------------------
(* Balances and ledger.                                                    *)

Keys(lines) == {lines[n].key : n \in DOMAIN lines}
ItemsOf(lines) == {lines[n].item : n \in DOMAIN lines}
Total(lines, i) ==
    SumFunctionOnSet([n \in DOMAIN lines |-> lines[n].qty],
                     {n \in DOMAIN lines : lines[n].item = i})

\* The upsert: every line is added, and its row made if need be.
Credited(balances, w, lines) ==
    [balances EXCEPT ![w] = [i \in Ingredients |-> @[i] + Total(lines, i)]]
RowsFor(w, lines) == {<<w, i>> : i \in ItemsOf(lines)}

\* postLedger: one entry per (module, document, line); a key that is taken is
\* skipped without a word, also within one document.
FirstOf(lines, k) == lines[CHOOSE n \in DOMAIN lines :
    lines[n].key = k /\ \A m \in DOMAIN lines : lines[m].key = k => n <= m]
EntriesFor(module, d, way, w, lines) ==
    {[module |-> module, doc |-> d, way |-> way, key |-> k, wh |-> w,
      item |-> FirstOf(lines, k).item, qty |-> FirstOf(lines, k).qty] : k \in Keys(lines)}
SameKey(e, f) == e.module = f.module /\ e.doc = f.doc /\ e.way = f.way /\ e.key = f.key
PostLedger(entries) ==
    ledger' = ledger \cup {e \in entries : \A f \in ledger : ~SameKey(e, f)}

-----------------------------------------------------------------------------
(* Receiving reports.                                                      *)

SameLines(a, b) ==
    /\ Len(a) = Len(b)
    /\ {<<a[n].key, a[n].qty>> : n \in DOMAIN a} = {<<b[n].key, b[n].qty>> : n \in DOMAIN b}
SameScope(r, s) == r.po = s.po /\ r.ref = s.ref /\ r.wh = s.wh /\ r.by = s.by

\* The receipts of one scope within the lookback window, and of these the
\* latest: no more than these are compared.
InWindow(r) == {n \in DOMAIN reports : reports[n].fresh /\ SameScope(r, reports[n])}
\* Mutant: the query is ordered by created_at ascending.
OldestCandidates(r) ==
    {n \in InWindow(r) : Cardinality({m \in InWindow(r) : m < n}) < LookbackLimit}
Candidates(r) ==
    {n \in InWindow(r) : Cardinality({m \in InWindow(r) : m > n}) < LookbackLimit}

\* findDuplicateReceivingReport
Duplicate(r) == \E n \in Candidates(r) : SameLines(r.lines, reports[n].lines)

NewReport(po, ref, w, u, lines) ==
    [po |-> po, ref |-> ref, wh |-> w, by |-> u, lines |-> lines, fresh |-> TRUE]

\* The body of both receiving transactions.
FileReport(r) ==
    /\ Len(reports) < MaxReports
    /\ reports' = Append(reports, r)
    /\ stock' = Credited(stock, r.wh, r.lines)
    /\ rows' = rows \cup RowsFor(r.wh, r.lines)
    /\ PostLedger(EntriesFor("RECEIVE", Len(reports) + 1, "IN", r.wh, r.lines))

\* POST /inventory/receive, under the warehouse's row lock; a duplicate is
\* answered with the report there is.
DirectReceive(u, o, ref, lines) ==
    /\ HasRole(u, INVENTORY_ROLES) /\ InScope(u, o)
    /\ ~Duplicate(NewReport(None, ref, Main(o), u, lines))
    /\ FileReport(NewReport(None, ref, Main(o), u, lines))
    /\ UNCHANGED <<ito, adj>>

\* DUPLICATE_LOOKBACK_MS have passed since a report was filed.
LookbackEnds(n) ==
    /\ reports[n].fresh
    /\ \A m \in 1..(n - 1) : ~reports[m].fresh
    /\ reports' = [reports EXCEPT ![n].fresh = FALSE]
    /\ UNCHANGED <<stock, rows, ledger, ito, adj>>

-----------------------------------------------------------------------------
(* Internal transfer orders, MAIN to KITCHEN of one outlet.                *)

RequestIto(t, u, o, lines) ==
    /\ HasRole(u, ITO_REQUEST_ROLES) /\ InScope(u, o)
    /\ ito[t].status = "ABSENT"
    /\ ito' = [ito EXCEPT ![t] = [status |-> "REQUESTED", at |-> o, lines |-> lines]]
    /\ UNCHANGED <<stock, rows, ledger, reports, adj>>

\* The update of the MAIN balance finds no row where there is none.
TakenFrom(w, lines) ==
    [stock EXCEPT ![w] = [i \in Ingredients |->
        IF <<w, i>> \in rows THEN @[i] - Total(lines, i) ELSE @[i]]]

\* Mutant: the status is not part of the update's condition.
ItoOpenAnyway(t) == ito[t].status # "ABSENT"
ItoOpen(t) == ito[t].status = "REQUESTED"

ConfirmIto(t, u) ==
    LET o == ito[t].at
        lines == ito[t].lines IN
    /\ ItoOpen(t)
    /\ HasRole(u, INVENTORY_ROLES) /\ InScope(u, o)
    /\ ito' = [ito EXCEPT ![t].status = "CONFIRMED"]
    /\ stock' = Credited(TakenFrom(Main(o), lines), Kitchen(o), lines)
    /\ rows' = rows \cup RowsFor(Kitchen(o), lines)
    /\ PostLedger(EntriesFor("ITO", t, "OUT", Main(o), lines)
                    \cup EntriesFor("ITO", t, "IN", Kitchen(o), lines))
    /\ UNCHANGED <<reports, adj>>

-----------------------------------------------------------------------------
(* Adjustments.                                                            *)

RequestAdjustment(a, u, w, i, way, q) ==
    /\ HasRole(u, REQUEST_ROLES) /\ InScope(u, w[1])
    /\ adj[a].status = "ABSENT"
    /\ adj' = [adj EXCEPT ![a] = [status |-> "PENDING", by |-> u, wh |-> w, item |-> i,
                                  way |-> way, qty |-> q]]
    /\ UNCHANGED <<stock, rows, ledger, reports, ito>>

\* A manager may not approve what the manager asked for; an owner may.
MayApprove(a, u) ==
    /\ HasRole(u, DECIDE_ROLES) /\ InScope(u, adj[a].wh[1])
    /\ RoleOf[u] = "OUTLET_MANAGER" => adj[a].by # u

LineOf(a) == <<[key |-> adj[a].item, item |-> adj[a].item, qty |-> adj[a].qty]>>
Signed(a) == IF adj[a].way = "OUT" THEN 0 - adj[a].qty ELSE adj[a].qty

\* Mutant: the row is not made before the balance is changed.
RowMadeNever(a) == rows
\* The row is made at zero when absent: an OUT may drive the balance below zero.
RowMade(a) == rows \cup {<<adj[a].wh, adj[a].item>>}

ApproveAdjustment(a, u) ==
    /\ adj[a].status = "PENDING" /\ MayApprove(a, u)
    /\ adj' = [adj EXCEPT ![a].status = "APPROVED"]
    /\ rows' = RowMade(a)
    /\ stock' = [stock EXCEPT ![adj[a].wh][adj[a].item] = @ + Signed(a)]
    /\ PostLedger(EntriesFor("ADJUSTMENT", a, adj[a].way, adj[a].wh, LineOf(a)))
    /\ UNCHANGED <<reports, ito>>

\* Mutant: a decision is written over the one taken in between.
RejectAnyway(a, u) ==
    /\ adj[a].status # "ABSENT"
    /\ HasRole(u, DECIDE_ROLES) /\ InScope(u, adj[a].wh[1])
    /\ adj' = [adj EXCEPT ![a].status = "REJECTED"]
    /\ UNCHANGED <<stock, rows, ledger, reports, ito>>

RejectAdjustment(a, u) ==
    /\ adj[a].status = "PENDING"
    /\ HasRole(u, DECIDE_ROLES) /\ InScope(u, adj[a].wh[1])
    /\ adj' = [adj EXCEPT ![a].status = "REJECTED"]
    /\ UNCHANGED <<stock, rows, ledger, reports, ito>>

-----------------------------------------------------------------------------

InventoryNext ==
    \/ \E u \in Users :
         \/ \E o \in Outlets :
              \/ \E ref \in References, d \in Deliveries : DirectReceive(u, o, ref, d)
              \/ \E t \in Itos, d \in ItoLines : RequestIto(t, u, o, d)
         \/ \E t \in Itos : ConfirmIto(t, u)
         \/ \E a \in Adjustments :
              \/ \E w \in Warehouses, i \in Ingredients, way \in {"IN", "OUT"}, q \in Amounts :
                   RequestAdjustment(a, u, w, i, way, q)
              \/ ApproveAdjustment(a, u) \/ RejectAdjustment(a, u)
    \/ \E n \in DOMAIN reports : LookbackEnds(n)
=============================================================================
