---------------------------- MODULE StockPosting ----------------------------
(***************************************************************************)
(* The central stock posting service (stock/posting-service.ts): the only  *)
(* writer of the lot balances.  A stock document (a transfer, a return, a  *)
(* release, a job, a customer order) moves stock by posting a plan, a set  *)
(* of IN and OUT movements, against an operational document, under an      *)
(* idempotency key derived from the document alone.                        *)
(*                                                                         *)
(* A handler that posts is a saga of three transactions: it prepares (reads *)
(* its rows, plans, ensures the operational document), posts, and          *)
(* finalizes its own rows.  A caller is such a handler in flight; another  *)
(* handler may run, and its process may die, between any two of the three. *)
(* The modules of the documents supply the first and the third step.       *)
(***************************************************************************)
EXTENDS Integers, FiniteSets, FiniteSetsExt

CONSTANTS
    Warehouses,
    Purpose,     \* warehouse.purpose
    Site,        \* warehouse.location_id
    Lots,        \* lots that exist or that a document may mint
    Items, ItemOf, Expiry,   \* item and last good day of a lot
    InitStock,   \* opening lot balances, per warehouse and lot
    OpeningLots, \* lots that exist at the start, all AVAILABLE
    LastDay,     \* bound: days that pass
    MaxQty,      \* bound: quantity of a movement
    Slots,       \* <<document, module>>: one idempotency key, one document row
    Callers,     \* requests in flight at a time
    Users, RoleOf,
    Access,      \* user_outlet_access: <<user, location>>
    None,        \* NULL
    MaxEdits     \* bound: edits of a draft

Purposes == {"HQ_MAIN", "PRODUCTION", "QUARANTINE", "OUTLET_STORAGE", "KITCHEN"}
LotStates == {"ABSENT", "AVAILABLE", "QUARANTINED"}
Policies == {"ALLOCATABLE", "CUSTODY_MOVE", "DISPOSITION", "QUARANTINE_RELEASE",
             "QUARANTINE_HOLD"}

\* The documents' modules and the route class their posting policies name.
RouteClass ==
    [TRANSFER_ORDER_DISPATCH |-> "HQ_TRANSFER",
     TRANSFER_ORDER_RECEIPT |-> "HQ_TRANSFER",
     STOCK_RETURN_DISPATCH |-> "OUTLET_RETURN_DISPATCH",
     STOCK_RETURN_RECEIPT |-> "RETURN_DISPOSITION",
     QA_RELEASE |-> "QA_RELEASE",
     PRODUCTION_CONSUME |-> "PRODUCTION",
     PRODUCTION_OUTPUT |-> "PRODUCTION",
     CUSTOMER_ORDER_FULFILLMENT |-> "ORDER_DEDUCTION",
     CUSTOMER_ORDER_JOB_OUTPUT_FULFILLMENT |-> "PRODUCTION"]

ASSUME StockAssumptions ==
    /\ Purpose \in [Warehouses -> Purposes]
    /\ ItemOf \in [Lots -> Items] /\ Expiry \in [Lots -> Nat]
    /\ InitStock \in [Warehouses -> [Lots -> Nat]]
    /\ OpeningLots \subseteq Lots
    /\ \A w \in Warehouses, l \in Lots \ OpeningLots : InitStock[w][l] = 0
    /\ LastDay \in Nat /\ MaxQty \in Nat \ {0}
    /\ \A s \in Slots : s[2] \in DOMAIN RouteClass
    /\ IsFiniteSet(Callers)
    /\ None \notin Lots \cup Users \cup Warehouses /\ MaxEdits \in Nat

VARIABLES
    onHand,    \* inventory_lot_balance.on_hand
    lotState,  \* inventory_lot.status; "ABSENT" before a document mints it
    today,
    doc,       \* operational_document of a slot: its state and its row id
    posting,   \* stock_posting under the slot's key: its movements, {} for none
    call       \* the requests in flight

stockVars == <<onHand, lotState, today, doc, posting, call>>

Quantity == 1..MaxQty
Move == [line : Nat, way : {"IN", "OUT"}, wh : Warehouses, lot : Lots,
         qty : Quantity, policy : Policies]
Phases == {"idle", "prepared", "posted", "refused"}
RowIds == 0..Cardinality(Callers)
NoSlot == <<"none", "none">>

\* A posting to make or made: its slot, the document row and the movements.
Task == [slot : Slots, id : RowIds, plan : SUBSET Move]

\* A request: the posting at hand, those to follow, those made before it, the
\* version its handler read and how far it is.
Request == [slot : Slots \cup {NoSlot}, id : RowIds, plan : SUBSET Move,
            rest : SUBSET Task, done : SUBSET Task, version : Nat, phase : Phases]
Idle == [slot |-> NoSlot, id |-> 0, plan |-> {}, rest |-> {}, done |-> {},
         version |-> 0, phase |-> "idle"]

StockTypeOK ==
    /\ onHand \in [Warehouses -> [Lots -> Nat]]
    /\ lotState \in [Lots -> LotStates]
    /\ today \in 0..LastDay
    /\ doc \in [Slots -> [state : {"ABSENT", "OPEN", "POSTED"}, id : RowIds]]
    /\ posting \in [Slots -> SUBSET Move]
    /\ call \in [Callers -> Request]

StockInit ==
    /\ onHand = InitStock
    /\ lotState = [l \in Lots |-> IF l \in OpeningLots THEN "AVAILABLE" ELSE "ABSENT"]
    /\ today = 0
    /\ doc = [s \in Slots |-> [state |-> "ABSENT", id |-> 0]]
    /\ posting = [s \in Slots |-> {}]
    /\ call = [c \in Callers |-> Idle]

-----------------------------------------------------------------------------
(* Who may act.  Accounts are read again by the posting itself; an account *)
(* blocked in between is one of the reasons for PostRefused.               *)

\* Roles that see every outlet, and the check every handler makes on its actor.
HQ_ALL_SCOPE_ROLES == {"OWNER", "HR", "ACCOUNTING", "WAREHOUSE_MAIN"}
MayAct(u, roles, site) ==
    /\ RoleOf[u] \in roles
    /\ RoleOf[u] \in HQ_ALL_SCOPE_ROLES \/ <<u, site>> \in Access

-----------------------------------------------------------------------------
(* What a posting checks.                                                  *)

Expired(l) == Expiry[l] < today

\* isOutEligible.
OutEligible(l, policy) ==
    CASE policy = "ALLOCATABLE" -> lotState[l] = "AVAILABLE" /\ ~Expired(l)
      [] policy = "CUSTODY_MOVE" -> lotState[l] # "ABSENT"
      [] OTHER -> lotState[l] = "QUARANTINED"

At(m, way, purposes) == m.way = way /\ Purpose[m.wh] \in purposes

QtyOf(moves) == SumFunctionOnSet([m \in moves |-> m.qty], moves)

Moved(plan, way, w, l) == QtyOf({m \in plan : m.way = way /\ m.wh = w /\ m.lot = l})

\* The quarantine entries of a return that are written off in the same posting.
Unheld(plan) == {m \in plan : m.policy # "QUARANTINE_HOLD"}

HqMain == CHOOSE w \in Warehouses : Purpose[w] = "HQ_MAIN"
Quarantine == CHOOSE w \in Warehouses : Purpose[w] = "QUARANTINE"

OneSite(plan) == Cardinality({Site[m.wh] : m \in plan}) <= 1

\* validateRoute: where each route class may take from and bring to.
RouteAllowed(class, plan) ==
    CASE class = "HQ_TRANSFER" ->
           /\ \A m \in plan : \/ At(m, "OUT", {"HQ_MAIN", "PRODUCTION"})
                              \/ At(m, "IN", {"OUTLET_STORAGE", "PRODUCTION", "HQ_MAIN"})
           /\ OneSite({m \in plan : Purpose[m.wh] \notin {"HQ_MAIN", "QUARANTINE"}})
      [] class = "OUTLET_RETURN_DISPATCH" ->
           /\ \A m \in plan : /\ At(m, "OUT", {"OUTLET_STORAGE", "KITCHEN"})
                              /\ m.policy = "CUSTODY_MOVE"
           /\ OneSite(plan)
      [] class = "RETURN_DISPOSITION" ->
           /\ \A m \in plan : /\ Purpose[m.wh] = "QUARANTINE"
                              /\ m.way = "OUT" => m.policy = "DISPOSITION"
           /\ \A l \in Lots :
                SumFunction([w \in Warehouses |-> Moved(Unheld(plan), "IN", w, l)])
                  = SumFunction([w \in Warehouses |-> Moved(Unheld(plan), "OUT", w, l)])
      [] class = "QA_RELEASE" ->
           /\ \A m \in plan : \/ At(m, "OUT", {"QUARANTINE"}) /\ m.policy = "QUARANTINE_RELEASE"
                              \/ At(m, "IN", {"HQ_MAIN"})
           /\ OneSite(plan)
      [] class = "ORDER_DEDUCTION" ->
           /\ \A m \in plan : /\ At(m, "OUT", {"KITCHEN", "OUTLET_STORAGE"})
                              /\ m.policy = "ALLOCATABLE"
           /\ OneSite(plan)
      [] class = "PRODUCTION" ->
           \A m \in plan : Purpose[m.wh] \in {"HQ_MAIN", "PRODUCTION"}

\* lockMovementKeys: every lot exists, every source lot may leave.
LotsAllowed(plan) ==
    \A m \in plan : /\ lotState[m.lot] # "ABSENT"
                    /\ m.way = "OUT" => OutEligible(m.lot, m.policy)

\* The balances a plan leads to; IN is applied before OUT of the same balance.
After(plan) ==
    [w \in Warehouses |-> [l \in Lots |->
        onHand[w][l] + Moved(plan, "IN", w, l) - Moved(plan, "OUT", w, l)]]

\* Mutant: each movement is compared with the balance, not their sum.
SufficientEach(plan) ==
    \A m \in plan : m.way = "OUT" => onHand[m.wh][m.lot] >= m.qty

\* Mutant: what was there when the plan was made is trusted to be there still.
SufficientOnce(plan) == plan # {}
Sufficient(plan) == \A w \in Warehouses, l \in Lots : After(plan)[w][l] >= 0

-----------------------------------------------------------------------------
(* The saga around a posting.                                              *)

\* The postings a request has in hand.
Tasks(c) ==
    {[slot |-> call[c].slot, id |-> call[c].id, plan |-> call[c].plan]}
      \cup call[c].rest \cup call[c].done

\* A row id no request still remembers.
FreshId(s) ==
    CHOOSE n \in RowIds : \A c \in Callers : \A t \in Tasks(c) : t.slot = s => t.id # n

\* ensureOperationalDocument: insert the slot's document, or take the one there.
Ensured(s) ==
    IF doc[s].state = "ABSENT" THEN [state |-> "OPEN", id |-> FreshId(s)] ELSE doc[s]

TaskFor(s, plan) == [slot |-> s, id |-> Ensured(s).id, plan |-> plan]

\* The end of a prepare transaction: caller c leaves with its first plan and
\* the postings to follow, <<slot, plan>>.
Prepared(c, s, plan, more, version) ==
    /\ call[c].phase = "idle"
    /\ doc' = [t \in Slots |-> IF t = s \/ \E x \in more : t = x[1] THEN Ensured(t)
                               ELSE doc[t]]
    /\ call' = [call EXCEPT ![c] =
          [slot |-> s, id |-> Ensured(s).id, plan |-> plan,
           rest |-> {TaskFor(x[1], x[2]) : x \in more}, done |-> {},
           version |-> version, phase |-> "prepared"]]

Answered(c, phase) == call' = [call EXCEPT ![c].phase = phase]

\* lockOperationalDocument and the policy's fromStatuses.
DocumentOpen(s) == doc[s].state = "OPEN"

\* storedReplay: the key is taken by the same plan.
Replayable(s, plan) == posting[s] = plan /\ posting[s] # {}

\* Mutant: the key is not claimed and the document's state not checked.
CommitUnclaimed(c) ==
    LET s == call[c].slot
        plan == call[c].plan IN
    /\ call[c].phase = "prepared" /\ plan # {}
    /\ RouteAllowed(RouteClass[s[2]], plan) /\ LotsAllowed(plan) /\ Sufficient(plan)
    /\ onHand' = After(plan)
    /\ posting' = [posting EXCEPT ![s] = plan]
    /\ doc' = [doc EXCEPT ![s].state = "POSTED"]

\* executePosting, one transaction: the claim of the key, the route, the lots,
\* the balances, the ledger rows and the document's advance.
Commit(c) ==
    LET s == call[c].slot
        plan == call[c].plan IN
    /\ call[c].phase = "prepared"
    /\ DocumentOpen(s) /\ posting[s] = {}
    /\ plan # {}
    /\ RouteAllowed(RouteClass[s[2]], plan)
    /\ LotsAllowed(plan)
    /\ Sufficient(plan)
    /\ onHand' = After(plan)
    /\ posting' = [posting EXCEPT ![s] = plan]
    /\ doc' = [doc EXCEPT ![s].state = "POSTED"]

Post(c) ==
    /\ Commit(c)
    /\ Answered(c, "posted")
    /\ UNCHANGED <<lotState, today>>

\* The posting commits and its answer is lost with the connection.
PostLost(c) ==
    /\ Commit(c)
    /\ Answered(c, "refused")
    /\ UNCHANGED <<lotState, today>>

\* A retry is answered with the posting there is.
PostReplay(c) ==
    LET s == call[c].slot IN
    /\ call[c].phase = "prepared"
    /\ doc[s].state # "ABSENT"
    /\ Replayable(s, call[c].plan)
    /\ Answered(c, "posted")
    /\ UNCHANGED <<onHand, lotState, today, doc, posting>>

\* Any refusal: a key reused for another plan, a document gone, too little
\* stock, a lot not eligible, a flag off, a blocked account, a failed database.
PostRefused(c) ==
    /\ call[c].phase = "prepared"
    /\ Answered(c, "refused")
    /\ UNCHANGED <<onHand, lotState, today, doc, posting>>

Finished(c) == call' = [call EXCEPT ![c] = Idle]

Deleted(d) == [s \in Slots |-> IF s \in d THEN [state |-> "ABSENT", id |-> 0] ELSE doc[s]]

\* Mutant: the documents are deleted whatever has been posted against them.
CompensateAnyway(c) ==
    /\ call[c].phase = "refused"
    /\ doc' = Deleted({t.slot : t \in Tasks(c)})
    /\ Finished(c)
    /\ UNCHANGED <<onHand, lotState, today, posting>>

\* The catch block: delete the documents this request ensured, those that
\* nothing has been posted against.
Compensate(c) ==
    /\ call[c].phase = "refused"
    /\ doc' = Deleted({t.slot : t \in {x \in Tasks(c) :
                          doc[x.slot] = [state |-> "OPEN", id |-> x.id]}})
    /\ Finished(c)
    /\ UNCHANGED <<onHand, lotState, today, posting>>

\* The process dies, or the finalizing transaction is rolled back.
Crash(c) ==
    /\ call[c].phase # "idle"
    /\ Finished(c)
    /\ UNCHANGED <<onHand, lotState, today, doc, posting>>

NextDay ==
    /\ today < LastDay
    /\ today' = today + 1
    /\ UNCHANGED <<onHand, lotState, doc, posting, call>>

PostingNext ==
    \/ \E c \in Callers :
         Post(c) \/ PostLost(c) \/ PostReplay(c) \/ PostRefused(c) \/ Crash(c)
    \/ NextDay

\* The finalizing update names the document row the request ensured, which a
\* foreign key requires to exist.
DocumentStands(c) ==
    doc[call[c].slot].state # "ABSENT" /\ doc[call[c].slot].id = call[c].id

-----------------------------------------------------------------------------
(* Planning.                                                               *)

Plannable(item, w) ==
    {l \in Lots : /\ ItemOf[l] = item /\ lotState[l] = "AVAILABLE" /\ ~Expired(l)
                  /\ onHand[w][l] > 0}

\* First expiring, first out; the lot code breaks a tie.
Soonest(lots) == CHOOSE l \in lots : \A k \in lots : Expiry[l] <= Expiry[k]
=============================================================================
