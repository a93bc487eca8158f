---------------------------- MODULE KitchenOrders ----------------------------
(***************************************************************************)
(* Orders of one outlet and the kitchen stock they draw on                 *)
(* (orders/service.ts): ingestOrder, advanceOrder and cancelOrder, run by  *)
(* concurrent requests, with the soft reservations, the deduction engine,  *)
(* the consumption log and the stock ledger they keep in step.             *)
(*                                                                         *)
(* Every request reads first and writes in one later transaction guarded   *)
(* by what it read; the reads are steps of their own.  An order is named   *)
(* by its idempotency key (listing, external_ref) and has one menu item,   *)
(* whose recipe is a number of units per ingredient (0: no recipe line).   *)
(***************************************************************************)
EXTENDS Integers, FiniteSets, Functions

CONSTANTS
    Orders,        \* (listing, external_ref) pairs that may arrive
    WalkIns,       \* those of aggregator OTHER that do not allow overselling
    LegacyOrders,  \* orders older than component_snapshot and reservations
    Ingredients,
    Recipes,       \* recipes the menu item may be given
    InitStock,     \* opening kitchen balances
    Callers,       \* concurrent requests
    NoOrder,
    NoSnapshot,    \* order_item.component_snapshot IS NULL
    MaxItos    \* bound: transfer orders confirmed

ASSUME KitchenAssumptions ==
    /\ WalkIns \subseteq Orders /\ LegacyOrders \subseteq Orders
    /\ IsFiniteSet(Orders) /\ IsFiniteSet(Ingredients)
    /\ Recipes \subseteq [Ingredients -> Nat] /\ NoSnapshot \notin Recipes
    /\ InitStock \in [Ingredients -> Int]
    /\ NoOrder \notin Orders
    /\ MaxItos \in Nat

VARIABLES
    recipe,     \* recipe_lines of the menu item, as they are now
    frozen,     \* operational flag orders.legacy_recipe_snapshot
    kitchen,    \* the outlet has a KITCHEN warehouse
    stage,      \* order.status; "ABSENT" before the insert
    snapshot,   \* order_item.component_snapshot
    tickets,    \* print jobs (KOTs) queued for the order's station
    hold,       \* stock_reservation rows of the order, per ingredient
    stock,      \* inventory_stock.quantity in the KITCHEN warehouse
    used,       \* consumption_log rows of the order, per ingredient
    out, back,  \* ledger rows ORDER_DEDUCTION / RESTOCK, per order and ingredient
    itoIn,      \* ledger ITO IN totals, per ingredient
    itos,       \* transfer orders confirmed so far
    pc, target, \* a request: its place and its order
    seen        \* what it has read: [stage, recipe, onHand]

orderVars == <<stage, snapshot, tickets>>
stockVars == <<hold, stock, used, out, back, itoIn, itos>>
menuVars == <<recipe, frozen, kitchen>>
callerVars == <<pc, target, seen>>
vars == <<menuVars, orderVars, stockVars, callerVars>>

Nothing == [i \in Ingredients |-> 0]
Quantities == [Ingredients -> Nat]
Stages == {"ABSENT", "NEW", "PREPARING", "READY", "COMPLETED", "CANCELLED"}
NoView == [stage |-> "ABSENT", recipe |-> Nothing, onHand |-> Nothing]

TypeOK ==
    /\ recipe \in Recipes /\ frozen \in BOOLEAN /\ kitchen \in BOOLEAN
    /\ stage \in [Orders -> Stages]
    /\ snapshot \in [Orders -> Recipes \cup {NoSnapshot}]
    /\ tickets \in [Orders -> Nat]
    /\ hold \in [Orders -> Quantities]
    /\ stock \in [Ingredients -> Int]
    /\ used \in [Orders -> Quantities]
    /\ out \in [Orders -> Quantities]
    /\ back \in [Orders -> Quantities]
    /\ itoIn \in Quantities
    /\ itos \in 0..MaxItos
    /\ pc \in [Callers -> {"idle", "looked", "planned", "stocked", "cleared",
                           "advance", "cancel"}]
    /\ target \in [Callers -> Orders \cup {NoOrder}]
    /\ seen \in [Callers -> [stage : Stages, recipe : Quantities,
                             onHand : [Ingredients -> Int]]]

Init ==
    /\ recipe \in Recipes /\ frozen \in BOOLEAN /\ kitchen \in BOOLEAN
    /\ stage = [o \in Orders |-> IF o \in LegacyOrders THEN "NEW" ELSE "ABSENT"]
    /\ snapshot = [o \in Orders |-> NoSnapshot]
    /\ tickets = [o \in Orders |-> IF o \in LegacyOrders THEN 1 ELSE 0]
    /\ hold = [o \in Orders |-> Nothing]
    /\ stock = InitStock
    /\ used = [o \in Orders |-> Nothing]
    /\ out = [o \in Orders |-> Nothing]
    /\ back = [o \in Orders |-> Nothing]
    /\ itoIn = Nothing
    /\ itos = 0
    /\ pc = [p \in Callers |-> "idle"]
    /\ target = [p \in Callers |-> NoOrder]
    /\ seen = [p \in Callers |-> NoView]

-----------------------------------------------------------------------------

Goes(p, place) ==
    /\ pc' = [pc EXCEPT ![p] = place]
    /\ UNCHANGED target

Begins(p, o, place) ==
    /\ pc[p] = "idle"
    /\ pc' = [pc EXCEPT ![p] = place]
    /\ target' = [target EXCEPT ![p] = o]

Done(p) ==
    /\ pc' = [pc EXCEPT ![p] = "idle"]
    /\ target' = [target EXCEPT ![p] = NoOrder]
    /\ seen' = [seen EXCEPT ![p] = NoView]

\* The amount of an ingredient in the rows of all orders.
Total(amounts, i) == SumFunction([o \in Orders |-> amounts[o][i]])

Reserved(i) == Total(hold, i)

-----------------------------------------------------------------------------
(* ingestOrder                                                             *)

\* The idempotency pre-check: an order that exists is answered DUPLICATE_ORDER.
IngestLookup(p, o) ==
    /\ stage[o] = "ABSENT"
    /\ Begins(p, o, "looked")
    /\ UNCHANGED <<menuVars, orderVars, stockVars, seen>>

\* The recipe lines, and with them what the order needs and will freeze.
IngestReadRecipe(p) ==
    /\ pc[p] = "looked"
    /\ seen' = [seen EXCEPT ![p].recipe = recipe]
    /\ Goes(p, "planned")
    /\ UNCHANGED <<menuVars, orderVars, stockVars>>

\* On-hand balances, if there is a kitchen warehouse to look at and a recipe
\* line that needs it; otherwise nothing is reserved.
IngestReadOnHand(p) ==
    /\ pc[p] = "planned" /\ kitchen /\ seen[p].recipe # Nothing
    /\ seen' = [seen EXCEPT ![p].onHand = stock]
    /\ Goes(p, "stocked")
    /\ UNCHANGED <<menuVars, orderVars, stockVars>>

\* The reservations, read after the balances, and the oversell policy:
\* a shortfall refuses a walk-in and only flags an aggregator order.
IngestReadReserved(p) ==
    LET short == \E i \in Ingredients :
                    seen[p].recipe[i] > seen[p].onHand[i] - Reserved(i)
    IN  /\ pc[p] = "stocked"
        /\ IF short /\ target[p] \in WalkIns THEN Done(p)
           ELSE Goes(p, "cleared") /\ UNCHANGED seen
        /\ UNCHANGED <<menuVars, orderVars, stockVars>>

\* Mutant: the ticket is queued before the insert can fail.
TicketAnyway(p, reserves) ==
    LET o == target[p] IN
    /\ tickets' = [tickets EXCEPT ![o] = @ + 1]
    /\ IF stage[o] = "ABSENT"
         THEN /\ stage' = [stage EXCEPT ![o] = "NEW"]
              /\ snapshot' = [snapshot EXCEPT ![o] = seen[p].recipe]
              /\ hold' = [hold EXCEPT ![o] = IF reserves THEN seen[p].recipe ELSE @]
         ELSE UNCHANGED <<stage, snapshot, hold>>
    /\ Done(p)
    /\ UNCHANGED <<menuVars, stock, used, out, back, itoIn, itos>>

\* The transaction: order, item with its frozen recipe, ticket, reservation.
\* The unique (listing, external_ref) turns the loser of a race into a duplicate.
InsertOrder(p, reserves) ==
    LET o == target[p] IN
    /\ IF stage[o] = "ABSENT"
         THEN /\ stage' = [stage EXCEPT ![o] = "NEW"]
              /\ snapshot' = [snapshot EXCEPT ![o] = seen[p].recipe]
              /\ tickets' = [tickets EXCEPT ![o] = @ + 1]
              /\ hold' = [hold EXCEPT ![o] = IF reserves THEN seen[p].recipe ELSE @]
         ELSE UNCHANGED <<orderVars, hold>>
    /\ Done(p)
    /\ UNCHANGED <<menuVars, stock, used, out, back, itoIn, itos>>

IngestReserving(p) == pc[p] = "cleared" /\ InsertOrder(p, TRUE)

IngestWithoutHold(p) ==
    /\ pc[p] = "planned" /\ (~kitchen \/ seen[p].recipe = Nothing)
    /\ InsertOrder(p, FALSE)

-----------------------------------------------------------------------------
(* advanceOrder                                                            *)

NextStage(s) == CASE s = "NEW" -> "PREPARING"
                  [] s = "PREPARING" -> "READY"
                  [] s = "READY" -> "COMPLETED"

AdvanceRead(p, o) ==
    /\ stage[o] \in {"NEW", "PREPARING", "READY"}
    /\ Begins(p, o, "advance")
    /\ seen' = [seen EXCEPT ![p].stage = stage[o]]
    /\ UNCHANGED <<menuVars, orderVars, stockVars>>

\* With the flag on the frozen recipe is deducted, unless there is none.
ToDeduct(o) == IF frozen /\ snapshot[o] # NoSnapshot THEN snapshot[o] ELSE recipe

\* A ledger row of a (module, document, line) that exists is not posted again.
PostLedger(rows, o, amounts) ==
    [rows EXCEPT ![o] = [i \in Ingredients |-> IF @[i] = 0 THEN amounts[i] ELSE @[i]]]

\* Mutant: the reservation shrinks by what is deducted.
HoldMinus(o, amounts) ==
    hold' = [hold EXCEPT ![o] = [i \in Ingredients |-> @[i] - amounts[i]]]
ReleaseHold(o, amounts) == hold' = [hold EXCEPT ![o] = Nothing]

\* The deduction engine, in the transaction that moves the order on.
Deduct(o, amounts) ==
    /\ stock' = [i \in Ingredients |-> stock[i] - amounts[i]]
    /\ out' = PostLedger(out, o, amounts)
    /\ used' = [used EXCEPT ![o] = [i \in Ingredients |-> @[i] + amounts[i]]]
    /\ ReleaseHold(o, amounts)
    /\ UNCHANGED <<back, itoIn, itos>>

\* Mutant: the update names the order and not the stage it was read in.
MovedToo(p) == TRUE
Unmoved(p) == stage[target[p]] = seen[p].stage

\* Conditional on the stage read before; preparation needs a kitchen warehouse.
AdvanceCommit(p) ==
    LET o == target[p]
        next == NextStage(seen[p].stage)
    IN  /\ pc[p] = "advance"
        /\ Unmoved(p)
        /\ stage' = [stage EXCEPT ![o] = next]
        /\ IF next = "PREPARING"
             THEN kitchen /\ Deduct(o, ToDeduct(o))
             ELSE UNCHANGED stockVars
        /\ Done(p)
        /\ UNCHANGED <<menuVars, snapshot, tickets>>

-----------------------------------------------------------------------------
(* cancelOrder                                                             *)

CancelRead(p, o) ==
    /\ stage[o] \in {"NEW", "PREPARING", "READY"}
    /\ Begins(p, o, "cancel")
    /\ seen' = [seen EXCEPT ![p].stage = stage[o]]
    /\ UNCHANGED <<menuVars, orderVars, stockVars>>

\* Mutants: the current recipe is put back; the log is kept; the hold is kept.
RestockRecipe(o) ==
    /\ stock' = [i \in Ingredients |-> stock[i] + recipe[i]]
    /\ back' = PostLedger(back, o, recipe)
    /\ used' = [used EXCEPT ![o] = Nothing]
    /\ hold' = [hold EXCEPT ![o] = Nothing]
    /\ UNCHANGED <<out, itoIn, itos>>
RestockKeepsLog(o) ==
    /\ stock' = [i \in Ingredients |-> stock[i] + used[o][i]]
    /\ back' = PostLedger(back, o, used[o])
    /\ hold' = [hold EXCEPT ![o] = Nothing]
    /\ UNCHANGED <<used, out, itoIn, itos>>
RestockKeepsHold(o) ==
    /\ stock' = [i \in Ingredients |-> stock[i] + used[o][i]]
    /\ back' = PostLedger(back, o, used[o])
    /\ used' = [used EXCEPT ![o] = Nothing]
    /\ UNCHANGED <<hold, out, itoIn, itos>>

\* The consumption log says what to put back, and is emptied with it.
Restock(o) ==
    /\ stock' = [i \in Ingredients |-> stock[i] + used[o][i]]
    /\ back' = PostLedger(back, o, used[o])
    /\ used' = [used EXCEPT ![o] = Nothing]
    /\ hold' = [hold EXCEPT ![o] = Nothing]
    /\ UNCHANGED <<out, itoIn, itos>>

CancelCommit(p) ==
    LET o == target[p] IN
    /\ pc[p] = "cancel"
    /\ Unmoved(p)
    /\ stage' = [stage EXCEPT ![o] = "CANCELLED"]
    /\ Restock(o)
    /\ Done(p)
    /\ UNCHANGED <<menuVars, snapshot, tickets>>

-----------------------------------------------------------------------------
(* Refusals, and the rest of the system                                    *)

\* A conflict (the stage moved on), a missing kitchen warehouse, a lost
\* connection or any other error rolls the transaction back.
RequestFails(p) ==
    /\ pc[p] # "idle"
    /\ Done(p)
    /\ UNCHANGED <<menuVars, orderVars, stockVars>>

EditRecipe(r) ==
    /\ r # recipe
    /\ recipe' = r
    /\ UNCHANGED <<frozen, kitchen, orderVars, stockVars, callerVars>>

SwitchSnapshotFlag ==
    /\ frozen' = ~frozen
    /\ UNCHANGED <<recipe, kitchen, orderVars, stockVars, callerVars>>

ConfigureKitchen ==
    /\ ~kitchen
    /\ kitchen' = TRUE
    /\ UNCHANGED <<recipe, frozen, orderVars, stockVars, callerVars>>

\* A transfer order MAIN to KITCHEN of one unit is confirmed: the kitchen side, balance
\* and ledger row in one transaction.
ConfirmIto(i) ==
    /\ kitchen /\ itos < MaxItos
    /\ itos' = itos + 1
    /\ stock' = [stock EXCEPT ![i] = @ + 1]
    /\ itoIn' = [itoIn EXCEPT ![i] = @ + 1]
    /\ UNCHANGED <<menuVars, orderVars, hold, used, out, back, callerVars>>

RequestStep(p) ==
    \/ \E o \in Orders : IngestLookup(p, o) \/ AdvanceRead(p, o) \/ CancelRead(p, o)
    \/ IngestReadRecipe(p) \/ IngestReadOnHand(p) \/ IngestReadReserved(p)
    \/ IngestReserving(p) \/ IngestWithoutHold(p)
    \/ AdvanceCommit(p) \/ CancelCommit(p) \/ RequestFails(p)

Next ==
    \/ \E p \in Callers : RequestStep(p)
    \/ \E r \in Recipes : EditRecipe(r)
    \/ SwitchSnapshotFlag \/ ConfigureKitchen
    \/ \E i \in Ingredients : ConfirmIto(i)

Spec == Init /\ [][Next]_vars

-----------------------------------------------------------------------------
(* Properties                                                              *)

\* The balance is what the ledger says: opening balance, plus ITOs, minus
\* every deduction, plus every restock.
StockMatchesLedger ==
    \A i \in Ingredients :
        stock[i] = InitStock[i] + itoIn[i] - Total(out, i) + Total(back, i)

\* What an order has taken follows its stage: nothing before preparation, its
\* deduction once while it is being made, and nothing on balance once it is
\* cancelled, whatever happened to the recipe meanwhile.
ConsumptionFollowsStage ==
    \A o \in Orders :
        /\ stage[o] \in {"ABSENT", "NEW"} => used[o] = Nothing /\ out[o] = Nothing
        /\ stage[o] \in {"PREPARING", "READY", "COMPLETED"} =>
              used[o] = out[o] /\ back[o] = Nothing
        /\ stage[o] = "CANCELLED" => used[o] = Nothing /\ back[o] = out[o]

\* A soft reservation lives exactly as long as its order is NEW: deduction and
\* cancellation release it, no late insert brings it back.
HoldOnlyWhileNew ==
    \A o \in Orders : hold[o] # Nothing => stage[o] = "NEW" /\ hold[o] = snapshot[o]

\* A replayed or raced ingest never queues a second ticket for an order.
OneTicketPerOrder ==
    \A o \in Orders : tickets[o] = IF stage[o] = "ABSENT" THEN 0 ELSE 1

\* Concurrent requests never skip a stage, repeat one or revive an order.
StageMovesForward ==
    [][\A o \in Orders : stage'[o] # stage[o] =>
          \/ stage[o] = "ABSENT" /\ stage'[o] = "NEW"
          \/ stage[o] \in {"NEW", "PREPARING", "READY"}
                /\ stage'[o] \in {NextStage(stage[o]), "CANCELLED"}]_vars

\* The kitchen's promise: see OrderPromise.
Promise == INSTANCE OrderPromise WITH Portions <- Recipes, taken <- used

KeepsPromise == Promise!PSpec

\* What ingestOrder says of walk-ins: one that needs more than is available is
\* refused, so holds alone never exceed what is on hand.
WalkInsNeverOversell ==
    \A i \in Ingredients : Reserved(i) <= stock[i]
=============================================================================
