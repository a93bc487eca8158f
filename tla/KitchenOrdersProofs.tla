------------------------- MODULE KitchenOrdersProofs -------------------------
(***************************************************************************)
(* Proofs about KitchenOrders, for any orders, ingredients, recipes and    *)
(* number of concurrent requests: type correctness, what an order has      *)
(* consumed, its reservation and its ticket, the stages it may go through, *)
(* that the balances are what the ledger says, and that the kitchen keeps  *)
(* OrderPromise.                                                           *)
(***************************************************************************)
EXTENDS KitchenOrders, SumTheorems

-----------------------------------------------------------------------------
(* Type correctness, with what a request under way has read                *)

\* Past its first read a request has an order; an ingest past its recipe read
\* holds a recipe; advance and cancel hold the stage of an open order.
RequestsInformed ==
    \A p \in Callers :
        /\ pc[p] # "idle" => target[p] \in Orders
        /\ pc[p] \in {"planned", "stocked", "cleared"} => seen[p].recipe \in Recipes
        /\ pc[p] \in {"advance", "cancel"} => seen[p].stage \in {"NEW", "PREPARING", "READY"}

TypeInv == TypeOK /\ RequestsInformed

View == [stage : Stages, recipe : Quantities, onHand : [Ingredients -> Int]]

\* The empty quantities and the empty view have their types.
LEMMA NothingTyped == Nothing \in Quantities /\ NoView \in View
BY DEF Nothing, Quantities, NoView, View, Stages

\* A recipe is a function on the ingredients.
LEMMA RecipesTyped == \A r \in Recipes : r \in Quantities
BY KitchenAssumptions DEF Quantities

\* The end of a request leaves the others as they are.
LEMMA DoneKeepsTypes ==
    ASSUME TypeInv, NEW p \in Callers, Done(p)
    PROVE  /\ pc' \in [Callers -> {"idle", "looked", "planned", "stocked", "cleared",
                                   "advance", "cancel"}]
           /\ target' \in [Callers -> Orders \cup {NoOrder}]
           /\ seen' \in [Callers -> View]
           /\ RequestsInformed'
<1>1. /\ pc' = [pc EXCEPT ![p] = "idle"] /\ target' = [target EXCEPT ![p] = NoOrder]
      /\ seen' = [seen EXCEPT ![p] = NoView]
  BY DEF Done
<1>2. /\ pc \in [Callers -> {"idle", "looked", "planned", "stocked", "cleared",
                             "advance", "cancel"}]
      /\ target \in [Callers -> Orders \cup {NoOrder}]
      /\ seen \in [Callers -> View]
  BY DEF TypeInv, TypeOK, View
<1>3. RequestsInformed'
  BY <1>1, <1>2 DEF TypeInv, RequestsInformed
<1> QED BY <1>1, <1>2, <1>3, NothingTyped

\* What is deducted is a recipe.
LEMMA DeductionIsRecipe ==
    ASSUME TypeOK, NEW o \in Orders PROVE ToDeduct(o) \in Recipes
BY DEF ToDeduct, TypeOK

\* A ledger keeps its type when a row is posted.
LEMMA LedgerTyped ==
    ASSUME NEW rows \in [Orders -> Quantities], NEW o \in Orders, NEW amounts \in Quantities
    PROVE  /\ PostLedger(rows, o, amounts) \in [Orders -> Quantities]
           /\ \A k \in Orders \ {o} : PostLedger(rows, o, amounts)[k] = rows[k]
           /\ rows[o] = Nothing => PostLedger(rows, o, amounts)[o] = amounts
<1>1. PostLedger(rows, o, amounts)[o] =
        [i \in Ingredients |-> IF rows[o][i] = 0 THEN amounts[i] ELSE rows[o][i]]
  BY DEF PostLedger
<1>2. [i \in Ingredients |-> IF rows[o][i] = 0 THEN amounts[i] ELSE rows[o][i]] \in Quantities
  BY DEF Quantities
<1>3. rows[o] = Nothing =>
        [i \in Ingredients |-> IF rows[o][i] = 0 THEN amounts[i] ELSE rows[o][i]] = amounts
  BY DEF Quantities, Nothing
<1> QED BY <1>1, <1>2, <1>3 DEF PostLedger

\* The transaction of an ingest keeps the types.
LEMMA InsertKeepsTypes ==
    ASSUME TypeInv, NEW p \in Callers, NEW reserves \in BOOLEAN, InsertOrder(p, reserves),
           target[p] \in Orders, seen[p].recipe \in Recipes
    PROVE  TypeInv'
<1>1. Done(p) /\ UNCHANGED <<menuVars, stock, used, out, back, itoIn, itos>>
  BY DEF InsertOrder
<1>2. seen[p].recipe \in Quantities
  BY RecipesTyped
<1>3. /\ stage' \in [Orders -> Stages] /\ snapshot' \in [Orders -> Recipes \cup {NoSnapshot}]
      /\ tickets' \in [Orders -> Nat] /\ hold' \in [Orders -> Quantities]
  <2>1. CASE stage[target[p]] = "ABSENT"
    <3>1. stage' \in [Orders -> Stages]
      BY <2>1 DEF InsertOrder, TypeInv, TypeOK, Stages
    <3>2. snapshot' \in [Orders -> Recipes \cup {NoSnapshot}]
      BY <2>1 DEF InsertOrder, TypeInv, TypeOK
    <3>4. tickets' \in [Orders -> Nat]
      BY <2>1 DEF InsertOrder, TypeInv, TypeOK
    <3>3. hold' \in [Orders -> Quantities]
      <4> DEFINE o == target[p]
                 q == IF reserves THEN seen[p].recipe ELSE hold[o]
      <4>1. o \in Orders /\ hold \in [Orders -> Quantities] /\ q \in Quantities
        BY <1>2 DEF TypeInv, TypeOK
      <4>2. hold' = [hold EXCEPT ![o] = q]
        BY <2>1 DEF InsertOrder
      <4> HIDE DEF o, q
      <4> QED BY <4>1, <4>2
    <3> QED BY <3>1, <3>2, <3>3, <3>4
  <2>2. CASE stage[target[p]] # "ABSENT"
    BY <2>2 DEF InsertOrder, TypeInv, TypeOK, orderVars
  <2> QED BY <2>1, <2>2
<1> QED BY <1>1, <1>3, DoneKeepsTypes DEF TypeInv, TypeOK, View, menuVars

\* The types are inductive.
LEMMA TypeStep == TypeInv /\ [Next]_vars => TypeInv'
<1> SUFFICES ASSUME TypeInv, [Next]_vars PROVE TypeInv'
  OBVIOUS
<1>1. ASSUME NEW p \in Callers, NEW o \in Orders, IngestLookup(p, o) PROVE TypeInv'
  BY <1>1 DEF IngestLookup, Begins, TypeInv, TypeOK, RequestsInformed, menuVars, orderVars, stockVars
<1>2. ASSUME NEW p \in Callers, NEW o \in Orders, AdvanceRead(p, o) \/ CancelRead(p, o) PROVE TypeInv'
  <2>1. stage[o] \in Stages
    BY DEF TypeInv, TypeOK
  <2>2. seen' = [seen EXCEPT ![p].stage = stage[o]] /\ stage[o] \in {"NEW", "PREPARING", "READY"}
    BY <1>2 DEF AdvanceRead, CancelRead
  <2>3. seen' \in [Callers -> View]
    BY <2>1, <2>2 DEF TypeInv, TypeOK, View
  <2>4. RequestsInformed'
    BY <1>2, <2>2 DEF AdvanceRead, CancelRead, Begins, TypeInv, TypeOK, RequestsInformed, View
  <2> QED BY <1>2, <2>3, <2>4 DEF AdvanceRead, CancelRead, Begins, TypeInv, TypeOK, View,
                                 menuVars, orderVars, stockVars
<1>3. ASSUME NEW p \in Callers, IngestReadRecipe(p) PROVE TypeInv'
  <2>1. recipe \in Quantities /\ recipe \in Recipes
    BY RecipesTyped DEF TypeInv, TypeOK
  <2>2. seen' \in [Callers -> View]
    BY <1>3, <2>1 DEF IngestReadRecipe, TypeInv, TypeOK, View
  <2>3. RequestsInformed'
    BY <1>3, <2>1 DEF IngestReadRecipe, Goes, TypeInv, TypeOK, RequestsInformed, View
  <2> QED BY <1>3, <2>2, <2>3 DEF IngestReadRecipe, Goes, TypeInv, TypeOK, View,
                                 menuVars, orderVars, stockVars
<1>4. ASSUME NEW p \in Callers, IngestReadOnHand(p) PROVE TypeInv'
  <2>1. seen' \in [Callers -> View]
    BY <1>4 DEF IngestReadOnHand, TypeInv, TypeOK, View
  <2>2. RequestsInformed'
    BY <1>4 DEF IngestReadOnHand, Goes, TypeInv, TypeOK, RequestsInformed, View
  <2> QED BY <1>4, <2>1, <2>2 DEF IngestReadOnHand, Goes, TypeInv, TypeOK, View,
                                 menuVars, orderVars, stockVars
<1>5. ASSUME NEW p \in Callers, IngestReadReserved(p) PROVE TypeInv'
  <2>1. CASE Done(p)
    BY <1>5, <2>1, DoneKeepsTypes DEF IngestReadReserved, TypeInv, TypeOK, View,
                                     menuVars, orderVars, stockVars
  <2>2. CASE Goes(p, "cleared") /\ UNCHANGED seen
    BY <1>5, <2>2 DEF IngestReadReserved, Goes, TypeInv, TypeOK, RequestsInformed,
                      menuVars, orderVars, stockVars
  <2> QED BY <1>5, <2>1, <2>2 DEF IngestReadReserved
<1>6. ASSUME NEW p \in Callers, IngestReserving(p) \/ IngestWithoutHold(p) PROVE TypeInv'
  <2>1. target[p] \in Orders /\ seen[p].recipe \in Recipes
    BY <1>6 DEF IngestReserving, IngestWithoutHold, TypeInv, RequestsInformed
  <2> QED BY <1>6, <2>1, InsertKeepsTypes DEF IngestReserving, IngestWithoutHold
<1>7. ASSUME NEW p \in Callers, AdvanceCommit(p) PROVE TypeInv'
  <2> DEFINE o == target[p]
  <2>1. o \in Orders /\ seen[p].stage \in {"NEW", "PREPARING", "READY"}
    BY <1>7 DEF AdvanceCommit, TypeInv, RequestsInformed
  <2>2. stage' \in [Orders -> Stages]
    BY <1>7, <2>1 DEF AdvanceCommit, NextStage, Stages, TypeInv, TypeOK
  <2>3. ToDeduct(o) \in Quantities
    BY <2>1, DeductionIsRecipe, RecipesTyped DEF TypeInv
  <2>4. ASSUME Deduct(o, ToDeduct(o))
        PROVE  /\ stock' \in [Ingredients -> Int] /\ out' \in [Orders -> Quantities]
               /\ used' \in [Orders -> Quantities] /\ hold' \in [Orders -> Quantities]
    <3>1. stock' \in [Ingredients -> Int]
      BY <2>3, <2>4 DEF Deduct, TypeInv, TypeOK, Quantities
    <3>2. out' \in [Orders -> Quantities]
      BY <2>1, <2>3, <2>4, LedgerTyped DEF Deduct, TypeInv, TypeOK
    <3>3. [i \in Ingredients |-> used[o][i] + ToDeduct(o)[i]] \in Quantities
      BY <2>1, <2>3 DEF TypeInv, TypeOK, Quantities
    <3>4. used' \in [Orders -> Quantities]
      BY <2>1, <2>4, <3>3 DEF Deduct, TypeInv, TypeOK
    <3>5. hold' \in [Orders -> Quantities]
      BY <2>1, <2>4, NothingTyped DEF Deduct, ReleaseHold, TypeInv, TypeOK
    <3> QED BY <3>1, <3>2, <3>4, <3>5
  <2>5. /\ stock' \in [Ingredients -> Int] /\ out' \in [Orders -> Quantities]
        /\ used' \in [Orders -> Quantities] /\ hold' \in [Orders -> Quantities]
        /\ UNCHANGED <<back, itoIn, itos>>
    <3>1. CASE Deduct(o, ToDeduct(o))
      BY <2>4, <3>1 DEF Deduct
    <3>2. CASE UNCHANGED stockVars
      BY <3>2 DEF stockVars, TypeInv, TypeOK
    <3> QED BY <1>7, <3>1, <3>2 DEF AdvanceCommit
  <2>6. Done(p) /\ UNCHANGED <<menuVars, snapshot, tickets>>
    BY <1>7 DEF AdvanceCommit
  <2> QED BY <2>2, <2>5, <2>6, DoneKeepsTypes DEF TypeInv, TypeOK, View, menuVars
<1>8. ASSUME NEW p \in Callers, CancelCommit(p) PROVE TypeInv'
  <2> DEFINE o == target[p]
  <2>1. o \in Orders /\ used[o] \in Quantities
    BY <1>8 DEF CancelCommit, TypeInv, TypeOK, RequestsInformed
  <2>2. stage' \in [Orders -> Stages]
    BY <1>8, <2>1 DEF CancelCommit, Stages, TypeInv, TypeOK
  <2>3. stock' \in [Ingredients -> Int]
    BY <1>8, <2>1 DEF CancelCommit, Restock, TypeInv, TypeOK, Quantities
  <2>4. back' \in [Orders -> Quantities]
    BY <1>8, <2>1, LedgerTyped DEF CancelCommit, Restock, TypeInv, TypeOK
  <2>5. used' \in [Orders -> Quantities] /\ hold' \in [Orders -> Quantities]
    BY <1>8, <2>1, NothingTyped DEF CancelCommit, Restock, TypeInv, TypeOK
  <2>6. Done(p) /\ UNCHANGED <<menuVars, snapshot, tickets, out, itoIn, itos>>
    BY <1>8 DEF CancelCommit, Restock
  <2> QED BY <2>2, <2>3, <2>4, <2>5, <2>6, DoneKeepsTypes DEF TypeInv, TypeOK, View, menuVars
<1>9. ASSUME NEW p \in Callers, RequestFails(p) PROVE TypeInv'
  BY <1>9, DoneKeepsTypes DEF RequestFails, TypeInv, TypeOK, View, menuVars, orderVars, stockVars
<1>10. ASSUME NEW r \in Recipes, EditRecipe(r) PROVE TypeInv'
  BY <1>10 DEF EditRecipe, TypeInv, TypeOK, RequestsInformed, orderVars, stockVars, callerVars
<1>11. CASE SwitchSnapshotFlag
  BY <1>11 DEF SwitchSnapshotFlag, TypeInv, TypeOK, RequestsInformed, orderVars, stockVars, callerVars
<1>12. CASE ConfigureKitchen
  BY <1>12 DEF ConfigureKitchen, TypeInv, TypeOK, RequestsInformed, orderVars, stockVars, callerVars
<1>13. ASSUME NEW i \in Ingredients, ConfirmIto(i) PROVE TypeInv'
  <2>1. stock' \in [Ingredients -> Int] /\ itoIn' \in Quantities /\ itos' \in 0..MaxItos
    BY <1>13, KitchenAssumptions DEF ConfirmIto, TypeInv, TypeOK, Quantities
  <2> QED BY <1>13, <2>1 DEF ConfirmIto, TypeInv, TypeOK, RequestsInformed, menuVars, orderVars, callerVars
<1>14. CASE UNCHANGED vars
  BY <1>14 DEF vars, TypeInv, TypeOK, RequestsInformed, menuVars, orderVars, stockVars, callerVars
<1> QED BY <1>1, <1>2, <1>3, <1>4, <1>5, <1>6, <1>7, <1>8, <1>9, <1>10, <1>11, <1>12, <1>13, <1>14
        DEF Next, RequestStep

\* The types hold in every reachable state.
LEMMA TypeInductive == Spec => []TypeInv
<1>1. Init => TypeInv
  <2> SUFFICES ASSUME Init PROVE TypeInv
    OBVIOUS
  <2>1. stage \in [Orders -> Stages] /\ tickets \in [Orders -> Nat]
    BY DEF Init, Stages
  <2> QED BY <2>1, KitchenAssumptions, NothingTyped DEF Init, TypeInv, TypeOK, RequestsInformed, View
<1> QED BY <1>1, TypeStep, PTL DEF Spec

\* Every reachable state is well typed, and a request under way knows what its
\* place says it has read.
THEOREM TypeCorrect == Spec => []TypeOK
<1>1. TypeInv => TypeOK
  BY DEF TypeInv
<1> QED BY <1>1, TypeInductive, PTL

-----------------------------------------------------------------------------
(* Every step is one of five kinds.                                        *)

Placed(o) ==
    /\ stage[o] = "ABSENT"
    /\ stage' = [stage EXCEPT ![o] = "NEW"]
    /\ tickets' = [tickets EXCEPT ![o] = @ + 1]
    /\ \E r \in Recipes : /\ snapshot' = [snapshot EXCEPT ![o] = r]
                          /\ \E h \in {r, hold[o]} : hold' = [hold EXCEPT ![o] = h]
    /\ UNCHANGED <<stock, used, out, back, itoIn>>

Prepared(o) ==
    /\ stage[o] = "NEW"
    /\ stage' = [stage EXCEPT ![o] = "PREPARING"]
    /\ \E r \in Recipes : Deduct(o, r)
    /\ UNCHANGED <<snapshot, tickets>>

Finished(o) ==
    /\ \/ stage[o] = "PREPARING" /\ stage' = [stage EXCEPT ![o] = "READY"]
       \/ stage[o] = "READY" /\ stage' = [stage EXCEPT ![o] = "COMPLETED"]
    /\ UNCHANGED <<snapshot, tickets, hold, stock, used, out, back, itoIn>>

Cancelled(o) ==
    /\ stage[o] \in {"NEW", "PREPARING", "READY"}
    /\ stage' = [stage EXCEPT ![o] = "CANCELLED"]
    /\ Restock(o)
    /\ UNCHANGED <<snapshot, tickets>>

\* A unit is delivered to the kitchen: the one other thing that moves stock.
Delivered(i) ==
    /\ stock' = [stock EXCEPT ![i] = @ + 1]
    /\ itoIn' = [itoIn EXCEPT ![i] = @ + 1]

Quiet ==
    /\ UNCHANGED <<stage, snapshot, tickets, hold, used, out, back>>
    /\ UNCHANGED <<stock, itoIn>> \/ \E i \in Ingredients : Delivered(i)

\* No request, edit, flag or delivery does anything else to an order.
LEMMA StepKinds ==
    ASSUME TypeInv, [Next]_vars
    PROVE  Quiet \/ \E o \in Orders : Placed(o) \/ Prepared(o) \/ Finished(o) \/ Cancelled(o)
<1>1. ASSUME NEW p \in Callers,
             \/ \E o \in Orders : IngestLookup(p, o) \/ AdvanceRead(p, o) \/ CancelRead(p, o)
             \/ IngestReadRecipe(p) \/ IngestReadOnHand(p) \/ IngestReadReserved(p)
             \/ RequestFails(p)
      PROVE  Quiet
  BY <1>1 DEF IngestLookup, AdvanceRead, CancelRead, IngestReadRecipe, IngestReadOnHand,
              IngestReadReserved, RequestFails, Quiet, orderVars, stockVars
<1>2. ASSUME NEW p \in Callers, NEW reserves \in BOOLEAN, InsertOrder(p, reserves),
             target[p] \in Orders, seen[p].recipe \in Recipes
      PROVE  Quiet \/ Placed(target[p])
  <2>1. CASE stage[target[p]] = "ABSENT"
    <3>1. \E h \in {seen[p].recipe, hold[target[p]]} : hold' = [hold EXCEPT ![target[p]] = h]
      <4>1. CASE reserves
        BY <1>2, <2>1, <4>1 DEF InsertOrder
      <4>2. CASE ~reserves
        BY <1>2, <2>1, <4>2 DEF InsertOrder
      <4> QED BY <4>1, <4>2
    <3> QED BY <1>2, <2>1, <3>1 DEF InsertOrder, Placed
  <2>2. CASE stage[target[p]] # "ABSENT"
    BY <1>2, <2>2 DEF InsertOrder, Quiet, orderVars
  <2> QED BY <2>1, <2>2
<1>3. ASSUME NEW p \in Callers, IngestReserving(p) \/ IngestWithoutHold(p)
      PROVE  Quiet \/ \E o \in Orders : Placed(o)
  <2>1. target[p] \in Orders /\ seen[p].recipe \in Recipes
    BY <1>3 DEF IngestReserving, IngestWithoutHold, TypeInv, RequestsInformed
  <2> QED BY <1>2, <1>3, <2>1 DEF IngestReserving, IngestWithoutHold
<1>4. ASSUME NEW p \in Callers, AdvanceCommit(p)
      PROVE  \E o \in Orders : Prepared(o) \/ Finished(o)
  <2>1. target[p] \in Orders /\ seen[p].stage \in {"NEW", "PREPARING", "READY"}
    BY <1>4 DEF AdvanceCommit, TypeInv, RequestsInformed
  <2>2. stage[target[p]] = seen[p].stage
    BY <1>4 DEF AdvanceCommit, Unmoved
  <2>3. CASE seen[p].stage = "NEW"
    <3>1. NextStage(seen[p].stage) = "PREPARING"
      BY <2>3 DEF NextStage
    <3>2. Deduct(target[p], ToDeduct(target[p])) /\ ToDeduct(target[p]) \in Recipes
      BY <1>4, <2>1, <3>1, DeductionIsRecipe DEF AdvanceCommit, TypeInv
    <3>3. /\ stage' = [stage EXCEPT ![target[p]] = "PREPARING"]
          /\ UNCHANGED <<snapshot, tickets>>
      BY <1>4, <3>1 DEF AdvanceCommit
    <3> QED BY <2>1, <2>2, <2>3, <3>2, <3>3 DEF Prepared
  <2>4. CASE seen[p].stage # "NEW"
    <3>1. NextStage(seen[p].stage) = IF seen[p].stage = "PREPARING" THEN "READY" ELSE "COMPLETED"
      BY <2>1, <2>4 DEF NextStage
    <3>2. /\ stage' = [stage EXCEPT ![target[p]] = NextStage(seen[p].stage)]
          /\ UNCHANGED <<snapshot, tickets, hold, stock, used, out, back, itoIn>>
      BY <1>4, <3>1 DEF AdvanceCommit, stockVars
    <3> QED BY <2>1, <2>2, <2>4, <3>1, <3>2 DEF Finished
  <2> QED BY <2>3, <2>4
<1>5. ASSUME NEW p \in Callers, CancelCommit(p) PROVE \E o \in Orders : Cancelled(o)
  <2>1. target[p] \in Orders /\ seen[p].stage \in {"NEW", "PREPARING", "READY"}
    BY <1>5 DEF CancelCommit, TypeInv, RequestsInformed
  <2> QED BY <1>5, <2>1 DEF CancelCommit, Unmoved, Cancelled
<1>6. ASSUME \/ \E r \in Recipes : EditRecipe(r)
             \/ SwitchSnapshotFlag \/ ConfigureKitchen
             \/ \E i \in Ingredients : ConfirmIto(i)
             \/ UNCHANGED vars
      PROVE  Quiet
  BY <1>6 DEF EditRecipe, SwitchSnapshotFlag, ConfigureKitchen, ConfirmIto, Delivered, Quiet, vars,
              orderVars, stockVars
<1>7. ASSUME NEW p \in Callers, RequestStep(p)
      PROVE  Quiet \/ \E o \in Orders : Placed(o) \/ Prepared(o) \/ Finished(o) \/ Cancelled(o)
  BY <1>1, <1>3, <1>4, <1>5, <1>7 DEF RequestStep
<1> QED BY <1>6, <1>7 DEF Next

-----------------------------------------------------------------------------
(* What an order has taken, holds and printed.  The one strengthening is   *)
(* that nothing was put back for an order that has taken nothing yet.      *)

NothingBackYet ==
    \A o \in Orders : stage[o] \in {"ABSENT", "NEW"} => back[o] = Nothing

OrderInv ==
    /\ TypeInv
    /\ ConsumptionFollowsStage
    /\ HoldOnlyWhileNew
    /\ OneTicketPerOrder
    /\ NothingBackYet

\* OrderInv for one order.
OrderOK(o) ==
    /\ stage[o] \in {"ABSENT", "NEW"} => used[o] = Nothing /\ out[o] = Nothing /\ back[o] = Nothing
    /\ stage[o] \in {"PREPARING", "READY", "COMPLETED"} => used[o] = out[o] /\ back[o] = Nothing
    /\ stage[o] = "CANCELLED" => used[o] = Nothing /\ back[o] = out[o]
    /\ hold[o] # Nothing => stage[o] = "NEW" /\ hold[o] = snapshot[o]
    /\ tickets[o] = IF stage[o] = "ABSENT" THEN 0 ELSE 1

\* OrderInv is a conjunction over the orders.
LEMMA OrderByOrder == OrderInv <=> TypeInv /\ \A o \in Orders : OrderOK(o)
BY DEF OrderInv, OrderOK, ConsumptionFollowsStage, HoldOnlyWhileNew, OneTicketPerOrder, NothingBackYet

\* An order no step touched keeps its part of the invariant.
LEMMA UntouchedOK ==
    ASSUME NEW k \in Orders, OrderOK(k), stage'[k] = stage[k], used'[k] = used[k], out'[k] = out[k],
           back'[k] = back[k], hold'[k] = hold[k], snapshot'[k] = snapshot[k], tickets'[k] = tickets[k]
    PROVE  OrderOK(k)'
BY DEF OrderOK

\* OrderInv is inductive: a step touches one order, and keeps it right.
LEMMA OrderStep == OrderInv /\ [Next]_vars => OrderInv'
<1> SUFFICES ASSUME OrderInv, [Next]_vars PROVE OrderInv'
  OBVIOUS
<1>1. TypeInv /\ TypeInv' /\ \A o \in Orders : OrderOK(o)
  BY OrderByOrder, TypeStep
<1>2. /\ stage \in [Orders -> Stages] /\ used \in [Orders -> Quantities]
      /\ out \in [Orders -> Quantities] /\ back \in [Orders -> Quantities]
      /\ hold \in [Orders -> Quantities] /\ tickets \in [Orders -> Nat]
      /\ snapshot \in [Orders -> Recipes \cup {NoSnapshot}]
  BY <1>1 DEF TypeInv, TypeOK
<1>3. CASE Quiet
  BY <1>1, <1>3, UntouchedOK, OrderByOrder DEF Quiet, OrderInv, OrderOK, ConsumptionFollowsStage,
        HoldOnlyWhileNew, OneTicketPerOrder, NothingBackYet
<1>4. ASSUME NEW o \in Orders, Placed(o) PROVE \A k \in Orders : OrderOK(k)'
  <2>1. \A k \in Orders \ {o} : OrderOK(k)'
    BY <1>1, <1>2, <1>4, UntouchedOK DEF Placed
  <2>2. OrderOK(o)'
    BY <1>1, <1>2, <1>4 DEF Placed, OrderOK
  <2> QED BY <2>1, <2>2
<1>5. ASSUME NEW o \in Orders, Prepared(o) PROVE \A k \in Orders : OrderOK(k)'
  <2>1. PICK r \in Recipes : Deduct(o, r)
    BY <1>5 DEF Prepared
  <2>2. r \in Quantities
    BY RecipesTyped
  <2>3. /\ out'[o] = r /\ \A k \in Orders \ {o} : out'[k] = out[k]
    <3>1. out[o] = Nothing /\ out' = PostLedger(out, o, r)
      BY <1>1, <1>5, <2>1 DEF Prepared, Deduct, OrderOK
    <3> QED BY <1>2, <2>2, <3>1, LedgerTyped
  <2>4. used'[o] = r
    <3>1. used'[o] = [i \in Ingredients |-> used[o][i] + r[i]]
      BY <1>2, <2>1 DEF Deduct
    <3>2. used[o] = Nothing
      BY <1>1, <1>5 DEF Prepared, OrderOK
    <3> QED BY <2>2, <3>1, <3>2 DEF Nothing, Quantities
  <2>5. hold'[o] = Nothing /\ back' = back /\ tickets' = tickets /\ stage'[o] = "PREPARING"
    BY <1>2, <1>5, <2>1 DEF Deduct, ReleaseHold, Prepared
  <2>6. \A k \in Orders \ {o} : OrderOK(k)'
    BY <1>1, <1>2, <1>5, <2>1, <2>3, UntouchedOK DEF Deduct, ReleaseHold, Prepared
  <2>7. OrderOK(o)'
    BY <1>1, <1>5, <2>3, <2>4, <2>5 DEF Prepared, OrderOK
  <2> QED BY <2>6, <2>7
<1>6. ASSUME NEW o \in Orders, Finished(o) PROVE \A k \in Orders : OrderOK(k)'
  <2>1. \A k \in Orders \ {o} : OrderOK(k)'
    BY <1>1, <1>2, <1>6, UntouchedOK DEF Finished
  <2>2. OrderOK(o)'
    BY <1>1, <1>2, <1>6 DEF Finished, OrderOK
  <2> QED BY <2>1, <2>2
<1>7. ASSUME NEW o \in Orders, Cancelled(o) PROVE \A k \in Orders : OrderOK(k)'
  <2>1. used[o] = out[o] /\ back[o] = Nothing
    BY <1>1, <1>7 DEF Cancelled, OrderOK
  <2>2. back'[o] = used[o] /\ \A k \in Orders \ {o} : back'[k] = back[k]
    BY <1>2, <1>7, <2>1, LedgerTyped DEF Cancelled, Restock
  <2>3. /\ used'[o] = Nothing /\ hold'[o] = Nothing /\ out' = out
        /\ stage'[o] = "CANCELLED" /\ tickets' = tickets
    BY <1>2, <1>7 DEF Cancelled, Restock
  <2>4. \A k \in Orders \ {o} : OrderOK(k)'
    BY <1>1, <1>2, <1>7, <2>2, UntouchedOK DEF Cancelled, Restock
  <2>5. OrderOK(o)'
    BY <1>1, <1>7, <2>1, <2>2, <2>3 DEF Cancelled, OrderOK
  <2> QED BY <2>4, <2>5
<1>8. CASE \A k \in Orders : OrderOK(k)'
  BY <1>1, <1>8 DEF OrderInv, OrderOK, ConsumptionFollowsStage, HoldOnlyWhileNew, OneTicketPerOrder,
                    NothingBackYet
<1> QED BY <1>1, <1>3, <1>4, <1>5, <1>6, <1>7, <1>8, StepKinds

\* OrderInv holds in every reachable state.
LEMMA OrderInductive == Spec => []OrderInv
<1>1. Init /\ TypeInv => OrderInv
  <2> SUFFICES ASSUME Init, TypeInv PROVE OrderInv
    OBVIOUS
  <2>1. \A o \in Orders : OrderOK(o)
    BY DEF Init, OrderOK
  <2> QED BY <2>1, OrderByOrder
<1>2. Spec => TypeInv
  BY TypeInductive, PTL
<1> QED BY <1>1, <1>2, OrderStep, PTL DEF Spec

\* The consumption log and the ledger rows of an order follow its stage,
\* whatever requests race and however often the recipe is edited.
THEOREM ConsumptionIsByStage == Spec => []ConsumptionFollowsStage
<1>1. OrderInv => ConsumptionFollowsStage
  BY DEF OrderInv
<1> QED BY <1>1, OrderInductive, PTL

\* A soft reservation never outlives the NEW stage of its order.
THEOREM HoldEndsWithNew == Spec => []HoldOnlyWhileNew
<1>1. OrderInv => HoldOnlyWhileNew
  BY DEF OrderInv
<1> QED BY <1>1, OrderInductive, PTL

\* An order is ticketed exactly once, replays and races of ingest included.
THEOREM TicketedOnce == Spec => []OneTicketPerOrder
<1>1. OrderInv => OneTicketPerOrder
  BY DEF OrderInv
<1> QED BY <1>1, OrderInductive, PTL

-----------------------------------------------------------------------------
(* The balances and the ledger.                                            *)

\* A total in which the rows of one order changed.
LEMMA TotalChanges ==
    ASSUME NEW old \in [Orders -> Quantities], NEW new \in [Orders -> Quantities],
           NEW o \in Orders, \A k \in Orders \ {o} : new[k] = old[k], NEW i \in Ingredients
    PROVE  /\ Total(old, i) \in Int
           /\ Total(new, i) = Total(old, i) - old[o][i] + new[o][i]
<1> DEFINE f == [k \in Orders |-> old[k][i]]
           g == [k \in Orders |-> new[k][i]]
<1>1. \A k \in Orders : f[k] \in Int /\ g[k] \in Int
  BY DEF Quantities
<1>2. \A k \in Orders \ {o} : g[k] = f[k]
  OBVIOUS
<1>3. IsFiniteSet(Orders)
  BY KitchenAssumptions
<1>4. Total(old, i) = SumFunctionOnSet(f, Orders) /\ Total(new, i) = SumFunctionOnSet(g, Orders)
  BY DEF Total, SumFunction
<1>5. f[o] = old[o][i] /\ g[o] = new[o][i]
  OBVIOUS
<1> HIDE DEF f, g
<1>6. SumFunctionOnSet(f, Orders) \in Int
  BY <1>1, <1>3, SumInt
<1>7. SumFunctionOnSet(g, Orders) = SumFunctionOnSet(f, Orders) - f[o] + g[o]
  BY <1>1, <1>2, <1>3, SumChange
<1> QED BY <1>4, <1>5, <1>6, <1>7

\* Every balance is the opening balance, the deliveries, the deductions and
\* the restocks of the ledger: no race of requests takes or puts back stock
\* without its row, and none does it twice.
THEOREM LedgerBalances == Spec => []StockMatchesLedger
<1>1. Init => StockMatchesLedger
  <2> SUFFICES ASSUME Init, NEW i \in Ingredients
               PROVE  stock[i] = InitStock[i] + itoIn[i] - Total(out, i) + Total(back, i)
    BY DEF StockMatchesLedger
  <2> DEFINE none == [o \in Orders |-> Nothing]
             f == [o \in Orders |-> none[o][i]]
  <2>1. \A o \in Orders : f[o] = 0
    BY DEF Nothing
  <2>2. Total(none, i) = SumFunctionOnSet(f, Orders)
    BY DEF Total, SumFunction
  <2> HIDE DEF f
  <2>3. Total(none, i) = 0
    BY <2>1, <2>2, KitchenAssumptions, SumZero
  <2>4. out = none /\ back = none /\ stock[i] = InitStock[i] /\ itoIn[i] = 0
    BY DEF Init, Nothing
  <2>5. InitStock[i] \in Int
    BY KitchenAssumptions
  <2> HIDE DEF none
  <2> QED BY <2>3, <2>4, <2>5
<1>2. OrderInv /\ StockMatchesLedger /\ [Next]_vars => StockMatchesLedger'
  <2> SUFFICES ASSUME OrderInv, StockMatchesLedger, [Next]_vars, NEW i \in Ingredients
               PROVE  stock'[i] = InitStock[i] + itoIn'[i] - Total(out', i) + Total(back', i)
    BY DEF StockMatchesLedger, Total
  <2>1. TypeInv /\ TypeInv' /\ \A o \in Orders : OrderOK(o)
    BY OrderByOrder, TypeStep
  <2>2. /\ out \in [Orders -> Quantities] /\ out' \in [Orders -> Quantities]
        /\ back \in [Orders -> Quantities] /\ back' \in [Orders -> Quantities]
        /\ stock \in [Ingredients -> Int] /\ itoIn \in Quantities /\ InitStock[i] \in Int
        /\ used \in [Orders -> Quantities]
    BY <2>1, KitchenAssumptions DEF TypeInv, TypeOK
  <2>3. stock[i] = InitStock[i] + itoIn[i] - Total(out, i) + Total(back, i)
    BY DEF StockMatchesLedger
  <2>4. CASE UNCHANGED <<stock, itoIn, out, back>>
    BY <2>3, <2>4
  <2>5. ASSUME NEW k \in Ingredients, Delivered(k), UNCHANGED <<out, back>>
        PROVE  stock'[i] = InitStock[i] + itoIn'[i] - Total(out', i) + Total(back', i)
    <3>1. \/ stock'[i] = stock[i] + 1 /\ itoIn'[i] = itoIn[i] + 1
          \/ stock'[i] = stock[i] /\ itoIn'[i] = itoIn[i]
      BY <2>2, <2>5 DEF Delivered, Quantities
    <3>2. out' = out /\ back' = back
      BY <2>5
    <3>3. stock[i] \in Int /\ itoIn[i] \in Int
      BY <2>2 DEF Quantities
    <3>5. Total(out, i) \in Int /\ Total(back, i) \in Int
      <4> DEFINE f == [o \in Orders |-> out[o][i]]
                 g == [o \in Orders |-> back[o][i]]
      <4>1. \A o \in Orders : f[o] \in Int /\ g[o] \in Int
        BY <2>2 DEF Quantities
      <4>2. Total(out, i) = SumFunctionOnSet(f, Orders) /\ Total(back, i) = SumFunctionOnSet(g, Orders)
        BY DEF Total, SumFunction
      <4> HIDE DEF f, g
      <4> QED BY <4>1, <4>2, KitchenAssumptions, SumInt
    <3> QED BY <2>2, <2>3, <3>1, <3>2, <3>3, <3>5
  <2>6. ASSUME NEW o \in Orders, Prepared(o)
        PROVE  stock'[i] = InitStock[i] + itoIn'[i] - Total(out', i) + Total(back', i)
    <3>1. PICK r \in Recipes : Deduct(o, r)
      BY <2>6 DEF Prepared
    <3>2. r \in Quantities
      BY RecipesTyped
    <3>3. stock'[i] = stock[i] - r[i] /\ back' = back /\ itoIn' = itoIn
      BY <3>1 DEF Deduct
    <3>4. out'[o] = r /\ out[o] = Nothing /\ \A k \in Orders \ {o} : out'[k] = out[k]
      <4>1. out[o] = Nothing /\ out' = PostLedger(out, o, r)
        BY <2>1, <2>6, <3>1 DEF Prepared, Deduct, OrderOK
      <4> QED BY <2>2, <3>2, <4>1, LedgerTyped
    <3>5. Total(out, i) \in Int /\ Total(out', i) = Total(out, i) - out[o][i] + out'[o][i]
      BY <2>2, <3>4, TotalChanges
    <3>6. Total(back, i) \in Int
      BY <2>2, TotalChanges
    <3>7. out[o][i] = 0 /\ out'[o][i] = r[i] /\ r[i] \in Int /\ stock[i] \in Int /\ itoIn[i] \in Int
      BY <2>2, <3>2, <3>4 DEF Nothing, Quantities
    <3> QED BY <2>2, <2>3, <3>3, <3>5, <3>6, <3>7
  <2>7. ASSUME NEW o \in Orders, Cancelled(o)
        PROVE  stock'[i] = InitStock[i] + itoIn'[i] - Total(out', i) + Total(back', i)
    <3>1. back[o] = Nothing
      BY <2>1, <2>7 DEF Cancelled, OrderOK
    <3>2. stock'[i] = stock[i] + used[o][i] /\ out' = out /\ itoIn' = itoIn
      BY <2>7 DEF Cancelled, Restock
    <3>3. back'[o] = used[o] /\ \A k \in Orders \ {o} : back'[k] = back[k]
      <4>1. used[o] \in Quantities /\ back' = PostLedger(back, o, used[o])
        BY <2>2, <2>7 DEF Cancelled, Restock
      <4> QED BY <2>2, <3>1, <4>1, LedgerTyped
    <3>4. Total(back, i) \in Int /\ Total(back', i) = Total(back, i) - back[o][i] + back'[o][i]
      <4>1. /\ back \in [Orders -> Quantities] /\ back' \in [Orders -> Quantities]
            /\ \A k \in Orders \ {o} : back'[k] = back[k]
        BY <2>2, <3>3
      <4> QED BY <4>1, TotalChanges
    <3>5. Total(out, i) \in Int
      BY <2>2, TotalChanges
    <3>6. back[o][i] = 0 /\ used[o][i] \in Int /\ stock[i] \in Int /\ itoIn[i] \in Int
      BY <2>2, <3>1 DEF Nothing, Quantities
    <3>7. back'[o][i] = used[o][i]
      BY <3>3
    <3> QED BY <2>2, <2>3, <3>2, <3>4, <3>5, <3>6, <3>7
  <2>8. ASSUME NEW o \in Orders, Placed(o) \/ Finished(o) PROVE UNCHANGED <<stock, itoIn, out, back>>
    BY <2>8 DEF Placed, Finished
  <2>9. CASE Quiet
    BY <2>4, <2>5, <2>9 DEF Quiet
  <2> QED BY <2>1, <2>4, <2>6, <2>7, <2>8, <2>9, StepKinds
<1> QED BY <1>1, <1>2, OrderInductive, PTL DEF Spec

-----------------------------------------------------------------------------
(* The stages an order may go through, and the kitchen's promise           *)

\* Concurrent advances and cancels never skip a stage, repeat one or revive an
\* order.
THEOREM StagesInOrder == Spec => StageMovesForward
<1>1. TypeInv /\ [Next]_vars =>
        [\A o \in Orders : stage'[o] # stage[o] =>
          \/ stage[o] = "ABSENT" /\ stage'[o] = "NEW"
          \/ stage[o] \in {"NEW", "PREPARING", "READY"}
                /\ stage'[o] \in {NextStage(stage[o]), "CANCELLED"}]_vars
  <2> SUFFICES ASSUME TypeInv, [Next]_vars, NEW o \in Orders, stage'[o] # stage[o]
               PROVE  \/ stage[o] = "ABSENT" /\ stage'[o] = "NEW"
                      \/ stage[o] \in {"NEW", "PREPARING", "READY"}
                            /\ stage'[o] \in {NextStage(stage[o]), "CANCELLED"}
    OBVIOUS
  <2>1. stage \in [Orders -> Stages]
    BY DEF TypeInv, TypeOK
  <2>2. ASSUME NEW k \in Orders, Placed(k) \/ Prepared(k) \/ Finished(k) \/ Cancelled(k)
        PROVE  \/ stage[o] = "ABSENT" /\ stage'[o] = "NEW"
               \/ stage[o] = "NEW" /\ stage'[o] = "PREPARING"
               \/ stage[o] = "PREPARING" /\ stage'[o] = "READY"
               \/ stage[o] = "READY" /\ stage'[o] = "COMPLETED"
               \/ stage[o] \in {"NEW", "PREPARING", "READY"} /\ stage'[o] = "CANCELLED"
    BY <2>1, <2>2 DEF Placed, Prepared, Finished, Cancelled
  <2>3. /\ NextStage("NEW") = "PREPARING" /\ NextStage("PREPARING") = "READY"
        /\ NextStage("READY") = "COMPLETED"
    BY DEF NextStage
  <2> QED BY <2>2, <2>3, StepKinds DEF Quiet
<1> QED BY <1>1, TypeInductive, PTL DEF Spec, StageMovesForward

\* The kitchen keeps its promise: every step of the concurrent requests is a
\* step of OrderPromise or leaves its variables alone.
THEOREM PromiseKept == Spec => KeepsPromise
<1>1. Init => Promise!PInit
  BY KitchenAssumptions DEF Init, Promise!PInit, Promise!Nothing, Nothing
<1>2. OrderInv /\ [Next]_vars => [Promise!PNext]_(Promise!promiseVars)
  <2> SUFFICES ASSUME OrderInv, [Next]_vars PROVE [Promise!PNext]_(Promise!promiseVars)
    OBVIOUS
  <2>1. TypeInv /\ TypeInv' /\ \A o \in Orders : OrderOK(o)
    BY OrderByOrder, TypeStep
  <2>2. /\ stock \in [Ingredients -> Int] /\ stock' \in [Ingredients -> Int]
        /\ used \in [Orders -> Quantities]
    BY <2>1 DEF TypeInv, TypeOK
  <2>3. CASE Quiet
    BY <2>2, <2>3 DEF Quiet, Promise!PNext, Promise!Supply
  <2>4. ASSUME NEW o \in Orders, Placed(o) PROVE Promise!PNext
    BY <2>4 DEF Placed, Promise!PNext, Promise!Place
  <2>5. ASSUME NEW o \in Orders, Prepared(o) PROVE Promise!PNext
    <3>1. PICK r \in Recipes : Deduct(o, r)
      BY <2>5 DEF Prepared
    <3>2. [i \in Ingredients |-> used[o][i] + r[i]] = r
      <4>1. used[o] = Nothing /\ r \in Quantities
        BY <2>1, <2>5, RecipesTyped DEF Prepared, OrderOK
      <4> QED BY <4>1 DEF Nothing, Quantities
    <3>3. used' = [used EXCEPT ![o] = r]
      BY <3>1, <3>2 DEF Deduct
    <3>4. Promise!Prepare(o, r)
      BY <2>5, <3>1, <3>3 DEF Prepared, Deduct, Promise!Prepare
    <3> QED BY <3>4 DEF Promise!PNext
  <2>6. ASSUME NEW o \in Orders, Finished(o) PROVE Promise!PNext
    BY <2>6 DEF Finished, Promise!PNext, Promise!Finish
  <2>7. ASSUME NEW o \in Orders, Cancelled(o) PROVE Promise!PNext
    BY <2>7 DEF Cancelled, Restock, Nothing, Promise!PNext, Promise!Cancel, Promise!Nothing
  <2> QED BY <2>1, <2>3, <2>4, <2>5, <2>6, <2>7, StepKinds
<1> QED BY <1>1, <1>2, OrderInductive, PTL DEF Spec, KeepsPromise, Promise!PSpec
==============================================================================
