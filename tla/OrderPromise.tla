---------------------------- MODULE OrderPromise ----------------------------
(***************************************************************************)
(* What the kitchen promises of an order, without any of the concurrency:  *)
(* it is placed once, it takes its ingredients from the kitchen's stock in *)
(* the very step in which preparation begins, and a cancellation puts back *)
(* exactly what that order took.  KitchenOrders implements this.           *)
(***************************************************************************)
EXTENDS Integers

CONSTANTS Orders, Ingredients, Portions

VARIABLES stage, stock, taken

promiseVars == <<stage, stock, taken>>

Nothing == [i \in Ingredients |-> 0]

PInit ==
    /\ stage \in [Orders -> {"ABSENT", "NEW"}]
    /\ stock \in [Ingredients -> Int]
    /\ taken = [o \in Orders |-> Nothing]

Place(o) ==
    /\ stage[o] = "ABSENT"
    /\ stage' = [stage EXCEPT ![o] = "NEW"]
    /\ UNCHANGED <<stock, taken>>

\* The one step that takes ingredients; stock may go negative, visibly.
Prepare(o, portion) ==
    /\ stage[o] = "NEW"
    /\ stage' = [stage EXCEPT ![o] = "PREPARING"]
    /\ taken' = [taken EXCEPT ![o] = portion]
    /\ stock' = [i \in Ingredients |-> stock[i] - portion[i]]

Finish(o) ==
    /\ \/ stage[o] = "PREPARING" /\ stage' = [stage EXCEPT ![o] = "READY"]
       \/ stage[o] = "READY" /\ stage' = [stage EXCEPT ![o] = "COMPLETED"]
    /\ UNCHANGED <<stock, taken>>

Cancel(o) ==
    /\ stage[o] \in {"NEW", "PREPARING", "READY"}
    /\ stage' = [stage EXCEPT ![o] = "CANCELLED"]
    /\ stock' = [i \in Ingredients |-> stock[i] + taken[o][i]]
    /\ taken' = [taken EXCEPT ![o] = Nothing]

\* Deliveries and corrections are not the orders' business.
Supply ==
    /\ stock' \in [Ingredients -> Int]
    /\ UNCHANGED <<stage, taken>>

PNext ==
    \/ \E o \in Orders : Place(o) \/ Finish(o) \/ Cancel(o)
    \/ \E o \in Orders, portion \in Portions : Prepare(o, portion)
    \/ Supply

PSpec == PInit /\ [][PNext]_promiseVars
=============================================================================
