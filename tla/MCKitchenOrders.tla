-------------------------- MODULE MCKitchenOrders --------------------------
(* Small instances of KitchenOrders for TLC.                               *)
EXTENDS KitchenOrders, TLC

CONSTANTS rice, pork

RiceBowl == [i \in Ingredients |-> 1]
PorkBowl == [i \in Ingredients |-> IF i = pork THEN 2 ELSE 0]
Garnish == [i \in Ingredients |-> 0]

\* Recipes that differ in every ingredient, and one without stock lines.
AllRecipes == {RiceBowl, PorkBowl, Garnish}
OneRecipe == {RiceBowl}
OneEach == [i \in Ingredients |-> 1]

Symmetry == Permutations(Callers)
=============================================================================
