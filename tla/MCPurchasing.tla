---------------------------- MODULE MCPurchasing ----------------------------
(* A small instance of Purchasing for TLC: one outlet, two ingredients, of  *)
(* which MAIN stocks one, and an order with two lines.                      *)
EXTENDS Purchasing, TLC

CONSTANTS owner, clerk, manager, north, rice, pork, r1, p1, l1, l2

Roles == [u \in Users |-> IF u = owner THEN "OWNER"
                          ELSE IF u = clerk THEN "WAREHOUSE_OUTLET" ELSE "OUTLET_MANAGER"]
Members == {<<clerk, north>>, <<manager, north>>}

Rows == {<<Main(north), rice>>}
Balances == [w \in Warehouses |-> [i \in Ingredients |-> IF <<w, i>> \in Rows THEN 1 ELSE 0]]

Of(i, q) == [key |-> i, item |-> i, qty |-> q]
\* Deliveries of one line, and one that names its ingredient twice.
More == <<Of(rice, 2)>>
OneAndTwice == {<<Of(rice, 1)>>, <<Of(pork, 1), Of(pork, 1)>>, More}
\* A transfer of what MAIN has, and a negative one of what it lacks.
ThereAndBack == {<<Of(rice, 1)>>, <<Of(pork, -1)>>}

RaisedFor == [p \in Orders |-> r1]
OneOrder == [l \in LineIds |-> p1]
TwoItems == [l \in LineIds |-> IF l = l1 THEN rice ELSE pork]
TwoAndOne == [l \in LineIds |-> IF l = l1 THEN 2 ELSE 1]

Got(l, q) == [key |-> l, qty |-> q]
\* Part of a line, a line in two parts, both lines, the rest.
PartsAndWhole == {<<Got(l1, 1)>>, <<Got(l1, 1), Got(l1, 1)>>, <<Got(l1, 2), Got(l2, 1)>>,
                  <<Got(l2, 1)>>}

\* One desk works on the purchase order and its receipts, another on the stock
\* at hand, with direct deliveries at both; the gate takes direct deliveries
\* only, enough of them to push one out of the lookback's candidates.
VARIABLE desk

MCInit == Init /\ desk \in {"orders", "stock", "gate"}
MCNext ==
    /\ Next
    /\ desk = "orders" => UNCHANGED <<ito, adj>> /\ Len(reports') <= 3
    /\ desk = "stock" => UNCHANGED purchasingVars /\ Len(reports') <= 2
    /\ desk = "gate" => UNCHANGED <<purchasingVars, ito, adj>>
    /\ desk # "gate" => \A n \in DOMAIN reports' : reports'[n].lines # More
    /\ UNCHANGED desk
MCSpec == MCInit /\ [][MCNext]_<<vars, desk>>

Symmetry == Permutations(Callers)
=============================================================================
