---------------------------- MODULE MCProduction ----------------------------
(* A small instance of Production for TLC.                                 *)
EXTENDS Production, TLC

CONSTANTS prod, shop, flour, dough, bread, a, b, loaf, h1, h2, j1, j2, o1, o2,
          owner, main

\* Bound: which desk works, each with what it needs from the ones before it.
VARIABLE desk

\* Two bills of materials that could need each other.
TwoBoms ==
    /\ bOutput'[h1] # flour
    /\ \A v \in Versions : bYield'[v] \in {0, 1}
    /\ UNCHANGED <<jobVars, orderVars, stockVars>>

\* One bill of materials, written once and activated, yielding two units.
OneBom ==
    /\ bOutput'[h1] \in {None, dough} /\ bOutput'[h2] = None
    /\ bStatus'[<<h1, 2>>] = "ABSENT" /\ bStatus'[<<h1, 1>>] # "RETIRED"
    /\ bYield'[<<h1, 1>>] \in {0, 2}
    /\ \A x \in bParts'[<<h1, 1>>] : x.item = flour
    /\ bParts[<<h1, 1>>] # {} => bParts' = bParts

\* Jobs submitted by the owner, the second drafted after the first and started.
TwoJobs ==
    /\ OneBom /\ UNCHANGED orderVars
    /\ \A j \in Jobs : jMaker'[j] \in {None, owner} /\ jEvidence'[j] \in 0..2
    /\ jStatus'[j2] # "ABSENT" => jStatus[j1] # "ABSENT"
    /\ jStatus'[j2] \notin {"COMPLETED", "FAILED", "CANCELLED"} /\ jEvidence'[j2] = 0

\* A job without mishap for the orders to wait for: it is under way before
\* there is one.
OneJob ==
    /\ jStatus'[j2] = "ABSENT" /\ jStatus'[j1] \notin {"CANCELLED", "FAILED"}
    /\ jMaker'[j1] \in {None, owner} /\ jEvidence'[j1] \in 0..1
    /\ today' # today => \E o \in Orders : oStatus[o] = "READY" /\ oNeeds[o][1].job = j1
    /\ \A c \in Callers : call'[c].slot[1] = j1 =>
         /\ call'[c].phase # "refused" /\ (call[c].phase # "idle" => call[c].slot[1] = j1)
         /\ \A k \in Callers \ {c} : call'[k] = Idle
    /\ \A c \in Callers : call[c].slot[1] = j1 /\ call'[c] = Idle => jStatus' # jStatus
    /\ orderVars' = orderVars \/ jStatus[j1] \in {"IN_PROGRESS", "COMPLETED"}

\* Both orders submitted by the owner, one of them linked to the job, the other
\* not edited.
TwoOrders ==
    /\ OneBom /\ OneJob
    /\ \A o \in Orders : oMaker'[o] \in {None, owner}
    /\ \A i \in DOMAIN oNeeds'[o2] : oNeeds'[o2][i].job = None
    /\ oNeeds[o2] # <<>> => oNeeds'[o2] = oNeeds[o2] /\ (oStatus'[o2] = "DRAFT" => oVersion'[o2] = 1)

MCInit == ProductionInit /\ desk \in {"boms", "jobs", "orders"}
MCNext ==
    /\ ProductionNext
    /\ CASE desk = "boms" -> TwoBoms [] desk = "jobs" -> TwoJobs [] desk = "orders" -> TwoOrders
    /\ UNCHANGED desk
MCSpec == MCInit /\ [][MCNext]_<<productionVars, desk>>

Symmetry == Permutations(Callers)

MCPurpose == (prod :> "PRODUCTION") @@ (shop :> "OUTLET_STORAGE")
MCSite == (prod :> "S1") @@ (shop :> "S1")
MCLots == {a, b, loaf, OutputLot(j1), OutputLot(j2)}
MCItemOf == (a :> flour) @@ (b :> flour) @@ (loaf :> bread) @@ (OutputLot(j1) :> dough)
              @@ (OutputLot(j2) :> dough)
MCExpiry == [l \in MCLots |-> IF l \in {a, OutputLot(j1)} THEN 0 ELSE 1]
MCInitStock ==
    [w \in {prod, shop} |-> [l \in MCLots |->
        CASE w = prod /\ l = a -> 1 [] w = prod /\ l = b -> 5 [] w = shop /\ l = loaf -> 2
          [] OTHER -> 0]]
MCFefo ==
    LET rank == (a :> 0) @@ (b :> 2) @@ (loaf :> 3) @@ (OutputLot(j1) :> 1)
                  @@ (OutputLot(j2) :> 4) IN
    [x \in {prod, shop} \X MCLots |-> 2 * rank[x[2]] + IF x[1] = prod THEN 0 ELSE 1]
MCSlots ==
    ({j1, j2} \X {"PRODUCTION_CONSUME", "PRODUCTION_OUTPUT"})
      \cup ({o1, o2} \X {"CUSTOMER_ORDER_FULFILLMENT", "CUSTOMER_ORDER_JOB_OUTPUT_FULFILLMENT"})
MCRoleOf == (owner :> "OWNER") @@ (main :> "WAREHOUSE_MAIN")
MCRecipes ==
    {{[no |-> 1, item |-> i, base |-> 2, scrap |-> 50]} : i \in {flour, dough, bread}}
MCJobDrafts == {[version |-> <<h1, 1>>, site |-> "S1", qty |-> q] : q \in 1..2}
Line(no, i, q, j) == [no |-> no, item |-> i, qty |-> q, job |-> j]
MCOrderDrafts ==
    {[site |-> "S1", needs |-> <<Line(1, bread, 1, None), Line(2, dough, 1, j1)>>],
     [site |-> "S1", needs |-> <<Line(1, dough, 1, j1)>>],
     [site |-> "S1", needs |-> <<Line(1, bread, 2, None)>>],
     [site |-> "S1", needs |-> <<Line(1, bread, 1, None), Line(1, bread, 1, None)>>]}
=============================================================================
