-------------------------------- MODULE Boms --------------------------------
(***************************************************************************)
(* Bills of materials (production/service.ts): a header names what is      *)
(* made, its numbered versions name what goes into it.  Every operation is *)
(* one transaction that first locks the production flag's row, so they run *)
(* one after another.                                                      *)
(***************************************************************************)
EXTENDS StockPosting

CONSTANTS
    Headers,
    MaxVersions,     \* bound: versions of a header
    Recipes,         \* sets of components a client may enter
    Yields           \* output_yield_qty values a client may enter

BomStatuses == {"ABSENT", "DRAFT", "ACTIVE", "RETIRED"}
ProductionRoles == {"OWNER", "WAREHOUSE_MAIN"}

\* bom_component: base quantity per yield and scrap allowance in percent.
Component == [no : Nat, item : Items, base : Nat \ {0}, scrap : 0..99]

\* What a client may send.
Recipe == SUBSET Component

ASSUME BomAssumptions ==
    /\ MaxVersions \in Nat \ {0} /\ Yields \subseteq Nat \ {0}
    /\ Recipes \subseteq Recipe /\ IsFiniteSet(Items)
    /\ \A r \in Recipes : IsFiniteSet(r) /\ \A x, y \in r : x.no = y.no => x = y
    /\ None \notin Items

Versions == Headers \X (1..MaxVersions)

VARIABLES
    bOutput,         \* output_item_id of a header, None before it is created
    bStatus, bYield,
    bParts           \* components of a version

bomVars == <<bOutput, bStatus, bYield, bParts>>

BomTypeOK ==
    /\ bOutput \in [Headers -> Items \cup {None}]
    /\ bStatus \in [Versions -> BomStatuses]
    /\ bYield \in [Versions -> Yields \cup {0}]
    /\ bParts \in [Versions -> SUBSET Component]

BomInit ==
    /\ bOutput = [h \in Headers |-> None]
    /\ bStatus = [v \in Versions |-> "ABSENT"]
    /\ bYield = [v \in Versions |-> 0]
    /\ bParts = [v \in Versions |-> {}]

\* Authoring is not bound to an outlet.
MayProduce(u) == RoleOf[u] \in ProductionRoles

-----------------------------------------------------------------------------

\* resolveComponentLines: at least one, no item twice, not the output itself.
ComponentsOk(output, parts) ==
    /\ parts # {}
    /\ \A x, y \in parts : x.item = y.item => x = y
    /\ \A x \in parts : x.item # output

\* Mutant: drafts do not count, so two of them may name each other.
EdgesWithoutDrafts(v, parts) ==
    (UNION {{<<bOutput[w[1]], x.item>> : x \in bParts[w]} :
              w \in {k \in Versions \ {v} : bStatus[k] = "ACTIVE"}})
      \cup {<<bOutput[v[1]], x.item>> : x \in parts}

\* What goes into what: the versions that are ACTIVE or DRAFT, with v having
\* the components proposed for it instead of its own.
Edges(v, parts) ==
    (UNION {{<<bOutput[w[1]], x.item>> : x \in bParts[w]} :
              w \in {k \in Versions \ {v} : bStatus[k] \in {"ACTIVE", "DRAFT"}}})
      \cup {<<bOutput[v[1]], x.item>> : x \in parts}

\* The items reached from item over at most n edges.
Reach(edges, item, n) ==
    LET step[k \in 0..n] ==
          IF k = 0 THEN {e[2] : e \in {d \in edges : d[1] = item}}
          ELSE step[k - 1] \cup {e[2] : e \in {d \in edges : d[1] \in step[k - 1]}}
    IN step[n]

\* assertNoCycle.
NoCycle(v, parts) ==
    bOutput[v[1]] \notin Reach(Edges(v, parts), bOutput[v[1]], Cardinality(Items))

CreateBomHeader(h, u, item) ==
    /\ MayProduce(u) /\ bOutput[h] = None
    /\ bOutput' = [bOutput EXCEPT ![h] = item]
    /\ UNCHANGED <<bStatus, bYield, bParts, stockVars>>

\* The next version number of the header.
CreateDraftVersion(h, n, u, yield) ==
    /\ MayProduce(u) /\ bOutput[h] # None
    /\ \A k \in 1..MaxVersions : bStatus[<<h, k>>] = "ABSENT" <=> k >= n
    /\ bStatus' = [bStatus EXCEPT ![<<h, n>>] = "DRAFT"]
    /\ bYield' = [bYield EXCEPT ![<<h, n>>] = yield]
    /\ UNCHANGED <<bOutput, bParts, stockVars>>

ReplaceDraftComponents(v, u, parts) ==
    /\ MayProduce(u) /\ bStatus[v] = "DRAFT"
    /\ ComponentsOk(bOutput[v[1]], parts) /\ NoCycle(v, parts)
    /\ bParts' = [bParts EXCEPT ![v] = parts]
    /\ UNCHANGED <<bOutput, bStatus, bYield, stockVars>>

\* The version that was active retires in the same transaction.
ActivateVersion(v, u) ==
    /\ MayProduce(u) /\ bStatus[v] = "DRAFT"
    /\ bParts[v] # {} /\ NoCycle(v, bParts[v])
    /\ bStatus' = [w \in Versions |->
         IF w = v THEN "ACTIVE"
         ELSE IF w[1] = v[1] /\ bStatus[w] = "ACTIVE" THEN "RETIRED"
         ELSE bStatus[w]]
    /\ UNCHANGED <<bOutput, bYield, bParts, stockVars>>

RetireVersion(v, u) ==
    /\ MayProduce(u) /\ bStatus[v] = "ACTIVE"
    /\ bStatus' = [bStatus EXCEPT ![v] = "RETIRED"]
    /\ UNCHANGED <<bOutput, bYield, bParts, stockVars>>

BomStep(u) ==
    \/ \E h \in Headers, item \in Items : CreateBomHeader(h, u, item)
    \/ \E h \in Headers, n \in 1..MaxVersions, y \in Yields :
         CreateDraftVersion(h, n, u, y)
    \/ \E v \in Versions :
         \/ \E r \in Recipes : ReplaceDraftComponents(v, u, r)
         \/ ActivateVersion(v, u) \/ RetireVersion(v, u)

BomNext == \E u \in Users : BomStep(u)
=============================================================================
