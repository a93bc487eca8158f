--------------------------- MODULE MCHqDocuments ---------------------------
(* A small instance of HqDocuments for TLC.                                *)
EXTENDS HqDocuments, TLC

CONSTANTS hq, quar, shop, flour, a, b, t1, b1, q1, q2, owner, main, clerk

\* Bound: which desk works.  The desks are explored side by side on the same
\* ledger rather than in every interleaving of one with another.
VARIABLE desk

\* At the releases desk the batch comes in undisturbed: one request at a time,
\* none of which fails; what follows is not restricted.
Undisturbed ==
    IF rStatus[b1] = "RECEIVED_DISPOSED"
    THEN /\ UNCHANGED returnVars
         /\ \A c \in Callers : call'[c] = Idle \/ call'[c].slot[1] \in Releases
    ELSE /\ \A c, k \in Callers : c = k \/ call'[c] = Idle \/ call'[k] = Idle
         /\ \A c \in Callers : call'[c].phase # "refused" /\ call[c].phase # "refused"
         /\ \A s \in Slots : doc[s].state = "OPEN" =>
              \E c \in Callers : call'[c].slot = s
         /\ rVersion' = rVersion \/ rStatus' # rStatus

\* Bound: who submits.
Submitters ==
    /\ tMaker'[t1] \in {None, owner} /\ rMaker'[b1] \in {None, clerk}
    /\ \A q \in Releases : qMaker'[q] \in {None, owner}

MCInit == HqInit /\ desk \in {"transfers", "returns", "releases"}
MCNext ==
    /\ HqNext
    /\ CASE desk = "transfers" -> UNCHANGED <<returnVars, releaseVars>>
         [] desk = "returns" -> UNCHANGED <<transferVars, releaseVars, today>>
         [] desk = "releases" -> UNCHANGED <<transferVars, today>> /\ Undisturbed
    /\ Submitters /\ UNCHANGED desk
MCSpec == MCInit /\ [][MCNext]_<<hqVars, desk>>

Symmetry == Permutations(Callers)

MCPurpose == (hq :> "HQ_MAIN") @@ (quar :> "QUARANTINE") @@ (shop :> "OUTLET_STORAGE")
MCSite == (hq :> "HQ") @@ (quar :> "HQ") @@ (shop :> "S1")
MCLots == {a, b, QuarantineLot(b1, 1), ReleasedLot(q1, 1), ReleasedLot(q2, 1)}
MCItemOf == [l \in MCLots |-> flour]
MCExpiry == [l \in MCLots |-> IF l = a THEN 0 ELSE 1]
MCInitStock ==
    [w \in {hq, quar, shop} |-> [l \in MCLots |->
        CASE w = hq /\ l \in {a, b} -> 2 [] w = shop /\ l = a -> 2 [] OTHER -> 0]]
MCSlots ==
    {<<t1, "TRANSFER_ORDER_DISPATCH">>, <<t1, "TRANSFER_ORDER_RECEIPT">>,
     <<b1, "STOCK_RETURN_DISPATCH">>, <<b1, "STOCK_RETURN_RECEIPT">>,
     <<q1, "QA_RELEASE">>, <<q2, "QA_RELEASE">>}
MCRoleOf == (owner :> "OWNER") @@ (main :> "WAREHOUSE_MAIN") @@ (clerk :> "WAREHOUSE_OUTLET")
MCAccess == {<<clerk, "S1">>}

TLine(no, lot, qty) ==
    [no |-> no, item |-> flour, lot |-> lot, qty |-> qty, sent |-> 0, got |-> 0]
MCTransferDrafts ==
    {[from |-> hq, to |-> shop, lines |-> {TLine(1, None, 2)}],
     [from |-> hq, to |-> shop, lines |-> {TLine(1, None, 2), TLine(2, None, 1)}],
     [from |-> hq, to |-> shop, lines |-> {TLine(1, a, 1), TLine(2, b, 1)}]}
MCReturnDrafts ==
    {[site |-> "S1", lines |-> {[no |-> 1, item |-> flour, lot |-> a, wh |-> shop, qty |-> k]}]
       : k \in 1..2}
\* One or two of the base unit, or a pack of two.
RLine(qty, again) == [no |-> 1, batch |-> b1, of |-> 1, qty |-> qty, again |-> again]
MCReleaseDrafts == {{RLine(1, 1)}, {RLine(2, 2)}, {RLine(2, 4)}}
=============================================================================
