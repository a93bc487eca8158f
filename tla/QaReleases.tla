----------------------------- MODULE QaReleases -----------------------------
(***************************************************************************)
(* QA releases (qa-releases/service.ts): stock HQ holds in quarantine for  *)
(* a reusable return moves to HQ_MAIN under a new, allocatable lot.  Every *)
(* line books a quantity of one receipt line of a return batch; bookings   *)
(* of other releases count against what remains of it.                     *)
(***************************************************************************)
EXTENDS StockReturns

CONSTANTS
    Releases,
    ReleaseDrafts    \* sets of lines a client may enter

ReleaseStatuses == {"ABSENT", "DRAFT", "SUBMITTED", "APPROVED", "RELEASED", "CANCELLED"}
ReleaseRoles == {"OWNER", "WAREHOUSE_MAIN"}

\* A qa_release_line and the receipt line it draws on: qty is in the base unit;
\* again is what qty becomes when it is taken for an amount in the entered unit
\* and converted once more, more than there can be where that is not exact.
ReleaseLine == [no : Nat, batch : ReturnBatches, of : Nat, qty : Quantity, again : Nat]

\* What a client may send.
ReleaseDraft == SUBSET ReleaseLine

\* The allocatable lot a line becomes, QA-RELEASE:<release>:<line>.
ReleasedLot(q, no) == <<"QA-RELEASE", q, no>>

ASSUME ReleaseAssumptions ==
    /\ IsFiniteSet(Releases) /\ ReleaseDrafts \subseteq ReleaseDraft
    /\ \A d \in ReleaseDrafts : IsFiniteSet(d)
    /\ \A d \in ReleaseDrafts : \A l, k \in d :
         /\ l.no = k.no => l = k
         /\ \A q \in Releases :
              /\ ReleasedLot(q, l.no) \in Lots \ OpeningLots
              /\ Expiry[ReleasedLot(q, l.no)] >= LastDay
              /\ QuarantineLot(l.batch, l.of) \in Lots
    /\ \A q \in Releases : <<q, "QA_RELEASE">> \in Slots

VARIABLES
    qStatus, qVersion,
    qMaker,          \* requested_by
    qLines

releaseVars == <<qStatus, qVersion, qMaker, qLines>>

ReleaseSlot(q) == <<q, "QA_RELEASE">>

ReleaseTypeOK ==
    /\ qStatus \in [Releases -> ReleaseStatuses]
    /\ qVersion \in [Releases -> Nat]
    /\ qMaker \in [Releases -> Users \cup {None}]
    /\ qLines \in [Releases -> SUBSET ReleaseLine]

ReleaseInit ==
    /\ qStatus = [q \in Releases |-> "ABSENT"]
    /\ qVersion = [q \in Releases |-> 0]
    /\ qMaker = [q \in Releases |-> None]
    /\ qLines = [q \in Releases |-> {}]

-----------------------------------------------------------------------------

\* What other releases, not cancelled, have booked of a receipt line.
Booked(batch, of, self) ==
    LET siblings == {p \in Releases \ {self} : qStatus[p] # "CANCELLED"}
        lines == UNION {{<<p, l>> : l \in qLines[p]} : p \in siblings} IN
    MapThenSumSet(LAMBDA x : x[2].qty,
                  {x \in lines : x[2].batch = batch /\ x[2].of = of})

\* A receipt line received for a reusable reason, with the amount unbooked.
Releasable(l, amount, self) ==
    \E x \in rReceipt[l.batch] :
        /\ x.no = l.of /\ x.reason \in Reusable
        /\ amount <= x.qty - Booked(l.batch, l.of, self)

\* resolveAndValidateLines: distinct receipt lines; self is left out of the sums.
DistinctReceipts(lines) ==
    /\ lines # {}
    /\ \A l, k \in lines : l.batch = k.batch /\ l.of = k.of => l = k
ReleaseLinesOk(lines, self) ==
    DistinctReceipts(lines) /\ \A l \in lines : Releasable(l, l.qty, self)

\* The same on the stored lines: the stored base quantity is given back with the
\* entered unit and converted a second time.
StoredLinesOk(lines, self) ==
    DistinctReceipts(lines) /\ \A l \in lines : Releasable(l, l.again, self)

ReleaseAdvances(q, from, to) ==
    /\ qStatus[q] \in from
    /\ qStatus' = [qStatus EXCEPT ![q] = to]
    /\ qVersion' = [qVersion EXCEPT ![q] = @ + 1]

MayRelease(u) == MayAct(u, ReleaseRoles, HqSite)

CreateQaReleaseDraft(q, u, lines) ==
    /\ MayRelease(u) /\ ReleaseLinesOk(lines, q)
    /\ ReleaseAdvances(q, {"ABSENT"}, "DRAFT")
    /\ qLines' = [qLines EXCEPT ![q] = lines]
    /\ UNCHANGED <<qMaker, returnVars, stockVars>>

UpdateQaReleaseDraft(q, u, lines) ==
    /\ qVersion[q] <= MaxEdits
    /\ qStatus[q] = "DRAFT" /\ MayRelease(u) /\ ReleaseLinesOk(lines, q)
    /\ qVersion' = [qVersion EXCEPT ![q] = @ + 1]
    /\ qLines' = [qLines EXCEPT ![q] = lines]
    /\ UNCHANGED <<qStatus, qMaker, returnVars, stockVars>>

SubmitQaRelease(q, u) ==
    /\ ReleaseAdvances(q, {"DRAFT"}, "SUBMITTED")
    /\ MayRelease(u) /\ StoredLinesOk(qLines[q], q)
    /\ qMaker' = [qMaker EXCEPT ![q] = u]
    /\ UNCHANGED <<qLines, returnVars, stockVars>>

ApproveQaRelease(q, u) ==
    /\ ReleaseAdvances(q, {"SUBMITTED"}, "APPROVED")
    /\ MayRelease(u) /\ u # qMaker[q]
    /\ UNCHANGED <<qMaker, qLines, returnVars, stockVars>>

\* Cancelling frees the booking, also while the release is being posted.
CancelQaRelease(q, u) ==
    /\ ReleaseAdvances(q, {"DRAFT", "SUBMITTED", "APPROVED"}, "CANCELLED")
    /\ MayRelease(u)
    /\ UNCHANGED <<qMaker, qLines, returnVars, stockVars>>

-----------------------------------------------------------------------------
(* releaseQaRelease                                                        *)

ReleaseMove(l, way, w, lot, policy) ==
    [line |-> l.no, way |-> way, wh |-> w, lot |-> lot, qty |-> l.qty,
     policy |-> policy]
ReleasePlan(q) ==
    {ReleaseMove(l, "OUT", Quarantine, QuarantineLot(l.batch, l.of), "QUARANTINE_RELEASE")
       : l \in qLines[q]}
      \cup {ReleaseMove(l, "IN", HqMain, ReleasedLot(q, l.no), "ALLOCATABLE")
              : l \in qLines[q]}

\* ensureReleasedLot: the lots stay, whatever becomes of the posting.
ReleasedLotsMinted(q) ==
    lotState' = [k \in Lots |->
        IF k \in {ReleasedLot(q, l.no) : l \in qLines[q]} THEN "AVAILABLE"
        ELSE lotState[k]]

ReleasePrepare(c, q, u) ==
    /\ qStatus[q] \in {"APPROVED", "RELEASED"}
    /\ MayRelease(u)
    /\ Prepared(c, ReleaseSlot(q), ReleasePlan(q), {}, qVersion[q])
    /\ ReleasedLotsMinted(q)
    /\ UNCHANGED <<releaseVars, returnVars, onHand, today, posting>>

ReleaseFinalize(c, q) ==
    /\ call[c].phase = "posted" /\ call[c].slot = ReleaseSlot(q)
    /\ Finished(c)
    /\ IF qStatus[q] = "APPROVED" /\ qVersion[q] = call[c].version /\ DocumentStands(c)
       THEN ReleaseAdvances(q, {"APPROVED"}, "RELEASED")
       ELSE UNCHANGED <<qStatus, qVersion>>
    /\ UNCHANGED <<qMaker, qLines, returnVars, onHand, lotState, today, doc, posting>>

-----------------------------------------------------------------------------

ReleaseStep(q) ==
    \/ \E u \in Users :
         \/ \E lines \in ReleaseDrafts :
              CreateQaReleaseDraft(q, u, lines) \/ UpdateQaReleaseDraft(q, u, lines)
         \/ SubmitQaRelease(q, u) \/ ApproveQaRelease(q, u) \/ CancelQaRelease(q, u)
         \/ \E c \in Callers : ReleasePrepare(c, q, u)
    \/ \E c \in Callers : ReleaseFinalize(c, q)

ReleaseNext == \E q \in Releases : ReleaseStep(q)
=============================================================================
