---------------------------- MODULE HqDocuments ----------------------------
(***************************************************************************)
(* Transfers, returns and QA releases at work on one stock ledger.         *)
(***************************************************************************)
EXTENDS Transfers, QaReleases

hqVars == <<stockVars, transferVars, returnVars, releaseVars>>

HqInit == StockInit /\ TransferInit /\ ReturnInit /\ ReleaseInit

HqNext ==
    \/ (PostingNext \/ \E c \in Callers : Compensate(c))
         /\ UNCHANGED <<transferVars, returnVars, releaseVars>>
    \/ TransferNext /\ UNCHANGED <<returnVars, releaseVars>>
    \/ ReturnNext /\ UNCHANGED <<transferVars, releaseVars>>
    \/ ReleaseNext /\ UNCHANGED transferVars

HqSpec == HqInit /\ [][HqNext]_hqVars

-----------------------------------------------------------------------------
(* Properties                                                              *)

HqTypeOK == StockTypeOK /\ TransferTypeOK /\ ReturnTypeOK /\ ReleaseTypeOK

\* The reasons the receipt rows of a batch record, by line.
ReceivedFor(b) == [n \in {x.no : x \in rReceipt[b]} |->
                     (CHOOSE x \in rReceipt[b] : x.no = n).reason]

\* A status that says stock has moved is backed by the one posting that moved
\* it, and the rows the handler wrote tell that posting's lots, quantities and
\* reasons: also after crashes, lost answers, replays and concurrent requests.
StatusBackedByPosting ==
    /\ \A o \in TransferOrders :
         /\ tStatus[o] \in {"DISPATCHED", "RECEIVED"} =>
              posting[DispatchSlot(o)] = {DispatchMove(l, tFrom[o], l.lot) : l \in tLines[o]}
         /\ tStatus[o] = "RECEIVED" =>
              posting[ReceiptSlot(o)] = {ReceiptMove(l, tTo[o], l.got) : l \in tLines[o]}
    /\ \A b \in ReturnBatches :
         /\ rStatus[b] \in {"DISPATCHED", "RECEIVED_DISPOSED"} =>
              posting[ReturnSlot(b)] = ReturnPlan(b)
         /\ rStatus[b] = "RECEIVED_DISPOSED" =>
              posting[ReturnReceiptSlot(b)] = ReturnReceiptPlan(b, ReceivedFor(b))
    /\ \A q \in Releases :
         qStatus[q] = "RELEASED" => posting[ReleaseSlot(q)] = ReleasePlan(q)

\* What has been posted in at the far end of a move was posted out at the near
\* end before: line for line, of the same lot, and no more of it.
ReceivedWithinDispatched ==
    /\ \A o \in TransferOrders : \A m \in posting[ReceiptSlot(o)] :
         \E k \in posting[DispatchSlot(o)] :
            k.line = m.line /\ k.lot = m.lot /\ m.qty <= k.qty
    /\ \A b \in ReturnBatches : \A m \in posting[ReturnReceiptSlot(b)] :
         \E k \in posting[ReturnSlot(b)] : k.line = m.line /\ m.qty = k.qty

\* What a receipt holds of a lot and what a release takes of it, by plan and of
\* all that was posted.
HeldIn(plan, lot) == QtyOf({m \in plan : m.lot = lot /\ m.policy = "QUARANTINE_HOLD"})
TakenIn(plan, lot) == QtyOf({m \in plan : m.lot = lot /\ m.way = "OUT"})
HeldOf(lot) ==
    SumFunction([b \in ReturnBatches |-> HeldIn(posting[ReturnReceiptSlot(b)], lot)])
ReleasedOf(lot) ==
    SumFunction([q \in Releases |-> TakenIn(posting[ReleaseSlot(q)], lot)])

\* Quarantine custody: a quarantine lot lies nowhere but in quarantine, and all
\* releases together, cancelled ones whose posting went through included, take
\* at most what was held for a reusable reason; condemned stock never returns.
ReleasedWithinHeld ==
    \A l \in Lots : lotState[l] = "QUARANTINED" =>
        /\ \A w \in Warehouses \ {Quarantine} : onHand[w][l] = 0
        /\ ReleasedOf(l) + onHand[Quarantine][l] = HeldOf(l)

\* A posting is final: no retry, compensation or edit changes it, and the
\* document it was posted against stays.
PostingsAreFinal ==
    [][\A s \in Slots : posting[s] # {} =>
         posting'[s] = posting[s] /\ doc'[s].state = "POSTED"]_hqVars

\* A retry replays: whoever comes back to a return, a release or a transfer
\* with pinned lots after its stock has left asks for the very plan that was
\* posted, so the handler can finish and the key is never refused as reused.
RetryReplays ==
    \A c \in Callers :
        LET s == call[c].slot IN
        /\ call[c].phase = "prepared" /\ posting[s] # {}
        /\ \/ s[2] \in {"STOCK_RETURN_DISPATCH", "QA_RELEASE"}
           \/ /\ s[2] = "TRANSFER_ORDER_DISPATCH" /\ tStatus[s[1]] = "APPROVED"
              /\ \A l \in tLines[s[1]] : l.lot # None
        => call[c].plan = posting[s]
=============================================================================
