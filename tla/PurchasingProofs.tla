-------------------------- MODULE PurchasingProofs --------------------------
(***************************************************************************)
(* Proofs about Purchasing for any outlets, ingredients, documents, users  *)
(* and receipts in flight.                                                 *)
(***************************************************************************)
EXTENDS Purchasing, SequenceTheorems, SumTheorems

PrStates == {"ABSENT", "DRAFT", "SUBMITTED", "APPROVED", "REJECTED"}
PoStates == {"ABSENT", "DRAFT", "SENT", "PARTIAL", "RECEIVED"}

\* The part of the type invariant that the proofs need.
ShapeOK ==
    /\ reports \in Seq(Report)
    /\ ito \in [Itos -> Ito]
    /\ adj \in [Adjustments -> Adjustment]
    /\ prStatus \in [Requests -> PrStates]
    /\ poStatus \in [Orders -> PoStates]
    /\ receipt \in [Callers -> InFlight]

\* The lines of a receipt with the ingredients of their order lines.
LEMMA ItemsKeepLines ==
    ASSUME NEW lines \in Receipts
    PROVE  /\ WithItems(lines) \in Seq(Line)
           /\ DOMAIN WithItems(lines) = DOMAIN lines
           /\ \A n \in DOMAIN lines : WithItems(lines)[n].key = lines[n].key
<1>1. lines \in Seq([key : LineIds, qty : Nat \ {0}])
  BY PurchasingAssumptions
<1>2. /\ Len(lines) \in Nat /\ DOMAIN lines = 1..Len(lines)
      /\ \A n \in 1..Len(lines) : lines[n] \in [key : LineIds, qty : Nat \ {0}]
  BY <1>1, LenProperties, ElementOfSeq
<1>3. \A n \in 1..Len(lines) : WithItems(lines)[n] \in Line
  BY <1>2, PurchasingAssumptions DEF WithItems, Line
<1> QED BY <1>2, <1>3 DEF WithItems

\* A new report is well formed.
LEMMA NewReportType ==
    ASSUME NEW po \in Orders \cup {None}, NEW ref \in References \cup {None},
           NEW w \in Warehouses, NEW u \in Users, NEW lines \in Seq(Line)
    PROVE  NewReport(po, ref, w, u, lines) \in Report
BY DEF NewReport, Report

\* Its window may close.
LEMMA ClosedReportType ==
    ASSUME NEW r \in Report
    PROVE  /\ [r EXCEPT !.fresh = FALSE] \in Report
           /\ \A s : SameScope(s, [r EXCEPT !.fresh = FALSE]) <=> SameScope(s, r)
           /\ [r EXCEPT !.fresh = FALSE].fresh = FALSE
           /\ [r EXCEPT !.fresh = FALSE].po = r.po
           /\ [r EXCEPT !.fresh = FALSE].lines = r.lines
BY DEF Report, SameScope

\* What a receipt in flight holds.
LEMMA InFlightFields ==
    ASSUME ShapeOK, NEW c \in Callers, receipt[c] # NoReceipt
    PROVE  /\ receipt[c].po \in Orders /\ receipt[c].by \in Users
           /\ receipt[c].at \in Outlets /\ receipt[c].lines \in Seq(Line)
BY DEF ShapeOK, InFlight

\* The shape is inductive.
LEMMA ShapeStep == ShapeOK /\ [Next]_vars => ShapeOK'
<1> SUFFICES ASSUME ShapeOK, [Next]_vars PROVE ShapeOK'
  OBVIOUS
<1> USE DEF ShapeOK
<1>1. ASSUME NEW u \in Users, NEW o \in Outlets, NEW ref \in References, NEW d \in Deliveries,
             DirectReceive(u, o, ref, d), UNCHANGED purchasingVars
      PROVE  ShapeOK'
  <2>1. Main(o) \in Warehouses /\ d \in Seq(Line)
    BY InventoryAssumptions DEF Main, Warehouses
  <2>2. NewReport(None, ref, Main(o), u, d) \in Report
    BY <2>1, NewReportType
  <2>3. reports' \in Seq(Report)
    BY <1>1, <2>2 DEF DirectReceive, FileReport
  <2> QED BY <1>1, <2>3 DEF DirectReceive, purchasingVars
<1>2. ASSUME NEW t \in Itos, NEW u \in Users, NEW o \in Outlets, NEW d \in ItoLines,
             RequestIto(t, u, o, d), UNCHANGED purchasingVars
      PROVE  ShapeOK'
  <2>1. [status |-> "REQUESTED", at |-> o, lines |-> d] \in Ito
    BY InventoryAssumptions DEF Ito
  <2>2. ito' \in [Itos -> Ito]
    BY <1>2, <2>1 DEF RequestIto
  <2> QED BY <1>2, <2>2 DEF RequestIto, purchasingVars
<1>3. ASSUME NEW t \in Itos, NEW u \in Users, ConfirmIto(t, u), UNCHANGED purchasingVars
      PROVE  ShapeOK'
  <2>1. [ito[t] EXCEPT !.status = "CONFIRMED"] \in Ito
    BY DEF Ito
  <2>2. ito' \in [Itos -> Ito]
    BY <1>3, <2>1 DEF ConfirmIto
  <2> QED BY <1>3, <2>2 DEF ConfirmIto, purchasingVars
<1>4. ASSUME NEW a \in Adjustments, NEW u \in Users, NEW w \in Warehouses, NEW i \in Ingredients,
             NEW way \in {"IN", "OUT"}, NEW q \in Amounts, RequestAdjustment(a, u, w, i, way, q),
             UNCHANGED purchasingVars
      PROVE  ShapeOK'
  <2>1. [status |-> "PENDING", by |-> u, wh |-> w, item |-> i, way |-> way, qty |-> q] \in Adjustment
    BY InventoryAssumptions DEF Adjustment
  <2>2. adj' \in [Adjustments -> Adjustment]
    BY <1>4, <2>1 DEF RequestAdjustment
  <2> QED BY <1>4, <2>2 DEF RequestAdjustment, purchasingVars
<1>5. ASSUME NEW a \in Adjustments, NEW u \in Users, UNCHANGED purchasingVars,
             ApproveAdjustment(a, u) \/ RejectAdjustment(a, u)
      PROVE  ShapeOK'
  <2>1. /\ [adj[a] EXCEPT !.status = "APPROVED"] \in Adjustment
        /\ [adj[a] EXCEPT !.status = "REJECTED"] \in Adjustment
    BY DEF Adjustment
  <2>2. adj' \in [Adjustments -> Adjustment]
    BY <1>5, <2>1 DEF ApproveAdjustment, RejectAdjustment
  <2> QED BY <1>5, <2>2 DEF ApproveAdjustment, RejectAdjustment, purchasingVars
<1>6. ASSUME NEW n \in DOMAIN reports, LookbackEnds(n), UNCHANGED purchasingVars
      PROVE  ShapeOK'
  <2>1. [reports[n] EXCEPT !.fresh = FALSE] \in Report
    BY ElementOfSeq, ClosedReportType
  <2>2. reports' \in Seq(Report)
    BY <1>6, <2>1, ExceptSeq DEF LookbackEnds
  <2> QED BY <1>6, <2>2 DEF LookbackEnds, purchasingVars
<1>7. ASSUME NEW u \in Users, NEW r \in Requests, NEW to \in {"APPROVED", "REJECTED"},
             \/ CreatePurchaseRequest(r, u) \/ SubmitPurchaseRequest(r, u)
             \/ Transition(r, u, to)
      PROVE  ShapeOK'
  <2>1. prStatus' \in [Requests -> PrStates]
    BY <1>7 DEF CreatePurchaseRequest, SubmitPurchaseRequest, Transition, PrStates
  <2> QED BY <1>7, <2>1 DEF CreatePurchaseRequest, SubmitPurchaseRequest, Transition, inventoryVars
<1>8. ASSUME NEW u \in Users, NEW p \in Orders,
             CreatePurchaseOrder(p, u) \/ SendPurchaseOrder(p, u)
      PROVE  ShapeOK'
  <2>1. poStatus' \in [Orders -> PoStates]
    BY <1>8 DEF CreatePurchaseOrder, SendPurchaseOrder, PoStates
  <2> QED BY <1>8, <2>1 DEF CreatePurchaseOrder, SendPurchaseOrder, inventoryVars
<1>9. ASSUME NEW u \in Users, NEW p \in Orders, NEW c \in Callers, NEW o \in Outlets,
             NEW d \in Receipts, ReceiveRead(c, p, u, o, d)
      PROVE  ShapeOK'
  <2>1. [po |-> p, by |-> u, at |-> o, lines |-> WithItems(d)] \in InFlight
    BY ItemsKeepLines DEF InFlight
  <2>2. receipt' \in [Callers -> InFlight]
    BY <1>9, <2>1 DEF ReceiveRead
  <2> QED BY <1>9, <2>2 DEF ReceiveRead, inventoryVars
<1>10. ASSUME NEW c \in Callers, ReceiveFiles(c) PROVE ShapeOK'
  <2> DEFINE x == receipt[c]
             r == NewReport(x.po, None, Main(x.at), x.by, x.lines)
  <2>1. x # NoReceipt
    BY <1>10 DEF ReceiveFiles
  <2>2. r \in Report /\ x.po \in Orders
    BY <2>1, InFlightFields, NewReportType DEF Main, Warehouses
  <2>3. reports' \in Seq(Report)
    <3>1. reports' = Append(reports, r)
      BY <1>10 DEF ReceiveFiles, FileReport
    <3> HIDE DEF r
    <3> QED BY <2>2, <3>1
  <2>4. poStatus' \in [Orders -> PoStates]
    BY <1>10 DEF ReceiveFiles, PoStates
  <2>5. receipt' \in [Callers -> InFlight]
    BY <1>10 DEF ReceiveFiles, InFlight
  <2> QED BY <1>10, <2>3, <2>4, <2>5 DEF ReceiveFiles
<1>11. ASSUME NEW c \in Callers, ReceiveEnds(c) PROVE ShapeOK'
  <2>1. receipt' \in [Callers -> InFlight]
    BY <1>11 DEF ReceiveEnds, InFlight
  <2> QED BY <1>11, <2>1 DEF ReceiveEnds, inventoryVars
<1>12. CASE UNCHANGED vars
  BY <1>12 DEF vars, inventoryVars, purchasingVars
<1> QED BY <1>1, <1>2, <1>3, <1>4, <1>5, <1>6, <1>7, <1>8, <1>9, <1>10, <1>11, <1>12
        DEF Next, PurchasingNext, PurchasingStep, InventoryNext

\* Every reachable state has the shape.
LEMMA ShapeInductive == Spec => []ShapeOK
<1>1. Init => ShapeOK
  BY DEF Init, InventoryInit, ShapeOK, NoIto, NoAdjustment, Ito, Adjustment, InFlight, PrStates, PoStates
<1> QED BY <1>1, ShapeStep, PTL DEF Spec

-----------------------------------------------------------------------------
(* Receiving reports.                                                      *)

\* What a step does to the reports: nothing, one more that is no duplicate of
\* a fresh one, or a window closes.
LEMMA ReportSteps ==
    ASSUME ShapeOK, [Next]_vars
    PROVE  \/ UNCHANGED reports
           \/ \E r \in Report : ~Duplicate(r) /\ FileReport(r)
           \/ \E n \in DOMAIN reports : LookbackEnds(n)
<1> DEFINE Filed == \E r \in Report : ~Duplicate(r) /\ FileReport(r)
<1> SUFFICES UNCHANGED reports \/ Filed \/ \E n \in DOMAIN reports : LookbackEnds(n)
  OBVIOUS
<1>1. ASSUME NEW u \in Users, NEW o \in Outlets, NEW ref \in References, NEW d \in Deliveries,
             DirectReceive(u, o, ref, d)
      PROVE  Filed
  <2>1. Main(o) \in Warehouses /\ d \in Seq(Line)
    BY InventoryAssumptions DEF Main, Warehouses
  <2>2. NewReport(None, ref, Main(o), u, d) \in Report
    BY <2>1, NewReportType
  <2> QED BY <1>1, <2>2 DEF DirectReceive
<1>2. ASSUME NEW c \in Callers, ReceiveFiles(c) PROVE Filed
  <2> DEFINE x == receipt[c]
             r == NewReport(x.po, None, Main(x.at), x.by, x.lines)
  <2>1. x # NoReceipt
    BY <1>2 DEF ReceiveFiles
  <2>2. r \in Report
    BY <2>1, InFlightFields, NewReportType DEF Main, Warehouses
  <2>3. ~Duplicate(r) /\ FileReport(r)
    BY <1>2 DEF ReceiveFiles
  <2> QED BY <2>2, <2>3
<1> HIDE DEF Filed
<1>3. CASE PurchasingNext
  <2>1. ASSUME NEW u \in Users, PurchasingStep(u) PROVE UNCHANGED reports
    BY <2>1 DEF PurchasingStep, CreatePurchaseRequest, SubmitPurchaseRequest, Transition,
                CreatePurchaseOrder, SendPurchaseOrder, ReceiveRead, inventoryVars
  <2> QED BY <1>2, <1>3, <2>1 DEF PurchasingNext, ReceiveEnds, inventoryVars
<1>4. CASE InventoryNext
  BY <1>1, <1>4 DEF InventoryNext, RequestIto, ConfirmIto, RequestAdjustment, ApproveAdjustment,
                    RejectAdjustment
<1>5. CASE UNCHANGED vars
  BY <1>5 DEF vars, inventoryVars
<1> QED BY <1>3, <1>4, <1>5 DEF Next

\* The reports after one more.
LEMMA OneMoreReport ==
    ASSUME ShapeOK, NEW r \in Report, FileReport(r)
    PROVE  /\ DOMAIN reports = 1..Len(reports) /\ Len(reports) \in Nat
           /\ DOMAIN reports' = 1..(Len(reports) + 1)
           /\ \A n \in 1..Len(reports) : reports'[n] = reports[n] /\ reports[n] \in Report
           /\ reports'[Len(reports) + 1] = r
<1>1. reports \in Seq(Report) /\ reports' = Append(reports, r)
  BY DEF ShapeOK, FileReport
<1> QED BY <1>1, LenProperties, AppendProperties, ElementOfSeq

\* The reports after a window closed.
LEMMA OneClosedReport ==
    ASSUME ShapeOK, NEW n \in DOMAIN reports, LookbackEnds(n)
    PROVE  /\ DOMAIN reports' = DOMAIN reports
           /\ \A m \in DOMAIN reports : reports[m] \in Report
           /\ \A m \in DOMAIN reports \ {n} : reports'[m] = reports[m]
           /\ reports'[n] = [reports[n] EXCEPT !.fresh = FALSE]
<1>1. reports \in Seq(Report) /\ DOMAIN reports = 1..Len(reports)
  BY LenProperties DEF ShapeOK
<1>2. reports' = [reports EXCEPT ![n] = [reports[n] EXCEPT !.fresh = FALSE]]
  BY DEF LookbackEnds
<1>3. \A m \in DOMAIN reports : reports[m] \in Report
  BY <1>1, ElementOfSeq
<1> DEFINE closed == [reports[n] EXCEPT !.fresh = FALSE]
<1> HIDE DEF closed
<1>4. /\ DOMAIN reports' = DOMAIN reports
      /\ \A m \in DOMAIN reports : reports'[m] = IF m = n THEN closed ELSE reports[m]
  BY <1>1, <1>2, ExceptSeq DEF closed
<1> QED BY <1>3, <1>4 DEF closed

\* The reports of the scope of r that were filed between two.
Between(r, m, n) == {k \in (m + 1)..(n - 1) : SameScope(r, reports[k])}

\* A report in the window that is not among the candidates has LookbackLimit
\* newer ones of its scope behind it.
LEMMA PushedOut ==
    ASSUME ShapeOK, NEW r \in Report, NEW m \in InWindow(r), m \notin Candidates(r)
    PROVE  Cardinality(Between(r, m, Len(reports) + 1)) >= LookbackLimit
<1> DEFINE newer == {k \in InWindow(r) : k > m}
           between == Between(r, m, Len(reports) + 1)
<1>1. Len(reports) \in Nat /\ DOMAIN reports = 1..Len(reports)
  BY LenProperties DEF ShapeOK
<1>2. m \in 1..Len(reports)
  BY <1>1 DEF InWindow
<1>3. newer \subseteq between
  BY <1>1, <1>2 DEF InWindow, Between
<1>4. IsFiniteSet(between)
  <2>1. IsFiniteSet((m + 1)..Len(reports))
    BY <1>1, <1>2, FS_Interval
  <2>2. between \subseteq (m + 1)..Len(reports)
    BY <1>1, <1>2 DEF Between
  <2> QED BY <2>1, <2>2, FS_Subset
<1>5. Cardinality(newer) \in Nat /\ Cardinality(between) \in Nat
      /\ Cardinality(newer) <= Cardinality(between)
  BY <1>3, <1>4, FS_Subset, FS_CardinalityType
<1>6. ~(Cardinality(newer) < LookbackLimit)
  BY DEF Candidates
<1>7. LookbackLimit \in Nat
  BY InventoryAssumptions
<1> QED BY <1>5, <1>6, <1>7

\* A double click or a retry within the lookback window is filed twice only
\* after LookbackLimit newer reports of its scope, by the direct path and by
\* the purchase order path alike.
THEOREM ReceivedOnce == Spec => []NoDoubleReceipt
<1>1. Init => NoDoubleReceipt
  BY DEF Init, InventoryInit, NoDoubleReceipt
<1>2. ShapeOK /\ NoDoubleReceipt /\ [Next]_vars => NoDoubleReceipt'
  <2> SUFFICES ASSUME ShapeOK, NoDoubleReceipt, [Next]_vars PROVE NoDoubleReceipt'
    OBVIOUS
  <2>1. CASE UNCHANGED reports
    BY <2>1 DEF NoDoubleReceipt
  <2>2. ASSUME NEW r \in Report, ~Duplicate(r), FileReport(r) PROVE NoDoubleReceipt'
    <3> SUFFICES ASSUME NEW m \in DOMAIN reports', NEW n \in DOMAIN reports', m < n,
                        reports'[m].fresh, reports'[n].fresh,
                        SameScope(reports'[n], reports'[m]),
                        SameLines(reports'[n].lines, reports'[m].lines)
                 PROVE  Cardinality({k \in (m + 1)..(n - 1) :
                                       SameScope(reports'[n], reports'[k])}) >= LookbackLimit
      BY DEF NoDoubleReceipt, SameScope, SameLines
    <3>1. /\ Len(reports) \in Nat /\ DOMAIN reports = 1..Len(reports)
          /\ m \in 1..Len(reports) /\ n \in 1..(Len(reports) + 1)
          /\ \A k \in 1..Len(reports) : reports'[k] = reports[k]
          /\ reports'[Len(reports) + 1] = r
      BY <2>2, OneMoreReport
    <3>2. {k \in (m + 1)..(n - 1) : SameScope(reports'[n], reports'[k])}
            = Between(reports'[n], m, n)
      BY <3>1 DEF Between
    <3>3. CASE n \in 1..Len(reports)
      BY <3>1, <3>2, <3>3 DEF NoDoubleReceipt, Between
    <3>4. CASE n = Len(reports) + 1
      <4>1. m \in InWindow(r)
        BY <3>1, <3>4 DEF InWindow
      <4>2. m \notin Candidates(r)
        BY <2>2, <3>1, <3>4 DEF Duplicate
      <4>3. Cardinality(Between(r, m, Len(reports) + 1)) >= LookbackLimit
        BY <2>2, <4>1, <4>2, PushedOut
      <4> QED BY <3>1, <3>2, <3>4, <4>3
    <3> QED BY <3>1, <3>3, <3>4
  <2>3. ASSUME NEW n \in DOMAIN reports, LookbackEnds(n) PROVE NoDoubleReceipt'
    <3> SUFFICES ASSUME NEW i \in DOMAIN reports', NEW j \in DOMAIN reports', i < j,
                        reports'[i].fresh, reports'[j].fresh,
                        SameScope(reports'[j], reports'[i]),
                        SameLines(reports'[j].lines, reports'[i].lines)
                 PROVE  Cardinality({k \in (i + 1)..(j - 1) :
                                       SameScope(reports'[j], reports'[k])}) >= LookbackLimit
      BY DEF NoDoubleReceipt, SameScope, SameLines
    <3>1. /\ reports[n] \in Report /\ DOMAIN reports' = DOMAIN reports
          /\ reports'[n] = [reports[n] EXCEPT !.fresh = FALSE]
          /\ Len(reports) \in Nat /\ DOMAIN reports = 1..Len(reports)
          /\ \A k \in DOMAIN reports \ {n} : reports'[k] = reports[k]
      BY <2>3, OneClosedReport, LenProperties DEF ShapeOK
    <3>2. ~reports'[n].fresh
      BY <3>1, ClosedReportType
    <3>3. reports'[i] = reports[i] /\ reports'[j] = reports[j]
      BY <3>1, <3>2
    <3>4. \A k \in 1..Len(reports) :
             SameScope(reports[j], reports'[k]) <=> SameScope(reports[j], reports[k])
      BY <3>1, ClosedReportType
    <3>5. {k \in (i + 1)..(j - 1) : SameScope(reports'[j], reports'[k])}
            = {k \in (i + 1)..(j - 1) : SameScope(reports[j], reports[k])}
      BY <3>1, <3>3, <3>4
    <3> QED BY <3>1, <3>3, <3>5 DEF NoDoubleReceipt
  <2> QED BY <2>1, <2>2, <2>3, ReportSteps
<1> QED BY <1>1, <1>2, ShapeInductive, PTL DEF Spec

-----------------------------------------------------------------------------
(* Requests and orders.                                                    *)

\* A receipt in flight is for an order that was sent, and for lines of it.
ReceiptOK ==
    \A c \in Callers :
        receipt[c] # NoReceipt =>
            /\ poStatus[receipt[c].po] \in {"SENT", "PARTIAL", "RECEIVED"}
            /\ \A k \in Keys(receipt[c].lines) : k \in LineIds /\ OrderOf[k] = receipt[c].po

\* An order that was sent stays so.
LEMMA SentStays ==
    ASSUME ShapeOK, [Next]_vars, NEW p \in Orders, poStatus[p] \in {"SENT", "PARTIAL", "RECEIVED"}
    PROVE  poStatus'[p] \in {"SENT", "PARTIAL", "RECEIVED"}
<1>1. ASSUME NEW u \in Users, NEW q \in Orders, CreatePurchaseOrder(q, u) \/ SendPurchaseOrder(q, u)
      PROVE  poStatus'[p] \in {"SENT", "PARTIAL", "RECEIVED"}
  BY <1>1 DEF ShapeOK, CreatePurchaseOrder, SendPurchaseOrder
<1>2. ASSUME NEW c \in Callers, ReceiveFiles(c)
      PROVE  poStatus'[p] \in {"SENT", "PARTIAL", "RECEIVED"}
  BY <1>2 DEF ShapeOK, ReceiveFiles
<1>3. CASE UNCHANGED poStatus
  BY <1>3
<1> QED BY <1>1, <1>2, <1>3
        DEF Next, PurchasingNext, PurchasingStep, CreatePurchaseRequest, SubmitPurchaseRequest,
            Transition, ReceiveRead, ReceiveEnds, vars, purchasingVars

\* What a step does to a receipt in flight: it stays, ends or is begun.
LEMMA ReceiptSteps ==
    ASSUME ShapeOK, [Next]_vars, NEW c \in Callers
    PROVE  \/ receipt'[c] = receipt[c] \/ receipt'[c] = NoReceipt
           \/ \E p \in Orders, u \in Users, o \in Outlets, d \in Receipts :
                ReceiveRead(c, p, u, o, d)
<1> DEFINE Begun == \E p \in Orders, u \in Users, o \in Outlets, d \in Receipts :
                        ReceiveRead(c, p, u, o, d)
<1> SUFFICES receipt'[c] = receipt[c] \/ receipt'[c] = NoReceipt \/ Begun
  OBVIOUS
<1>1. ASSUME NEW e \in Callers, NEW p \in Orders, NEW u \in Users, NEW o \in Outlets,
             NEW d \in Receipts, ReceiveRead(e, p, u, o, d)
      PROVE  receipt'[c] = receipt[c] \/ Begun
  <2>1. CASE e = c
    BY <1>1, <2>1
  <2>2. CASE e # c
    BY <1>1, <2>2 DEF ReceiveRead, ShapeOK
  <2> QED BY <2>1, <2>2
<1> HIDE DEF Begun
<1>2. ASSUME NEW e \in Callers, ReceiveFiles(e) \/ ReceiveEnds(e)
      PROVE  receipt'[c] = receipt[c] \/ receipt'[c] = NoReceipt
  BY <1>2 DEF ReceiveFiles, ReceiveEnds, ShapeOK
<1>3. CASE UNCHANGED receipt
  BY <1>3
<1> QED BY <1>1, <1>2, <1>3
        DEF Next, PurchasingNext, PurchasingStep, CreatePurchaseRequest, SubmitPurchaseRequest,
            Transition, CreatePurchaseOrder, SendPurchaseOrder, vars, purchasingVars

\* Receipts in flight stay well founded under everybody else's steps.
LEMMA ReceiptStep == ShapeOK /\ ReceiptOK /\ [Next]_vars => ReceiptOK'
<1> SUFFICES ASSUME ShapeOK, ReceiptOK, [Next]_vars, NEW c \in Callers, receipt'[c] # NoReceipt
             PROVE  /\ poStatus'[receipt'[c].po] \in {"SENT", "PARTIAL", "RECEIVED"}
                    /\ \A k \in Keys(receipt'[c].lines) :
                          k \in LineIds /\ OrderOf[k] = receipt'[c].po
  BY DEF ReceiptOK, Keys
<1>1. CASE receipt'[c] = receipt[c]
  <2>1. receipt[c].po \in Orders
    BY <1>1, InFlightFields
  <2>2. poStatus[receipt[c].po] \in {"SENT", "PARTIAL", "RECEIVED"}
    BY <1>1 DEF ReceiptOK
  <2>3. poStatus'[receipt[c].po] \in {"SENT", "PARTIAL", "RECEIVED"}
    BY <2>1, <2>2, SentStays
  <2> QED BY <1>1, <2>3 DEF ReceiptOK
<1>2. ASSUME NEW p \in Orders, NEW u \in Users, NEW o \in Outlets, NEW d \in Receipts,
             ReceiveRead(c, p, u, o, d)
      PROVE  /\ poStatus'[receipt'[c].po] \in {"SENT", "PARTIAL", "RECEIVED"}
             /\ \A k \in Keys(receipt'[c].lines) : k \in LineIds /\ OrderOf[k] = receipt'[c].po
  <2>1. /\ receipt'[c].po = p /\ receipt'[c].lines = WithItems(d)
        /\ poStatus'[p] \in {"SENT", "PARTIAL"}
        /\ \A n \in DOMAIN d : OrderOf[d[n].key] = p
    BY <1>2 DEF ReceiveRead, ShapeOK
  <2>2. \A n \in DOMAIN d : d[n].key \in LineIds
    <3>1. d \in Seq([key : LineIds, qty : Nat \ {0}])
      BY PurchasingAssumptions
    <3>2. /\ Len(d) \in Nat /\ DOMAIN d = 1..Len(d)
          /\ \A n \in 1..Len(d) : d[n] \in [key : LineIds, qty : Nat \ {0}]
      BY <3>1, LenProperties, ElementOfSeq
    <3> QED BY <3>2
  <2>3. Keys(WithItems(d)) = {d[n].key : n \in DOMAIN d}
    BY ItemsKeepLines DEF Keys
  <2> QED BY <2>1, <2>2, <2>3
<1> QED BY <1>1, <1>2, ReceiptSteps

\* The facts about receipts in flight are inductive.
LEMMA ReceiptInductive == Spec => [](ShapeOK /\ ReceiptOK)
<1>1. Init => ReceiptOK
  BY DEF Init, ReceiptOK
<1> QED BY <1>1, ReceiptStep, ShapeInductive, PTL DEF Spec

\* An approval is never taken back, so an order raised on one keeps it.
THEOREM ApprovalStands == Spec => []OrdersRestOnApproval
<1>1. Init => OrdersRestOnApproval
  BY DEF Init, OrdersRestOnApproval
<1>2. ShapeOK /\ ReceiptOK /\ OrdersRestOnApproval /\ [Next]_vars => OrdersRestOnApproval'
  <2> SUFFICES ASSUME ShapeOK, ReceiptOK, OrdersRestOnApproval, [Next]_vars, NEW p \in Orders,
                      poStatus'[p] # "ABSENT", RequestFor[p] # None
               PROVE  prStatus'[RequestFor[p]] = "APPROVED"
    BY DEF OrdersRestOnApproval
  <2>1. RequestFor[p] \in Requests
    BY PurchasingAssumptions
  <2>2. ASSUME NEW u \in Users, NEW r \in Requests, NEW to \in {"APPROVED", "REJECTED"},
               \/ CreatePurchaseRequest(r, u) \/ SubmitPurchaseRequest(r, u)
               \/ Transition(r, u, to)
        PROVE  prStatus'[RequestFor[p]] = "APPROVED"
    <3>1. poStatus[p] # "ABSENT" /\ prStatus[r] # "APPROVED"
      BY <2>2 DEF CreatePurchaseRequest, SubmitPurchaseRequest, Transition
    <3>2. prStatus[RequestFor[p]] = "APPROVED"
      BY <3>1 DEF OrdersRestOnApproval
    <3> QED BY <2>1, <2>2, <3>1, <3>2
            DEF ShapeOK, CreatePurchaseRequest, SubmitPurchaseRequest, Transition
  <2>3. ASSUME NEW u \in Users, NEW q \in Orders, CreatePurchaseOrder(q, u) \/ SendPurchaseOrder(q, u)
        PROVE  prStatus'[RequestFor[p]] = "APPROVED"
    BY <2>3 DEF ShapeOK, OrdersRestOnApproval, CreatePurchaseOrder, SendPurchaseOrder
  <2>4. ASSUME NEW c \in Callers, ReceiveFiles(c)
        PROVE  prStatus'[RequestFor[p]] = "APPROVED"
    <3>1. /\ receipt[c].po \in Orders /\ UNCHANGED prStatus
          /\ poStatus[receipt[c].po] # "ABSENT"
      BY <2>4, InFlightFields DEF ReceiveFiles, ReceiptOK
    <3>2. poStatus[p] # "ABSENT"
      BY <2>4, <3>1 DEF ReceiveFiles, ShapeOK
    <3> QED BY <3>1, <3>2 DEF OrdersRestOnApproval
  <2>5. CASE UNCHANGED <<prStatus, poStatus>>
    BY <2>5 DEF OrdersRestOnApproval
  <2> QED BY <2>2, <2>3, <2>4, <2>5
          DEF Next, PurchasingNext, PurchasingStep, ReceiveRead, ReceiveEnds, vars, purchasingVars
<1> QED BY <1>1, <1>2, ReceiptInductive, PTL DEF Spec

\* Which order a report is for does not change, and what a new one is for.
LEMMA ReportsOfOrder ==
    ASSUME ShapeOK, NEW p \in Orders
    PROVE  /\ \A r \in Report : FileReport(r) => (HasReport(p)' <=> HasReport(p) \/ r.po = p)
           /\ \A n \in DOMAIN reports : LookbackEnds(n) => (HasReport(p)' <=> HasReport(p))
<1>1. ASSUME NEW r \in Report, FileReport(r)
      PROVE  HasReport(p)' <=> HasReport(p) \/ r.po = p
  <2> DEFINE k == Len(reports) + 1
  <2>1. /\ DOMAIN reports = 1..Len(reports) /\ DOMAIN reports' = 1..k /\ Len(reports) \in Nat
        /\ \A n \in 1..Len(reports) : reports'[n] = reports[n]
        /\ reports'[k] = r
    BY <1>1, OneMoreReport
  <2>2. \A n \in 1..k : n \in 1..Len(reports) \/ n = k
    BY <2>1
  <2>3. k \in 1..k /\ \A n \in 1..Len(reports) : n \in 1..k
    BY <2>1
  <2> HIDE DEF k
  <2> QED BY <2>1, <2>2, <2>3 DEF HasReport
<1>2. ASSUME NEW n \in DOMAIN reports, LookbackEnds(n)
      PROVE  HasReport(p)' <=> HasReport(p)
  <2>1. \A m \in DOMAIN reports : reports'[m].po = reports[m].po
    BY <1>2, OneClosedReport, ClosedReportType
  <2> QED BY <1>2, <2>1, OneClosedReport DEF HasReport
<1> QED BY <1>1, <1>2

\* The status of an order agrees with its lines, however many receive on it
\* at once: the row lock makes the last one see what the others received.
THEOREM StatusMatchesLines == Spec => []PoStatusMatchesLines
<1>1. Init => PoStatusMatchesLines
  BY DEF Init, InventoryInit, PoStatusMatchesLines, HasReport
<1>2. ShapeOK /\ ReceiptOK /\ PoStatusMatchesLines /\ [Next]_vars => PoStatusMatchesLines'
  <2> SUFFICES ASSUME ShapeOK, ReceiptOK, PoStatusMatchesLines, [Next]_vars, NEW p \in Orders
               PROVE  /\ HasReport(p)' <=> poStatus'[p] \in {"PARTIAL", "RECEIVED"}
                      /\ HasReport(p)' => (poStatus'[p] = "RECEIVED" <=> Complete(p, got'))
    BY DEF PoStatusMatchesLines, HasReport, Complete
  <2> DEFINE Good == /\ HasReport(p)' <=> poStatus'[p] \in {"PARTIAL", "RECEIVED"}
                     /\ HasReport(p)' => (poStatus'[p] = "RECEIVED" <=> Complete(p, got'))
  <2> SUFFICES Good
    OBVIOUS
  <2>a. /\ HasReport(p) <=> poStatus[p] \in {"PARTIAL", "RECEIVED"}
        /\ HasReport(p) => (poStatus[p] = "RECEIVED" <=> Complete(p, got))
    BY DEF PoStatusMatchesLines
  <2>1. CASE UNCHANGED <<poStatus, got>> /\ (HasReport(p)' <=> HasReport(p))
    BY <2>a, <2>1
  <2>2. ASSUME NEW u \in Users, NEW q \in Orders, CreatePurchaseOrder(q, u) \/ SendPurchaseOrder(q, u)
        PROVE  Good
    <3>1. /\ UNCHANGED <<reports, got>>
          /\ \/ poStatus'[p] = poStatus[p]
             \/ {poStatus[p], poStatus'[p]} \subseteq {"ABSENT", "DRAFT", "SENT"}
      BY <2>2 DEF CreatePurchaseOrder, SendPurchaseOrder, ShapeOK, inventoryVars
    <3>2. HasReport(p)' <=> HasReport(p)
      BY <3>1 DEF HasReport
    <3> QED BY <2>a, <3>1, <3>2
  <2>3. ASSUME NEW c \in Callers, ReceiveFiles(c) PROVE Good
    <3> DEFINE x == receipt[c]
               r == NewReport(x.po, None, Main(x.at), x.by, x.lines)
    <3>1. /\ x # NoReceipt /\ FileReport(r)
          /\ \A l \in LineIds : l \notin Keys(x.lines) => got'[l] = got[l]
          /\ poStatus' = [poStatus EXCEPT ![x.po] =
                            IF Complete(x.po, got') THEN "RECEIVED" ELSE "PARTIAL"]
      BY <2>3 DEF ReceiveFiles
    <3>2. x.po \in Orders /\ r \in Report /\ r.po = x.po
      BY <3>1, InFlightFields, NewReportType DEF Main, Warehouses, NewReport
    <3>3. HasReport(p)' <=> HasReport(p) \/ x.po = p
      BY <3>1, <3>2, ReportsOfOrder
    <3>4. CASE x.po = p
      BY <3>1, <3>2, <3>3, <3>4 DEF ShapeOK
    <3>5. CASE x.po # p
      <4>1. \A l \in LineIds : OrderOf[l] = p => got'[l] = got[l]
        BY <3>1, <3>5 DEF ReceiptOK
      <4>2. Complete(p, got') <=> Complete(p, got)
        BY <4>1 DEF Complete
      <4>3. poStatus'[p] = poStatus[p]
        BY <3>1, <3>2, <3>5 DEF ShapeOK
      <4> QED BY <2>a, <3>3, <3>5, <4>2, <4>3
    <3> QED BY <3>4, <3>5
  <2>4. CASE InventoryNext /\ UNCHANGED purchasingVars
    <3>1. ASSUME NEW u \in Users, NEW o \in Outlets, NEW ref \in References, NEW d \in Deliveries,
                 DirectReceive(u, o, ref, d)
          PROVE  HasReport(p)' <=> HasReport(p)
      <4> DEFINE r == NewReport(None, ref, Main(o), u, d)
      <4>1. r \in Report /\ r.po # p /\ FileReport(r)
        BY <3>1, InventoryAssumptions, NewReportType DEF Main, Warehouses, NewReport, DirectReceive
      <4> QED BY <4>1, ReportsOfOrder
    <3>2. ASSUME NEW n \in DOMAIN reports, LookbackEnds(n)
          PROVE  HasReport(p)' <=> HasReport(p)
      BY <3>2, ReportsOfOrder
    <3>3. ASSUME UNCHANGED reports PROVE HasReport(p)' <=> HasReport(p)
      BY <3>3 DEF HasReport
    <3>4. HasReport(p)' <=> HasReport(p)
      BY <2>4, <3>1, <3>2, <3>3 DEF InventoryNext, RequestIto, ConfirmIto, RequestAdjustment,
                                   ApproveAdjustment, RejectAdjustment
    <3> QED BY <2>1, <2>4, <3>4 DEF purchasingVars
  <2>5. CASE UNCHANGED <<reports, poStatus, got>>
    BY <2>1, <2>5 DEF HasReport
  <2> HIDE DEF Good
  <2> QED BY <2>2, <2>3, <2>4, <2>5
          DEF Next, PurchasingNext, PurchasingStep, CreatePurchaseRequest, SubmitPurchaseRequest,
              Transition, ReceiveRead, ReceiveEnds, vars, purchasingVars, inventoryVars
<1> QED BY <1>1, <1>2, ReceiptInductive, PTL DEF Spec

-----------------------------------------------------------------------------
(* The ledger.                                                             *)

\* The entries of a document that has none are all kept, and no other
\* document's entries change.
LEMMA PostFresh ==
    ASSUME NEW module, NEW d, NEW E, \A e \in E : e.module = module /\ e.doc = d,
           EntriesOf(module, d) = {}, PostLedger(E)
    PROVE  /\ {e \in ledger' : e.module = module /\ e.doc = d} = E
           /\ \A m, b : m # module \/ b # d =>
                 {e \in ledger' : e.module = m /\ e.doc = b} = EntriesOf(m, b)
           /\ \A e \in ledger' : e \in ledger \/ e \in E
<1>1. \A e \in E : \A f \in ledger : ~SameKey(e, f)
  BY DEF EntriesOf, SameKey
<1>2. ledger' = ledger \cup E
  BY <1>1 DEF PostLedger
<1> QED BY <1>2 DEF EntriesOf

\* What the entries of a document are.
LEMMA EntriesOfDocument ==
    ASSUME NEW module, NEW d, NEW way, NEW w, NEW lines
    PROVE  /\ \A e \in EntriesFor(module, d, way, w, lines) :
                 e.module = module /\ e.doc = d /\ e.way = way
           /\ {e.key : e \in EntriesFor(module, d, way, w, lines)} = Keys(lines)
<1> DEFINE E(k) == [module |-> module, doc |-> d, way |-> way, key |-> k, wh |-> w,
                    item |-> FirstOf(lines, k).item, qty |-> FirstOf(lines, k).qty]
<1>1. \A k : E(k).module = module /\ E(k).doc = d /\ E(k).way = way /\ E(k).key = k
  OBVIOUS
<1>2. EntriesFor(module, d, way, w, lines) = {E(k) : k \in Keys(lines)}
  BY DEF EntriesFor
<1> HIDE DEF E
<1> QED BY <1>1, <1>2

LedgerOfReports ==
    /\ \A e \in ledger : e.module = "RECEIVE" => e.doc \in DOMAIN reports
    /\ \A n \in DOMAIN reports :
         {e.key : e \in EntriesOf("RECEIVE", n)} = Keys(reports[n].lines)
LedgerOfItos ==
    \A t \in Itos :
        {<<e.way, e.key>> : e \in EntriesOf("ITO", t)} =
            IF ito[t].status = "CONFIRMED" THEN {"IN", "OUT"} \X Keys(ito[t].lines) ELSE {}
LedgerOfAdjustments ==
    \A a \in Adjustments : EntriesOf("ADJUSTMENT", a) # {} <=> adj[a].status = "APPROVED"

\* What the reports' part of the property rests on.
LEMMA LedgerOfReportsKept ==
    ASSUME LedgerOfReports, UNCHANGED ledger, DOMAIN reports' = DOMAIN reports,
           \A m \in DOMAIN reports : reports'[m].lines = reports[m].lines
    PROVE  LedgerOfReports'
<1>1. \A e \in ledger' : e.module = "RECEIVE" => e.doc \in DOMAIN reports'
  BY DEF LedgerOfReports
<1>2. ASSUME NEW n \in DOMAIN reports'
      PROVE  {e.key : e \in EntriesOf("RECEIVE", n)'} = Keys(reports'[n].lines)
  <2>1. EntriesOf("RECEIVE", n)' = EntriesOf("RECEIVE", n)
    BY DEF EntriesOf
  <2> QED BY <2>1 DEF LedgerOfReports
<1> QED BY <1>1, <1>2 DEF LedgerOfReports, EntriesOf, Keys

\* What the other parts rest on.
LEMMA LedgerOfItosKept ==
    ASSUME LedgerOfItos, UNCHANGED <<ledger, ito>> PROVE LedgerOfItos'
BY DEF LedgerOfItos, EntriesOf, Keys

\* Entries of adjustments stay right while none is approved and none is written.
LEMMA LedgerOfAdjustmentsKept ==
    ASSUME LedgerOfAdjustments, UNCHANGED ledger,
           \A b \in Adjustments : adj'[b].status = "APPROVED" <=> adj[b].status = "APPROVED"
    PROVE  LedgerOfAdjustments'
BY DEF LedgerOfAdjustments, EntriesOf

\* The property is one of reports, transfers between warehouses and adjustments.
LEMMA LedgerParts ==
    /\ LedgerTellsDocuments <=> LedgerOfReports /\ LedgerOfItos /\ LedgerOfAdjustments
    /\ LedgerTellsDocuments' <=> LedgerOfReports' /\ LedgerOfItos' /\ LedgerOfAdjustments'
BY DEF LedgerTellsDocuments, LedgerOfReports, LedgerOfItos, LedgerOfAdjustments, EntriesOf, Keys

\* A report filed brings its entries, and touches no other document's.
LEMMA LedgerFiles ==
    ASSUME ShapeOK, LedgerTellsDocuments, NEW r \in Report, FileReport(r), UNCHANGED <<ito, adj>>
    PROVE  LedgerTellsDocuments'
<1> DEFINE k == Len(reports) + 1
           E == EntriesFor("RECEIVE", k, "IN", r.wh, r.lines)
<1>1. /\ DOMAIN reports = 1..Len(reports) /\ DOMAIN reports' = 1..k /\ Len(reports) \in Nat
      /\ \A n \in 1..Len(reports) : reports'[n] = reports[n]
      /\ reports'[k] = r
  BY OneMoreReport
<1>2. k \notin DOMAIN reports /\ k \in DOMAIN reports'
      /\ \A n \in DOMAIN reports' : n = k \/ n \in DOMAIN reports
  BY <1>1
<1>3. EntriesOf("RECEIVE", k) = {}
  BY <1>2 DEF LedgerTellsDocuments, EntriesOf
<1>4. PostLedger(E)
  BY DEF FileReport
<1>5. /\ \A e \in E : e.module = "RECEIVE" /\ e.doc = k
      /\ {e.key : e \in E} = Keys(r.lines)
  BY EntriesOfDocument
<1> HIDE DEF E, k
<1>6. /\ {e \in ledger' : e.module = "RECEIVE" /\ e.doc = k} = E
      /\ \A m, b : m # "RECEIVE" \/ b # k =>
            {e \in ledger' : e.module = m /\ e.doc = b} = EntriesOf(m, b)
      /\ \A e \in ledger' : e \in ledger \/ e \in E
  BY <1>3, <1>4, <1>5, PostFresh
<1>7. \A e \in ledger' : e.module = "RECEIVE" => e.doc \in DOMAIN reports'
  BY <1>1, <1>2, <1>5, <1>6 DEF LedgerTellsDocuments, k
<1>8. \A n \in DOMAIN reports' :
         {e.key : e \in {e \in ledger' : e.module = "RECEIVE" /\ e.doc = n}} = Keys(reports'[n].lines)
  <2> TAKE n \in DOMAIN reports'
  <2>1. CASE n = k
    BY <1>1, <1>5, <1>6, <2>1
  <2>2. CASE n # k
    <3>1. n \in DOMAIN reports /\ reports'[n] = reports[n]
      BY <1>1, <1>2, <2>2
    <3> QED BY <1>6, <2>2, <3>1 DEF LedgerTellsDocuments
  <2> QED BY <2>1, <2>2
<1>9. /\ \A t \in Itos : {e \in ledger' : e.module = "ITO" /\ e.doc = t} = EntriesOf("ITO", t)
      /\ \A a \in Adjustments :
            {e \in ledger' : e.module = "ADJUSTMENT" /\ e.doc = a} = EntriesOf("ADJUSTMENT", a)
  BY <1>6
<1>10. (LedgerOfItos /\ LedgerOfAdjustments)'
  BY <1>9 DEF LedgerTellsDocuments, LedgerOfItos, LedgerOfAdjustments, EntriesOf, Keys
<1>11. LedgerOfReports'
  BY <1>7, <1>8 DEF LedgerOfReports, EntriesOf, Keys
<1> QED BY <1>10, <1>11 DEF LedgerTellsDocuments, LedgerOfReports, LedgerOfItos, LedgerOfAdjustments,
                           EntriesOf, Keys

\* A confirmation brings both sides of the transfer order.
LEMMA LedgerConfirms ==
    ASSUME ShapeOK, LedgerTellsDocuments, NEW t \in Itos, NEW u \in Users, ConfirmIto(t, u)
    PROVE  LedgerTellsDocuments'
<1> DEFINE lines == ito[t].lines
           O == EntriesFor("ITO", t, "OUT", Main(ito[t].at), lines)
           I == EntriesFor("ITO", t, "IN", Kitchen(ito[t].at), lines)
           E == O \cup I
<1>1. ito[t].status = "REQUESTED" /\ PostLedger(E) /\ UNCHANGED <<reports, adj>>
      /\ ito' = [ito EXCEPT ![t].status = "CONFIRMED"]
  BY DEF ConfirmIto, ItoOpen
<1>2. EntriesOf("ITO", t) = {}
  <2>1. {<<e.way, e.key>> : e \in EntriesOf("ITO", t)} = {}
    BY <1>1 DEF LedgerTellsDocuments
  <2> QED BY <2>1
<1>3. /\ \A e \in O : e.module = "ITO" /\ e.doc = t /\ e.way = "OUT"
      /\ {e.key : e \in O} = Keys(lines)
      /\ \A e \in I : e.module = "ITO" /\ e.doc = t /\ e.way = "IN"
      /\ {e.key : e \in I} = Keys(lines)
  BY EntriesOfDocument
<1>4. ito[t] \in Ito
  BY DEF ShapeOK
<1>5. /\ \A b \in Itos \ {t} : ito'[b] = ito[b]
      /\ ito'[t].status = "CONFIRMED" /\ ito'[t].lines = lines
  BY <1>1, <1>4 DEF ShapeOK, Ito
<1> HIDE DEF O, I, lines
<1>6. {<<e.way, e.key>> : e \in E} = {"IN", "OUT"} \X Keys(lines)
  <2>1. \A e \in E : <<e.way, e.key>> \in {"IN", "OUT"} \X Keys(lines)
    BY <1>3
  <2>2. \A k \in Keys(lines) : \E e \in E : <<e.way, e.key>> = <<"IN", k>>
    BY <1>3
  <2>3. \A k \in Keys(lines) : \E e \in E : <<e.way, e.key>> = <<"OUT", k>>
    BY <1>3
  <2> QED BY <2>1, <2>2, <2>3
<1>7. \A e \in E : e.module = "ITO" /\ e.doc = t
  BY <1>3
<1> HIDE DEF E
<1>8. /\ {e \in ledger' : e.module = "ITO" /\ e.doc = t} = E
      /\ \A m, b : m # "ITO" \/ b # t =>
            {e \in ledger' : e.module = m /\ e.doc = b} = EntriesOf(m, b)
      /\ \A e \in ledger' : e \in ledger \/ e \in E
  BY <1>1, <1>2, <1>7, PostFresh
<1>9. LedgerOfItos'
  <2>1. \A b \in Itos :
          {<<e.way, e.key>> : e \in {e \in ledger' : e.module = "ITO" /\ e.doc = b}} =
            IF ito'[b].status = "CONFIRMED" THEN {"IN", "OUT"} \X Keys(ito'[b].lines) ELSE {}
    <3> TAKE b \in Itos
    <3>1. CASE b = t
      BY <1>5, <1>6, <1>8, <3>1
    <3>2. CASE b # t
      BY <1>5, <1>8, <3>2 DEF LedgerTellsDocuments
    <3> QED BY <3>1, <3>2
  <2> QED BY <2>1 DEF LedgerOfItos, EntriesOf, Keys
<1>10. /\ \A n : {e \in ledger' : e.module = "RECEIVE" /\ e.doc = n} = EntriesOf("RECEIVE", n)
       /\ \A a : {e \in ledger' : e.module = "ADJUSTMENT" /\ e.doc = a} = EntriesOf("ADJUSTMENT", a)
       /\ \A e \in ledger' : e.module = "RECEIVE" => e \in ledger
  BY <1>7, <1>8
<1>11. LedgerOfReports' /\ LedgerOfAdjustments'
  <2>1. \A n \in DOMAIN reports :
          {e.key : e \in {e \in ledger' : e.module = "RECEIVE" /\ e.doc = n}} = Keys(reports[n].lines)
    BY <1>10 DEF LedgerTellsDocuments
  <2>2. \A e \in ledger' : e.module = "RECEIVE" => e.doc \in DOMAIN reports
    BY <1>10 DEF LedgerTellsDocuments
  <2>3. LedgerOfReports'
    BY <1>1, <2>1, <2>2 DEF LedgerOfReports, EntriesOf, Keys
  <2>4. \A a \in Adjustments :
          {e \in ledger' : e.module = "ADJUSTMENT" /\ e.doc = a} # {} <=> adj[a].status = "APPROVED"
    BY <1>10 DEF LedgerTellsDocuments
  <2>5. LedgerOfAdjustments'
    BY <1>1, <2>4 DEF LedgerOfAdjustments, EntriesOf
  <2> QED BY <2>3, <2>5
<1> QED BY <1>9, <1>11 DEF LedgerTellsDocuments, LedgerOfReports, LedgerOfItos, LedgerOfAdjustments,
                          EntriesOf, Keys

\* An approval brings the adjustment's entry.
LEMMA LedgerApproves ==
    ASSUME ShapeOK, LedgerTellsDocuments, NEW a \in Adjustments, NEW u \in Users,
           ApproveAdjustment(a, u)
    PROVE  LedgerTellsDocuments'
<1> DEFINE E == EntriesFor("ADJUSTMENT", a, adj[a].way, adj[a].wh, LineOf(a))
<1>1. adj[a].status = "PENDING" /\ PostLedger(E) /\ UNCHANGED <<reports, ito>>
      /\ adj' = [adj EXCEPT ![a].status = "APPROVED"]
  BY DEF ApproveAdjustment
<1>2. EntriesOf("ADJUSTMENT", a) = {}
  BY <1>1 DEF LedgerTellsDocuments
<1>3. /\ \A e \in E : e.module = "ADJUSTMENT" /\ e.doc = a
      /\ {e.key : e \in E} = Keys(LineOf(a))
  BY EntriesOfDocument
<1>4. Keys(LineOf(a)) # {}
  BY DEF Keys, LineOf
<1>5. E # {}
  BY <1>3, <1>4
<1>6. \A b \in Adjustments : adj'[b].status = IF b = a THEN "APPROVED" ELSE adj[b].status
  BY <1>1 DEF ShapeOK, Adjustment
<1> HIDE DEF E
<1>7. /\ {e \in ledger' : e.module = "ADJUSTMENT" /\ e.doc = a} = E
      /\ \A m, b : m # "ADJUSTMENT" \/ b # a =>
            {e \in ledger' : e.module = m /\ e.doc = b} = EntriesOf(m, b)
      /\ \A e \in ledger' : e \in ledger \/ e \in E
  BY <1>1, <1>2, <1>3, PostFresh
<1>8. LedgerOfAdjustments'
  <2>1. \A b \in Adjustments :
          {e \in ledger' : e.module = "ADJUSTMENT" /\ e.doc = b} # {}
            <=> adj'[b].status = "APPROVED"
    BY <1>5, <1>6, <1>7 DEF LedgerTellsDocuments
  <2> QED BY <2>1 DEF LedgerOfAdjustments, EntriesOf
<1>9. /\ \A n : {e \in ledger' : e.module = "RECEIVE" /\ e.doc = n} = EntriesOf("RECEIVE", n)
      /\ \A t : {e \in ledger' : e.module = "ITO" /\ e.doc = t} = EntriesOf("ITO", t)
      /\ \A e \in ledger' : e.module = "RECEIVE" => e \in ledger
  BY <1>3, <1>7
<1>10. LedgerOfReports' /\ LedgerOfItos'
  <2>1. \A n \in DOMAIN reports :
          {e.key : e \in {e \in ledger' : e.module = "RECEIVE" /\ e.doc = n}} = Keys(reports[n].lines)
    BY <1>9 DEF LedgerTellsDocuments
  <2>2. \A e \in ledger' : e.module = "RECEIVE" => e.doc \in DOMAIN reports
    BY <1>9 DEF LedgerTellsDocuments
  <2>3. LedgerOfReports'
    BY <1>1, <2>1, <2>2 DEF LedgerOfReports, EntriesOf, Keys
  <2>4. \A t \in Itos :
          {<<e.way, e.key>> : e \in {e \in ledger' : e.module = "ITO" /\ e.doc = t}} =
            IF ito[t].status = "CONFIRMED" THEN {"IN", "OUT"} \X Keys(ito[t].lines) ELSE {}
    BY <1>9 DEF LedgerTellsDocuments
  <2>5. LedgerOfItos'
    BY <1>1, <2>4 DEF LedgerOfItos, EntriesOf, Keys
  <2> QED BY <2>3, <2>5
<1> QED BY <1>8, <1>10 DEF LedgerTellsDocuments, LedgerOfReports, LedgerOfItos, LedgerOfAdjustments,
                          EntriesOf, Keys

\* The ledger tells exactly the documents that took effect, whatever decisions
\* race for them: postLedger never meets a key that is taken.
THEOREM LedgerIsTrue == Spec => []LedgerTellsDocuments
<1>1. Init => LedgerTellsDocuments
  BY DEF Init, InventoryInit, LedgerTellsDocuments, EntriesOf, NoIto, NoAdjustment
<1>2. ShapeOK /\ LedgerTellsDocuments /\ [Next]_vars => LedgerTellsDocuments'
  <2> SUFFICES ASSUME ShapeOK, LedgerTellsDocuments, [Next]_vars PROVE LedgerTellsDocuments'
    OBVIOUS
  <2>0. LedgerOfReports /\ LedgerOfItos /\ LedgerOfAdjustments
    BY LedgerParts
  <2>1. ASSUME NEW u \in Users, NEW o \in Outlets, NEW ref \in References, NEW d \in Deliveries,
               DirectReceive(u, o, ref, d)
        PROVE  LedgerTellsDocuments'
    <3> DEFINE r == NewReport(None, ref, Main(o), u, d)
    <3>1. r \in Report /\ FileReport(r) /\ UNCHANGED <<ito, adj>>
      BY <2>1, InventoryAssumptions, NewReportType DEF Main, Warehouses, DirectReceive
    <3> HIDE DEF r
    <3> QED BY <3>1, LedgerFiles
  <2>2. ASSUME NEW c \in Callers, ReceiveFiles(c) PROVE LedgerTellsDocuments'
    <3> DEFINE x == receipt[c]
               r == NewReport(x.po, None, Main(x.at), x.by, x.lines)
    <3>1. x # NoReceipt /\ FileReport(r) /\ UNCHANGED <<ito, adj>>
      BY <2>2 DEF ReceiveFiles
    <3>2. r \in Report
      BY <3>1, InFlightFields, NewReportType DEF Main, Warehouses
    <3> HIDE DEF r
    <3> QED BY <3>1, <3>2, LedgerFiles
  <2>3. ASSUME NEW n \in DOMAIN reports, LookbackEnds(n) PROVE LedgerTellsDocuments'
    <3>1. /\ DOMAIN reports' = DOMAIN reports /\ UNCHANGED <<ledger, ito, adj>>
          /\ \A m \in DOMAIN reports : reports'[m].lines = reports[m].lines
      BY <2>3, OneClosedReport, ClosedReportType DEF LookbackEnds
    <3> QED BY <2>0, <3>1, LedgerParts, LedgerOfReportsKept, LedgerOfItosKept, LedgerOfAdjustmentsKept
  <2>4. ASSUME NEW t \in Itos, NEW u \in Users, NEW o \in Outlets, NEW d \in ItoLines,
               RequestIto(t, u, o, d)
        PROVE  LedgerTellsDocuments'
    <3>1. /\ UNCHANGED <<ledger, reports, adj>>
          /\ \A b \in Itos :
                \/ ito'[b] = ito[b]
                \/ ito[b].status # "CONFIRMED" /\ ito'[b].status # "CONFIRMED"
      <4> DEFINE new == [status |-> "REQUESTED", at |-> o, lines |-> d]
      <4>1. new.status = "REQUESTED"
        OBVIOUS
      <4>2. /\ ito[t].status = "ABSENT" /\ ito' = [ito EXCEPT ![t] = new]
            /\ UNCHANGED <<ledger, reports, adj>>
        BY <2>4 DEF RequestIto
      <4> HIDE DEF new
      <4>3. ito'[t] = new /\ \A b \in Itos \ {t} : ito'[b] = ito[b]
        BY <4>2 DEF ShapeOK
      <4> QED BY <4>1, <4>2, <4>3
    <3>2. LedgerOfItos'
      BY <2>0, <3>1 DEF LedgerOfItos, EntriesOf, Keys
    <3> QED BY <2>0, <3>1, <3>2, LedgerParts, LedgerOfReportsKept, LedgerOfAdjustmentsKept
  <2>5. ASSUME NEW a \in Adjustments, NEW u \in Users,
               \/ RejectAdjustment(a, u)
               \/ \E w \in Warehouses, i \in Ingredients, way \in {"IN", "OUT"}, q \in Amounts :
                    RequestAdjustment(a, u, w, i, way, q)
        PROVE  LedgerTellsDocuments'
    <3>1. /\ UNCHANGED <<ledger, reports, ito>>
          /\ \A b \in Adjustments : adj'[b].status = "APPROVED" <=> adj[b].status = "APPROVED"
      <4>1. CASE RejectAdjustment(a, u)
        <5>1. /\ adj[a].status = "PENDING" /\ adj' = [adj EXCEPT ![a].status = "REJECTED"]
              /\ UNCHANGED <<ledger, reports, ito>>
          BY <4>1 DEF RejectAdjustment
        <5>2. adj'[a].status = "REJECTED" /\ \A b \in Adjustments \ {a} : adj'[b] = adj[b]
          BY <5>1 DEF ShapeOK, Adjustment
        <5> QED BY <5>1, <5>2
      <4>2. ASSUME NEW w \in Warehouses, NEW i \in Ingredients, NEW way \in {"IN", "OUT"},
                   NEW q \in Amounts, RequestAdjustment(a, u, w, i, way, q)
            PROVE  /\ UNCHANGED <<ledger, reports, ito>>
                   /\ \A b \in Adjustments :
                         adj'[b].status = "APPROVED" <=> adj[b].status = "APPROVED"
        <5> DEFINE new == [status |-> "PENDING", by |-> u, wh |-> w, item |-> i, way |-> way,
                           qty |-> q]
        <5>1. new.status = "PENDING"
          OBVIOUS
        <5>2. /\ adj[a].status = "ABSENT" /\ adj' = [adj EXCEPT ![a] = new]
              /\ UNCHANGED <<ledger, reports, ito>>
          BY <4>2 DEF RequestAdjustment
        <5> HIDE DEF new
        <5>3. adj'[a] = new /\ \A b \in Adjustments \ {a} : adj'[b] = adj[b]
          BY <5>2 DEF ShapeOK
        <5> QED BY <5>1, <5>2, <5>3
      <4> QED BY <2>5, <4>1, <4>2
    <3> QED BY <2>0, <3>1, LedgerParts, LedgerOfReportsKept, LedgerOfItosKept, LedgerOfAdjustmentsKept
  <2>6. CASE UNCHANGED <<ledger, reports, ito, adj>>
    BY <2>0, <2>6, LedgerParts, LedgerOfReportsKept, LedgerOfItosKept, LedgerOfAdjustmentsKept
  <2>7. CASE PurchasingNext
    <3>1. ASSUME NEW u \in Users, PurchasingStep(u) PROVE UNCHANGED <<ledger, reports, ito, adj>>
      BY <3>1 DEF PurchasingStep, CreatePurchaseRequest, SubmitPurchaseRequest, Transition,
                  CreatePurchaseOrder, SendPurchaseOrder, ReceiveRead, inventoryVars
    <3>2. ASSUME NEW c \in Callers, ReceiveEnds(c) PROVE UNCHANGED <<ledger, reports, ito, adj>>
      BY <3>2 DEF ReceiveEnds, inventoryVars
    <3> QED BY <2>2, <2>6, <2>7, <3>1, <3>2 DEF PurchasingNext
  <2>8. CASE InventoryNext
    BY <2>1, <2>3, <2>4, <2>5, <2>8, LedgerConfirms, LedgerApproves DEF InventoryNext
  <2> QED BY <2>6, <2>7, <2>8 DEF Next, vars, inventoryVars
<1> QED BY <1>1, <1>2, ShapeInductive, PTL DEF Spec

-----------------------------------------------------------------------------
(* Balances.                                                               *)

\* The lines of a document, position by position.
LEMMA LinesOf ==
    ASSUME NEW lines \in Seq(Line)
    PROVE  /\ IsFiniteSet(DOMAIN lines)
           /\ DOMAIN lines \subseteq Nat
           /\ \A n \in DOMAIN lines : lines[n] \in Line
<1>1. Len(lines) \in Nat /\ DOMAIN lines = 1..Len(lines)
  BY LenProperties
<1>2. \A n \in 1..Len(lines) : lines[n] \in Line
  BY <1>1, ElementOfSeq
<1>3. IsFiniteSet(1..Len(lines))
  BY <1>1, FS_Interval
<1> QED BY <1>1, <1>2, <1>3

\* What a document moves of an ingredient is a number, and nothing where no line names it.
LEMMA TotalInt ==
    ASSUME NEW lines \in Seq(Line), NEW i \in Ingredients
    PROVE  /\ Total(lines, i) \in Int
           /\ i \notin ItemsOf(lines) => Total(lines, i) = 0
<1> DEFINE f == [n \in DOMAIN lines |-> lines[n].qty]
           S == {n \in DOMAIN lines : lines[n].item = i}
<1>1. Total(lines, i) = SumFunctionOnSet(f, S)
  BY DEF Total
<1>2. S \subseteq DOMAIN lines /\ \A n \in S : f[n] \in Int
  BY LinesOf DEF Line
<1>3. i \notin ItemsOf(lines) => S = {}
  BY DEF ItemsOf
<1> HIDE DEF f, S
<1>4. IsFiniteSet(S)
  BY <1>2, LinesOf, FS_Subset
<1>5. SumFunctionOnSet(f, S) \in Int
  BY <1>2, <1>4, SumInt
<1>6. SumFunctionOnSet(f, {}) = 0
  BY FS_EmptySet, SumUnfold
<1> QED BY <1>1, <1>3, <1>5, <1>6

\* Balances of every warehouse and ingredient.
Balances == [Warehouses -> [Ingredients -> Int]]

\* What an upsert makes of the balances.
LEMMA CreditedBalances ==
    ASSUME NEW b \in Balances, NEW w \in Warehouses, NEW lines \in Seq(Line)
    PROVE  /\ Credited(b, w, lines) \in Balances
           /\ \A i \in Ingredients : Credited(b, w, lines)[w][i] = b[w][i] + Total(lines, i)
           /\ \A v \in Warehouses \ {w} : Credited(b, w, lines)[v] = b[v]
<1> DEFINE row == [i \in Ingredients |-> b[w][i] + Total(lines, i)]
<1>1. \A i \in Ingredients : Total(lines, i) \in Int /\ b[w][i] \in Int
  BY TotalInt DEF Balances
<1>2. row \in [Ingredients -> Int]
  BY <1>1
<1>3. Credited(b, w, lines) = [b EXCEPT ![w] = row]
  BY DEF Credited
<1>4. \A i \in Ingredients : row[i] = b[w][i] + Total(lines, i)
  OBVIOUS
<1> HIDE DEF row
<1> QED BY <1>2, <1>3, <1>4 DEF Balances

\* What the update of a MAIN balance makes of them.
LEMMA TakenBalances ==
    ASSUME stock \in Balances, NEW w \in Warehouses, NEW lines \in Seq(Line)
    PROVE  /\ TakenFrom(w, lines) \in Balances
           /\ \A i \in Ingredients :
                 TakenFrom(w, lines)[w][i] = IF <<w, i>> \in rows
                                             THEN stock[w][i] - Total(lines, i) ELSE stock[w][i]
           /\ \A v \in Warehouses \ {w} : TakenFrom(w, lines)[v] = stock[v]
<1> DEFINE row == [i \in Ingredients |-> IF <<w, i>> \in rows THEN stock[w][i] - Total(lines, i)
                                         ELSE stock[w][i]]
<1>1. \A i \in Ingredients : Total(lines, i) \in Int /\ stock[w][i] \in Int
  BY TotalInt DEF Balances
<1>2. row \in [Ingredients -> Int]
  BY <1>1
<1>3. TakenFrom(w, lines) = [stock EXCEPT ![w] = row]
  BY DEF TakenFrom
<1>4. \A i \in Ingredients : row[i] = IF <<w, i>> \in rows THEN stock[w][i] - Total(lines, i)
                                      ELSE stock[w][i]
  OBVIOUS
<1> HIDE DEF row
<1> QED BY <1>2, <1>3, <1>4 DEF Balances

\* The entry of a line is its first line's.
LEMMA FirstOfLine ==
    ASSUME NEW lines \in Seq(Line), NEW k \in Keys(lines)
    PROVE  FirstOf(lines, k) \in Line /\ k \in Ingredients \cup LineIds
<1> DEFINE S == {n \in DOMAIN lines : lines[n].key = k}
<1>1. S \subseteq Nat /\ S # {}
  BY LinesOf DEF Keys
<1> HIDE DEF S
<1>2. PICK n \in S : \A m \in S : ~ (m < n)
  BY <1>1, NatLeast
<1>3. n \in DOMAIN lines /\ lines[n].key = k /\ DOMAIN lines \subseteq Nat
  BY LinesOf DEF S
<1>4. \A m \in DOMAIN lines : lines[m].key = k => n <= m
  BY <1>2, <1>3 DEF S
<1>5. (CHOOSE j \in DOMAIN lines : lines[j].key = k
          /\ \A m \in DOMAIN lines : lines[m].key = k => j <= m) \in DOMAIN lines
  BY <1>3, <1>4
<1>6. \A j \in DOMAIN lines : lines[j] \in Line
  BY LinesOf
<1> QED BY <1>3, <1>5, <1>6 DEF FirstOf, Line

\* What a document posts are ledger entries.
LEMMA EntriesTyped ==
    ASSUME NEW module \in {"RECEIVE", "ITO", "ADJUSTMENT"},
           NEW d \in Nat \cup Itos \cup Adjustments, NEW way \in {"IN", "OUT"},
           NEW w \in Warehouses, NEW lines \in Seq(Line)
    PROVE  EntriesFor(module, d, way, w, lines) \subseteq Entry
<1> SUFFICES ASSUME NEW k \in Keys(lines)
             PROVE  [module |-> module, doc |-> d, way |-> way, key |-> k, wh |-> w,
                     item |-> FirstOf(lines, k).item, qty |-> FirstOf(lines, k).qty] \in Entry
  BY DEF EntriesFor
<1>1. FirstOf(lines, k).item \in Ingredients /\ FirstOf(lines, k).qty \in Int
      /\ k \in Ingredients \cup LineIds
  BY FirstOfLine DEF Line
<1> QED BY <1>1 DEF Entry

\* Documents that exist name their place; the lines of a receipt in flight are
\* what the client entered, and that is never negative.
DocumentsOK ==
    /\ \A t \in Itos : ito[t].status # "ABSENT" => ito[t].at \in Outlets
    /\ \A a \in Adjustments :
          adj[a].status # "ABSENT" => adj[a].wh \in Warehouses /\ adj[a].item \in Ingredients
    /\ \A c \in Callers : receipt[c] # NoReceipt =>
          \A n \in DOMAIN receipt[c].lines : receipt[c].lines[n].qty \in Nat

\* Documents keep their place, and lines in flight their amounts.
LEMMA DocumentsStep == ShapeOK /\ DocumentsOK /\ [Next]_vars => DocumentsOK'
<1> SUFFICES ASSUME ShapeOK, DocumentsOK, [Next]_vars PROVE DocumentsOK'
  OBVIOUS
<1> DEFINE ItosOK == \A t \in Itos : ito[t].status # "ABSENT" => ito[t].at \in Outlets
           AdjOK == \A a \in Adjustments : adj[a].status # "ABSENT" =>
                        adj[a].wh \in Warehouses /\ adj[a].item \in Ingredients
           FlightOK == \A c \in Callers : receipt[c] # NoReceipt =>
                        \A n \in DOMAIN receipt[c].lines : receipt[c].lines[n].qty \in Nat
<1>1. ItosOK /\ AdjOK /\ FlightOK
  BY DEF DocumentsOK
<1>2. ItosOK'
  <2>1. ASSUME NEW t \in Itos, NEW u \in Users, NEW o \in Outlets, NEW d \in ItoLines,
               RequestIto(t, u, o, d)
        PROVE  ItosOK'
    <3> DEFINE new == [status |-> "REQUESTED", at |-> o, lines |-> d]
    <3>1. new.at = o /\ ito' = [ito EXCEPT ![t] = new]
      BY <2>1 DEF RequestIto
    <3> HIDE DEF new
    <3> QED BY <1>1, <3>1 DEF ShapeOK
  <2>2. ASSUME NEW t \in Itos, NEW u \in Users, ConfirmIto(t, u) PROVE ItosOK'
    <3>1. ito[t].status # "ABSENT" /\ ito' = [ito EXCEPT ![t].status = "CONFIRMED"] /\ ito[t] \in Ito
      BY <2>2 DEF ConfirmIto, ItoOpen, ShapeOK
    <3>2. ito'[t].at = ito[t].at /\ \A b \in Itos \ {t} : ito'[b] = ito[b]
      BY <3>1 DEF ShapeOK, Ito
    <3> QED BY <1>1, <3>1, <3>2
  <2>3. CASE UNCHANGED ito
    BY <1>1, <2>3
  <2> QED BY <2>1, <2>2, <2>3
          DEF Next, PurchasingNext, PurchasingStep, CreatePurchaseRequest, SubmitPurchaseRequest,
              Transition, CreatePurchaseOrder, SendPurchaseOrder, ReceiveRead, ReceiveFiles,
              ReceiveEnds, InventoryNext, DirectReceive, RequestAdjustment, ApproveAdjustment,
              RejectAdjustment, LookbackEnds, vars, inventoryVars
<1>3. AdjOK'
  <2>1. ASSUME NEW a \in Adjustments, NEW u \in Users, NEW w \in Warehouses, NEW i \in Ingredients,
               NEW way \in {"IN", "OUT"}, NEW q \in Amounts, RequestAdjustment(a, u, w, i, way, q)
        PROVE  AdjOK'
    <3> DEFINE new == [status |-> "PENDING", by |-> u, wh |-> w, item |-> i, way |-> way, qty |-> q]
    <3>1. new.wh = w /\ new.item = i /\ adj' = [adj EXCEPT ![a] = new]
      BY <2>1 DEF RequestAdjustment
    <3> HIDE DEF new
    <3> QED BY <1>1, <3>1 DEF ShapeOK
  <2>2. ASSUME NEW a \in Adjustments, NEW u \in Users, NEW s \in {"APPROVED", "REJECTED"},
               adj[a].status = "PENDING", adj' = [adj EXCEPT ![a].status = s]
        PROVE  AdjOK'
    <3>1. /\ adj'[a].wh = adj[a].wh /\ adj'[a].item = adj[a].item
          /\ \A b \in Adjustments \ {a} : adj'[b] = adj[b]
      BY <2>2 DEF ShapeOK, Adjustment
    <3> QED BY <1>1, <2>2, <3>1
  <2>3. CASE UNCHANGED adj
    BY <1>1, <2>3
  <2> HIDE DEF AdjOK
  <2> QED BY <2>1, <2>2, <2>3
          DEF Next, PurchasingNext, PurchasingStep, CreatePurchaseRequest, SubmitPurchaseRequest,
              Transition, CreatePurchaseOrder, SendPurchaseOrder, ReceiveRead, ReceiveFiles,
              ReceiveEnds, InventoryNext, DirectReceive, RequestIto, ConfirmIto, ApproveAdjustment,
              RejectAdjustment, LookbackEnds, vars, inventoryVars
<1>4. FlightOK'
  <2> SUFFICES ASSUME NEW c \in Callers, receipt'[c] # NoReceipt,
                      NEW n \in DOMAIN receipt'[c].lines
               PROVE  receipt'[c].lines[n].qty \in Nat
    OBVIOUS
  <2>1. CASE receipt'[c] = receipt[c]
    BY <1>1, <2>1
  <2>2. ASSUME NEW p \in Orders, NEW u \in Users, NEW o \in Outlets, NEW d \in Receipts,
               ReceiveRead(c, p, u, o, d)
        PROVE  receipt'[c].lines[n].qty \in Nat
    <3>1. receipt'[c].lines = WithItems(d)
      BY <2>2 DEF ReceiveRead, ShapeOK
    <3>2. d \in Seq([key : LineIds, qty : Nat \ {0}])
      BY PurchasingAssumptions
    <3>3. /\ Len(d) \in Nat /\ DOMAIN d = 1..Len(d)
          /\ \A m \in 1..Len(d) : d[m] \in [key : LineIds, qty : Nat \ {0}]
      BY <3>2, LenProperties, ElementOfSeq
    <3> QED BY <3>1, <3>3 DEF WithItems
  <2> QED BY <2>1, <2>2, ReceiptSteps
<1> QED BY <1>2, <1>3, <1>4 DEF DocumentsOK

\* What the balances rest on: rows are never taken away, and a balance without
\* a row is zero.
BalancesOK ==
    /\ stock \in Balances
    /\ OpeningRows \subseteq rows /\ rows \subseteq Warehouses \X Ingredients
    /\ \A w \in Warehouses, i \in Ingredients : <<w, i>> \notin rows => stock[w][i] = 0
    /\ ledger \subseteq Entry
    /\ got \in [LineIds -> Nat]

\* Filing a report keeps them.
LEMMA FileBalances ==
    ASSUME ShapeOK, BalancesOK, NEW r \in Report, FileReport(r)
    PROVE  /\ stock' \in Balances
           /\ rows \subseteq rows' /\ rows' \subseteq Warehouses \X Ingredients
           /\ \A w \in Warehouses, i \in Ingredients : <<w, i>> \notin rows' => stock'[w][i] = 0
           /\ ledger' \subseteq Entry
<1>1. r.wh \in Warehouses /\ r.lines \in Seq(Line)
  BY DEF Report
<1> DEFINE w == r.wh
           lines == r.lines
<1>2. stock' = Credited(stock, w, lines) /\ rows' = rows \cup RowsFor(w, lines)
  BY DEF FileReport
<1>3. ledger' \subseteq Entry
  <2>1. Len(reports) + 1 \in Nat
    BY LenProperties DEF ShapeOK
  <2>2. EntriesFor("RECEIVE", Len(reports) + 1, "IN", w, lines) \subseteq Entry
    BY <1>1, <2>1, EntriesTyped
  <2>3. PostLedger(EntriesFor("RECEIVE", Len(reports) + 1, "IN", w, lines))
    BY DEF FileReport
  <2> QED BY <2>2, <2>3 DEF PostLedger, BalancesOK
<1> HIDE DEF w, lines
<1>4. w \in Warehouses /\ lines \in Seq(Line)
  BY <1>1 DEF w, lines
<1>5. /\ stock' \in Balances
      /\ \A i \in Ingredients : stock'[w][i] = stock[w][i] + Total(lines, i)
      /\ \A v \in Warehouses \ {w} : stock'[v] = stock[v]
  BY <1>2, <1>4, CreditedBalances DEF BalancesOK
<1>6. /\ ItemsOf(lines) \subseteq Ingredients
      /\ rows' = rows \cup {<<w, i>> : i \in ItemsOf(lines)}
  BY <1>2, <1>4, LinesOf DEF ItemsOf, Line, RowsFor
<1>7. ASSUME NEW v \in Warehouses, NEW i \in Ingredients, <<v, i>> \notin rows'
      PROVE  stock'[v][i] = 0
  <2>1. stock[v][i] = 0
    BY <1>6, <1>7 DEF BalancesOK
  <2>2. CASE v = w
    <3>1. i \notin ItemsOf(lines)
      BY <1>6, <1>7, <2>2
    <3>2. Total(lines, i) = 0
      BY <1>4, <3>1, TotalInt
    <3> QED BY <1>5, <2>1, <2>2, <3>2
  <2>3. CASE v # w
    BY <1>5, <2>1, <2>3
  <2> QED BY <2>2, <2>3
<1>8. rows' \subseteq Warehouses \X Ingredients
  BY <1>4, <1>6 DEF BalancesOK
<1> QED BY <1>3, <1>5, <1>6, <1>7, <1>8

\* What a confirmation makes of the balances, cell by cell.
LEMMA ConfirmBalances ==
    ASSUME ShapeOK, DocumentsOK, BalancesOK, NEW t \in Itos, NEW u \in Users, ConfirmIto(t, u)
    PROVE  /\ ito[t].at \in Outlets /\ ito[t].lines \in Seq(Line)
           /\ Main(ito[t].at) \in Warehouses /\ Kitchen(ito[t].at) \in Warehouses
           /\ Main(ito[t].at) # Kitchen(ito[t].at)
           /\ stock' \in Balances
           /\ \A i \in Ingredients :
                 stock'[Kitchen(ito[t].at)][i] =
                    stock[Kitchen(ito[t].at)][i] + Total(ito[t].lines, i)
           /\ \A i \in Ingredients :
                 stock'[Main(ito[t].at)][i] =
                    IF <<Main(ito[t].at), i>> \in rows
                    THEN stock[Main(ito[t].at)][i] - Total(ito[t].lines, i)
                    ELSE stock[Main(ito[t].at)][i]
           /\ \A v \in Warehouses :
                 v # Main(ito[t].at) /\ v # Kitchen(ito[t].at) => stock'[v] = stock[v]
<1> DEFINE o == ito[t].at
           lines == ito[t].lines
           taken == TakenFrom(Main(o), lines)
<1>1. o \in Outlets /\ lines \in Seq(Line)
  BY DEF ConfirmIto, ItoOpen, DocumentsOK, ShapeOK, Ito
<1>2. stock' = Credited(taken, Kitchen(o), lines)
  BY DEF ConfirmIto
<1> HIDE DEF o, lines
<1>3. Main(o) \in Warehouses /\ Kitchen(o) \in Warehouses /\ Main(o) # Kitchen(o)
  BY <1>1 DEF Main, Kitchen, Warehouses
<1>4. /\ taken \in Balances
      /\ \A i \in Ingredients : taken[Main(o)][i] = IF <<Main(o), i>> \in rows
                                   THEN stock[Main(o)][i] - Total(lines, i) ELSE stock[Main(o)][i]
      /\ \A v \in Warehouses \ {Main(o)} : taken[v] = stock[v]
  BY <1>1, <1>3, TakenBalances DEF BalancesOK
<1> HIDE DEF taken
<1>5. /\ stock' \in Balances
      /\ \A i \in Ingredients : stock'[Kitchen(o)][i] = taken[Kitchen(o)][i] + Total(lines, i)
      /\ \A v \in Warehouses \ {Kitchen(o)} : stock'[v] = taken[v]
  BY <1>1, <1>2, <1>3, <1>4, CreditedBalances
<1>6. /\ \A i \in Ingredients : stock'[Kitchen(o)][i] = stock[Kitchen(o)][i] + Total(lines, i)
      /\ \A i \in Ingredients : stock'[Main(o)][i] = IF <<Main(o), i>> \in rows
                                   THEN stock[Main(o)][i] - Total(lines, i) ELSE stock[Main(o)][i]
      /\ \A v \in Warehouses : v # Main(o) /\ v # Kitchen(o) => stock'[v] = stock[v]
  BY <1>3, <1>4, <1>5
<1> QED BY <1>1, <1>3, <1>5, <1>6 DEF o, lines

\* An approval changes one cell.
LEMMA ApproveBalances ==
    ASSUME ShapeOK, DocumentsOK, BalancesOK, NEW a \in Adjustments, NEW u \in Users,
           ApproveAdjustment(a, u)
    PROVE  /\ adj[a].wh \in Warehouses /\ adj[a].item \in Ingredients
           /\ Signed(a) \in Int
           /\ stock' \in Balances
           /\ stock'[adj[a].wh][adj[a].item] = stock[adj[a].wh][adj[a].item] + Signed(a)
           /\ \A w \in Warehouses, i \in Ingredients :
                 w # adj[a].wh \/ i # adj[a].item => stock'[w][i] = stock[w][i]
<1> DEFINE v == adj[a].wh
           j == adj[a].item
<1>1. v \in Warehouses /\ j \in Ingredients
  BY DEF ApproveAdjustment, DocumentsOK
<1>2. Signed(a) \in Int
  BY DEF ShapeOK, Adjustment, Signed
<1>3. stock' = [stock EXCEPT ![v][j] = @ + Signed(a)]
  BY DEF ApproveAdjustment
<1> DEFINE d == Signed(a)
<1> HIDE DEF v, j, d
<1>4. stock' = [stock EXCEPT ![v] = [stock[v] EXCEPT ![j] = stock[v][j] + d]]
  BY <1>3 DEF d
<1>5. d \in Int
  BY <1>2 DEF d
<1>6. [stock[v] EXCEPT ![j] = stock[v][j] + d] \in [Ingredients -> Int]
  BY <1>1, <1>5 DEF BalancesOK, Balances
<1>7. stock' \in Balances
  BY <1>1, <1>4, <1>6 DEF BalancesOK, Balances
<1>8. /\ stock'[v][j] = stock[v][j] + d
      /\ \A w \in Warehouses, i \in Ingredients : w # v \/ i # j => stock'[w][i] = stock[w][i]
  BY <1>1, <1>4 DEF BalancesOK, Balances
<1> QED BY <1>1, <1>2, <1>7, <1>8 DEF v, j, d

\* What a receipt adds to an order line is never negative.
LEMMA ReceivedNat ==
    ASSUME ShapeOK, DocumentsOK, NEW c \in Callers, receipt[c] # NoReceipt, NEW l \in LineIds
    PROVE  Received(receipt[c].lines, l) \in Nat
<1> DEFINE lines == receipt[c].lines
           f == [n \in DOMAIN lines |-> lines[n].qty]
           S == {n \in DOMAIN lines : lines[n].key = l}
<1>1. Received(lines, l) = SumFunctionOnSet(f, S)
  BY DEF Received
<1>2. S \subseteq DOMAIN lines /\ \A n \in S : f[n] \in Nat
  BY DEF DocumentsOK
<1>3. IsFiniteSet(DOMAIN lines)
  BY InFlightFields, LinesOf
<1> HIDE DEF f, S
<1>4. IsFiniteSet(S)
  BY <1>2, <1>3, FS_Subset
<1> QED BY <1>1, <1>2, <1>4, SumNat

\* The rows of the lines of a document.
LEMMA RowsTyped ==
    ASSUME NEW w \in Warehouses, NEW lines \in Seq(Line)
    PROVE  /\ RowsFor(w, lines) \subseteq Warehouses \X Ingredients
           /\ \A i \in Ingredients : <<w, i>> \in RowsFor(w, lines) <=> i \in ItemsOf(lines)
<1>1. ItemsOf(lines) \subseteq Ingredients
  BY LinesOf DEF ItemsOf, Line
<1> QED BY <1>1 DEF RowsFor

\* Every step keeps the balances in order.
LEMMA BalancesStep ==
    ASSUME ShapeOK, DocumentsOK, BalancesOK, [Next]_vars
    PROVE  BalancesOK'
<1>1. ASSUME NEW r \in Report, FileReport(r), got' \in [LineIds -> Nat]
      PROVE  BalancesOK'
  <2>1. /\ stock' \in Balances
        /\ rows \subseteq rows' /\ rows' \subseteq Warehouses \X Ingredients
        /\ \A w \in Warehouses, i \in Ingredients : <<w, i>> \notin rows' => stock'[w][i] = 0
        /\ ledger' \subseteq Entry
    BY <1>1, FileBalances
  <2> QED BY <1>1, <2>1 DEF BalancesOK
<1>2. ASSUME NEW u \in Users, NEW o \in Outlets, NEW ref \in References, NEW d \in Deliveries,
             DirectReceive(u, o, ref, d), UNCHANGED purchasingVars
      PROVE  BalancesOK'
  <2> DEFINE r == NewReport(None, ref, Main(o), u, d)
  <2>1. r \in Report /\ FileReport(r)
    BY <1>2, InventoryAssumptions, NewReportType DEF Main, Warehouses, DirectReceive
  <2>2. got' \in [LineIds -> Nat]
    BY <1>2 DEF BalancesOK, purchasingVars
  <2> HIDE DEF r
  <2> QED BY <1>1, <2>1, <2>2
<1>3. ASSUME NEW c \in Callers, ReceiveFiles(c) PROVE BalancesOK'
  <2> DEFINE x == receipt[c]
             r == NewReport(x.po, None, Main(x.at), x.by, x.lines)
  <2>1. x # NoReceipt /\ FileReport(r)
    BY <1>3 DEF ReceiveFiles
  <2>2. r \in Report
    BY <2>1, InFlightFields, NewReportType DEF Main, Warehouses
  <2>3. got' = [l \in LineIds |-> IF l \in Keys(x.lines) THEN got[l] + Received(x.lines, l)
                                  ELSE got[l]]
    BY <1>3 DEF ReceiveFiles
  <2>4. \A l \in LineIds : Received(x.lines, l) \in Nat
    BY <2>1, ReceivedNat
  <2>5. got' \in [LineIds -> Nat]
    BY <2>3, <2>4 DEF BalancesOK
  <2> HIDE DEF r
  <2> QED BY <1>1, <2>1, <2>2, <2>5
<1>4. ASSUME NEW t \in Itos, NEW u \in Users, ConfirmIto(t, u), UNCHANGED purchasingVars
      PROVE  BalancesOK'
  <2> DEFINE m == Main(ito[t].at)
             k == Kitchen(ito[t].at)
             lines == ito[t].lines
  <2>1. /\ lines \in Seq(Line) /\ m \in Warehouses /\ k \in Warehouses /\ m # k
        /\ stock' \in Balances
        /\ \A i \in Ingredients : stock'[k][i] = stock[k][i] + Total(lines, i)
        /\ \A i \in Ingredients : stock'[m][i] = IF <<m, i>> \in rows
                                     THEN stock[m][i] - Total(lines, i) ELSE stock[m][i]
        /\ \A v \in Warehouses : v # m /\ v # k => stock'[v] = stock[v]
    BY <1>4, ConfirmBalances
  <2>2. /\ rows' = rows \cup RowsFor(k, lines)
        /\ PostLedger(EntriesFor("ITO", t, "OUT", m, lines) \cup EntriesFor("ITO", t, "IN", k, lines))
    BY <1>4 DEF ConfirmIto
  <2> HIDE DEF m, k, lines
  <2>3. EntriesFor("ITO", t, "OUT", m, lines) \cup EntriesFor("ITO", t, "IN", k, lines) \subseteq Entry
    BY <2>1, EntriesTyped
  <2>4. ledger' \subseteq Entry
    BY <2>2, <2>3 DEF PostLedger, BalancesOK
  <2>5. ASSUME NEW w \in Warehouses, NEW i \in Ingredients, <<w, i>> \notin rows'
        PROVE  stock'[w][i] = 0
    <3>1. stock[w][i] = 0 /\ <<w, i>> \notin rows
      BY <2>2, <2>5 DEF BalancesOK
    <3>2. CASE w = k
      <4>1. i \notin ItemsOf(lines)
        BY <2>1, <2>2, <2>5, <3>2, RowsTyped
      <4>2. Total(lines, i) = 0
        BY <2>1, <4>1, TotalInt
      <4> QED BY <2>1, <3>1, <3>2, <4>2
    <3>3. CASE w # k
      BY <2>1, <3>1, <3>3
    <3> QED BY <3>2, <3>3
  <2>6. rows' \subseteq Warehouses \X Ingredients
    BY <2>1, <2>2, RowsTyped DEF BalancesOK
  <2>7. OpeningRows \subseteq rows' /\ got' \in [LineIds -> Nat]
    BY <1>4, <2>2 DEF BalancesOK, purchasingVars
  <2> QED BY <2>1, <2>4, <2>5, <2>6, <2>7 DEF BalancesOK
<1>5. ASSUME NEW a \in Adjustments, NEW u \in Users, ApproveAdjustment(a, u), UNCHANGED purchasingVars
      PROVE  BalancesOK'
  <2> DEFINE v == adj[a].wh
             j == adj[a].item
  <2>1. /\ v \in Warehouses /\ j \in Ingredients /\ stock' \in Balances
        /\ \A w \in Warehouses, i \in Ingredients : w # v \/ i # j => stock'[w][i] = stock[w][i]
    BY <1>5, ApproveBalances
  <2>2. rows' = rows \cup {<<v, j>>} /\ PostLedger(EntriesFor("ADJUSTMENT", a, adj[a].way, v, LineOf(a)))
    BY <1>5 DEF ApproveAdjustment, RowMade
  <2>3. adj[a].way \in {"IN", "OUT"} /\ adj[a].qty \in Nat
    BY DEF ShapeOK, Adjustment
  <2>4. LineOf(a) \in Seq(Line)
    <3>1. [key |-> j, item |-> j, qty |-> adj[a].qty] \in Line
      BY <2>1, <2>3 DEF Line
    <3> QED BY <3>1 DEF LineOf
  <2> HIDE DEF v, j
  <2>5. EntriesFor("ADJUSTMENT", a, adj[a].way, v, LineOf(a)) \subseteq Entry
    BY <2>1, <2>3, <2>4, EntriesTyped
  <2>6. ledger' \subseteq Entry
    BY <2>2, <2>5 DEF PostLedger, BalancesOK
  <2>7. ASSUME NEW w \in Warehouses, NEW i \in Ingredients, <<w, i>> \notin rows'
        PROVE  stock'[w][i] = 0
    <3>1. stock[w][i] = 0 /\ (w # v \/ i # j)
      BY <2>2, <2>7 DEF BalancesOK
    <3> QED BY <2>1, <3>1
  <2>8. got' \in [LineIds -> Nat]
    BY <1>5 DEF BalancesOK, purchasingVars
  <2> QED BY <2>1, <2>2, <2>6, <2>7, <2>8 DEF BalancesOK
<1>6. CASE UNCHANGED <<stock, rows, ledger, got>>
  BY <1>6 DEF BalancesOK
<1>7. CASE PurchasingNext
  <2>1. ASSUME NEW u \in Users, PurchasingStep(u) PROVE UNCHANGED <<stock, rows, ledger, got>>
    BY <2>1 DEF PurchasingStep, CreatePurchaseRequest, SubmitPurchaseRequest, Transition,
                CreatePurchaseOrder, SendPurchaseOrder, ReceiveRead, inventoryVars
  <2>2. ASSUME NEW c \in Callers, ReceiveEnds(c) PROVE UNCHANGED <<stock, rows, ledger, got>>
    BY <2>2 DEF ReceiveEnds, inventoryVars
  <2> QED BY <1>3, <1>6, <1>7, <2>1, <2>2 DEF PurchasingNext
<1>8. CASE InventoryNext /\ UNCHANGED purchasingVars
  <2>1. \/ UNCHANGED <<stock, rows, ledger>>
        \/ \E u \in Users :
             \/ \E o \in Outlets, ref \in References, d \in Deliveries : DirectReceive(u, o, ref, d)
             \/ \E t \in Itos : ConfirmIto(t, u)
             \/ \E a \in Adjustments : ApproveAdjustment(a, u)
    BY <1>8 DEF InventoryNext, RequestIto, RequestAdjustment, RejectAdjustment, LookbackEnds
  <2> QED BY <1>2, <1>4, <1>5, <1>6, <1>8, <2>1 DEF purchasingVars
<1> QED BY <1>6, <1>7, <1>8 DEF Next, vars, inventoryVars, purchasingVars

\* The shape of the documents and of the balances together are inductive.
LEMMA BalancesInductive == Spec => [](ShapeOK /\ DocumentsOK /\ BalancesOK)
<1>1. Init => DocumentsOK
  BY DEF Init, InventoryInit, DocumentsOK, NoIto, NoAdjustment
<1>2. Init => BalancesOK
  BY InventoryAssumptions DEF Init, InventoryInit, BalancesOK, Balances
<1> QED BY <1>1, <1>2, DocumentsStep, BalancesStep, ShapeInductive, PTL DEF Spec

\* Every reachable state is well typed; in particular no balance differs from
\* zero without a row, and no order line has received less than nothing.
THEOREM PurchasingTypeCorrect == Spec => []PurchasingTypeOK
<1>1. ShapeOK /\ DocumentsOK /\ BalancesOK => PurchasingTypeOK
  BY DEF ShapeOK, BalancesOK, Balances, PurchasingTypeOK, InventoryTypeOK, PrStates, PoStates
<1> QED BY <1>1, BalancesInductive, PTL

-----------------------------------------------------------------------------
(* What the balances add up to.                                            *)

\* The sums as functions of the documents they are taken over.
ReportedBy(docs, w, i) ==
    SumFunctionOnSet([n \in DOMAIN docs |-> Total(docs[n].lines, i)],
                     {n \in DOMAIN docs : docs[n].wh = w})
TransferredBy(docs, w, i) ==
    SumFunctionOnSet([t \in Itos |-> IF w[2] = "MAIN" THEN 0 - Total(docs[t].lines, i)
                                     ELSE Total(docs[t].lines, i)],
                     {t \in Itos : docs[t].status = "CONFIRMED" /\ docs[t].at = w[1]})
AdjustedBy(docs, w, i) ==
    SumFunctionOnSet([a \in Adjustments |-> IF docs[a].way = "OUT" THEN 0 - docs[a].qty
                                            ELSE docs[a].qty],
                     {a \in Adjustments : /\ docs[a].status = "APPROVED"
                                          /\ docs[a].wh = w /\ docs[a].item = i})

\* They are the model's, before a step and after it.
LEMMA SumsOfDocuments ==
    ASSUME NEW w \in Warehouses, NEW i \in Ingredients
    PROVE  /\ Reported(w, i) = ReportedBy(reports, w, i)
           /\ Reported(w, i)' = ReportedBy(reports', w, i)
           /\ Transferred(w, i) = TransferredBy(ito, w, i)
           /\ Transferred(w, i)' = TransferredBy(ito', w, i)
           /\ Adjusted(w, i) = AdjustedBy(adj, w, i)
           /\ Adjusted(w, i)' = AdjustedBy(adj', w, i)
<1>1. /\ Reported(w, i) = ReportedBy(reports, w, i)
      /\ Transferred(w, i) = TransferredBy(ito, w, i)
      /\ Adjusted(w, i) = AdjustedBy(adj, w, i)
  BY DEF Reported, ReportedBy, Transferred, TransferredBy, Adjusted, AdjustedBy, Signed
<1>2. Reported(w, i)' = ReportedBy(reports', w, i)
  BY DEF Reported, ReportedBy, Total
<1>3. Transferred(w, i)' = TransferredBy(ito', w, i)
  BY DEF Transferred, TransferredBy, Total
<1>4. Adjusted(w, i)' = AdjustedBy(adj', w, i)
  BY DEF Adjusted, AdjustedBy, Signed
<1> QED BY <1>1, <1>2, <1>3, <1>4

\* All of them are sums of integers.
LEMMA SumsAreInt ==
    ASSUME ShapeOK, NEW w \in Warehouses, NEW i \in Ingredients
    PROVE  /\ ReportedBy(reports, w, i) \in Int
           /\ TransferredBy(ito, w, i) \in Int
           /\ AdjustedBy(adj, w, i) \in Int
<1>1. ReportedBy(reports, w, i) \in Int
  <2> DEFINE f == [n \in DOMAIN reports |-> Total(reports[n].lines, i)]
             S == {n \in DOMAIN reports : reports[n].wh = w}
  <2>1. Len(reports) \in Nat /\ DOMAIN reports = 1..Len(reports)
    BY LenProperties DEF ShapeOK
  <2>2. \A n \in DOMAIN reports : reports[n] \in Report
    BY <2>1, ElementOfSeq DEF ShapeOK
  <2>3. S \subseteq 1..Len(reports) /\ \A n \in S : f[n] \in Int
    BY <2>1, <2>2, TotalInt DEF Report
  <2>4. ReportedBy(reports, w, i) = SumFunctionOnSet(f, S)
    BY DEF ReportedBy
  <2> HIDE DEF f, S
  <2>5. IsFiniteSet(1..Len(reports))
    BY <2>1, FS_Interval
  <2>6. IsFiniteSet(S)
    BY <2>3, <2>5, FS_Subset
  <2> QED BY <2>3, <2>4, <2>6, SumInt
<1>2. TransferredBy(ito, w, i) \in Int
  <2> DEFINE f == [t \in Itos |-> IF w[2] = "MAIN" THEN 0 - Total(ito[t].lines, i)
                                  ELSE Total(ito[t].lines, i)]
             S == {t \in Itos : ito[t].status = "CONFIRMED" /\ ito[t].at = w[1]}
  <2>1. \A t \in Itos : Total(ito[t].lines, i) \in Int
    BY TotalInt DEF ShapeOK, Ito
  <2>2. S \subseteq Itos /\ \A t \in S : f[t] \in Int
    BY <2>1
  <2>3. TransferredBy(ito, w, i) = SumFunctionOnSet(f, S)
    BY DEF TransferredBy
  <2> HIDE DEF f, S
  <2>4. IsFiniteSet(S)
    BY <2>2, InventoryAssumptions, FS_Subset
  <2> QED BY <2>2, <2>3, <2>4, SumInt
<1>3. AdjustedBy(adj, w, i) \in Int
  <2> DEFINE f == [a \in Adjustments |-> IF adj[a].way = "OUT" THEN 0 - adj[a].qty ELSE adj[a].qty]
             S == {a \in Adjustments : /\ adj[a].status = "APPROVED"
                                       /\ adj[a].wh = w /\ adj[a].item = i}
  <2>1. \A a \in Adjustments : adj[a].qty \in Int
    BY DEF ShapeOK, Adjustment
  <2>2. S \subseteq Adjustments /\ \A a \in S : f[a] \in Int
    BY <2>1
  <2>3. AdjustedBy(adj, w, i) = SumFunctionOnSet(f, S)
    BY DEF AdjustedBy
  <2> HIDE DEF f, S
  <2>4. IsFiniteSet(S)
    BY <2>2, InventoryAssumptions, FS_Subset
  <2> QED BY <2>2, <2>3, <2>4, SumInt
<1> QED BY <1>1, <1>2, <1>3

\* A report filed adds its lines to the balances of its warehouse.
LEMMA ReportedFiled ==
    ASSUME ShapeOK, NEW r \in Report, FileReport(r), NEW w \in Warehouses, NEW i \in Ingredients
    PROVE  ReportedBy(reports', w, i) =
             ReportedBy(reports, w, i) + IF r.wh = w THEN Total(r.lines, i) ELSE 0
<1> DEFINE k == Len(reports) + 1
           f == [n \in DOMAIN reports |-> Total(reports[n].lines, i)]
           g == [n \in DOMAIN reports' |-> Total(reports'[n].lines, i)]
           S == {n \in DOMAIN reports : reports[n].wh = w}
           T == {n \in DOMAIN reports' : reports'[n].wh = w}
<1>1. /\ DOMAIN reports = 1..Len(reports) /\ DOMAIN reports' = 1..k /\ Len(reports) \in Nat
      /\ \A n \in 1..Len(reports) : reports'[n] = reports[n] /\ reports[n] \in Report
      /\ reports'[k] = r
  BY OneMoreReport
<1>2. k \notin DOMAIN reports /\ DOMAIN reports' = DOMAIN reports \cup {k}
  BY <1>1
<1>3. \A n \in S : f[n] \in Int /\ g[n] = f[n]
  BY <1>1, <1>2, TotalInt DEF Report
<1>4. g[k] = Total(r.lines, i) /\ g[k] \in Int
  BY <1>1, <1>2, TotalInt DEF Report
<1>5. T = IF r.wh = w THEN S \cup {k} ELSE S
  BY <1>1, <1>2
<1>6. k \notin S /\ S \subseteq 1..Len(reports)
  BY <1>1, <1>2
<1>7. ReportedBy(reports, w, i) = SumFunctionOnSet(f, S) /\ ReportedBy(reports', w, i) = SumFunctionOnSet(g, T)
  BY DEF ReportedBy
<1> HIDE DEF f, g, S, T, k
<1>8. IsFiniteSet(S)
  <2>1. IsFiniteSet(1..Len(reports))
    BY <1>1, FS_Interval
  <2> QED BY <1>6, <2>1, FS_Subset
<1>9. CASE r.wh = w
  <2>1. SumFunctionOnSet(g, S \cup {k}) = SumFunctionOnSet(f, S) + g[k]
    <3>1. k \notin S /\ g[k] \in Int
      BY <1>4, <1>6
    <3> QED BY <1>3, <1>8, <3>1, SumGrows
  <2> QED BY <1>4, <1>5, <1>7, <1>9, <2>1
<1>10. CASE r.wh # w
  <2>1. SumFunctionOnSet(g, S) = SumFunctionOnSet(f, S)
    BY <1>3, <1>8, SumSame
  <2>2. SumFunctionOnSet(f, S) \in Int
    BY <1>3, <1>8, SumInt
  <2> QED BY <1>5, <1>7, <1>10, <2>1, <2>2
<1> QED BY <1>9, <1>10

\* A window that closes changes no sum.
LEMMA ReportedClosed ==
    ASSUME ShapeOK, NEW n \in DOMAIN reports, LookbackEnds(n), NEW w \in Warehouses,
           NEW i \in Ingredients
    PROVE  ReportedBy(reports', w, i) = ReportedBy(reports, w, i)
<1> DEFINE f == [m \in DOMAIN reports |-> Total(reports[m].lines, i)]
           g == [m \in DOMAIN reports' |-> Total(reports'[m].lines, i)]
           S == {m \in DOMAIN reports : reports[m].wh = w}
           T == {m \in DOMAIN reports' : reports'[m].wh = w}
<1>1. /\ DOMAIN reports' = DOMAIN reports
      /\ \A m \in DOMAIN reports : reports'[m].lines = reports[m].lines /\ reports'[m].wh = reports[m].wh
  <2>1. /\ DOMAIN reports' = DOMAIN reports /\ reports[n] \in Report
        /\ \A m \in DOMAIN reports \ {n} : reports'[m] = reports[m]
        /\ reports'[n] = [reports[n] EXCEPT !.fresh = FALSE]
    BY OneClosedReport
  <2>2. reports'[n].lines = reports[n].lines /\ reports'[n].wh = reports[n].wh
    BY <2>1 DEF Report
  <2> QED BY <2>1, <2>2
<1>2. S = T /\ f = g
  BY <1>1
<1>3. ReportedBy(reports, w, i) = SumFunctionOnSet(f, S) /\ ReportedBy(reports', w, i) = SumFunctionOnSet(g, T)
  BY DEF ReportedBy
<1> HIDE DEF f, g, S, T
<1> QED BY <1>2, <1>3

\* A confirmation moves the lines of its order out of MAIN and into KITCHEN of one outlet.
LEMMA TransferredConfirmed ==
    ASSUME ShapeOK, NEW t \in Itos, NEW u \in Users, ConfirmIto(t, u), NEW w \in Warehouses,
           NEW i \in Ingredients
    PROVE  TransferredBy(ito', w, i) =
             TransferredBy(ito, w, i) + IF ito[t].at # w[1] THEN 0
                                        ELSE IF w[2] = "MAIN" THEN 0 - Total(ito[t].lines, i)
                                        ELSE Total(ito[t].lines, i)
<1> DEFINE f == [b \in Itos |-> IF w[2] = "MAIN" THEN 0 - Total(ito[b].lines, i)
                                ELSE Total(ito[b].lines, i)]
           g == [b \in Itos |-> IF w[2] = "MAIN" THEN 0 - Total(ito'[b].lines, i)
                                ELSE Total(ito'[b].lines, i)]
           S == {b \in Itos : ito[b].status = "CONFIRMED" /\ ito[b].at = w[1]}
           T == {b \in Itos : ito'[b].status = "CONFIRMED" /\ ito'[b].at = w[1]}
<1>1. ito[t].status = "REQUESTED" /\ ito' = [ito EXCEPT ![t].status = "CONFIRMED"] /\ ito[t] \in Ito
  BY DEF ConfirmIto, ItoOpen, ShapeOK
<1>2. /\ ito'[t].status = "CONFIRMED" /\ ito'[t].at = ito[t].at /\ ito'[t].lines = ito[t].lines
      /\ \A b \in Itos \ {t} : ito'[b] = ito[b]
  BY <1>1 DEF ShapeOK, Ito
<1>3. \A b \in Itos : Total(ito[b].lines, i) \in Int
  BY TotalInt DEF ShapeOK, Ito
<1>4. \A b \in Itos : f[b] \in Int /\ g[b] = f[b]
  BY <1>2, <1>3
<1>5. T = IF ito[t].at = w[1] THEN S \cup {t} ELSE S
  BY <1>2
<1>6. t \notin S /\ S \subseteq Itos
  BY <1>1
<1>7. /\ TransferredBy(ito, w, i) = SumFunctionOnSet(f, S)
      /\ TransferredBy(ito', w, i) = SumFunctionOnSet(g, T)
  BY DEF TransferredBy
<1>8. f[t] = IF w[2] = "MAIN" THEN 0 - Total(ito[t].lines, i) ELSE Total(ito[t].lines, i)
  OBVIOUS
<1> HIDE DEF f, g, S, T
<1>9. IsFiniteSet(S)
  BY <1>6, InventoryAssumptions, FS_Subset
<1>10. CASE ito[t].at = w[1]
  <2>1. SumFunctionOnSet(g, S \cup {t}) = SumFunctionOnSet(f, S) + g[t]
    BY <1>4, <1>6, <1>9, SumGrows
  <2> QED BY <1>4, <1>5, <1>7, <1>8, <1>10, <2>1
<1>11. CASE ito[t].at # w[1]
  <2>1. SumFunctionOnSet(g, S) = SumFunctionOnSet(f, S) /\ SumFunctionOnSet(f, S) \in Int
    BY <1>4, <1>6, <1>9, SumSame, SumInt
  <2> QED BY <1>5, <1>7, <1>11, <2>1
<1> QED BY <1>10, <1>11

\* A request moves nothing.
LEMMA TransferredRequested ==
    ASSUME ShapeOK, NEW t \in Itos, NEW u \in Users, NEW o \in Outlets, NEW d \in ItoLines,
           RequestIto(t, u, o, d), NEW w \in Warehouses, NEW i \in Ingredients
    PROVE  TransferredBy(ito', w, i) = TransferredBy(ito, w, i)
<1> DEFINE new == [status |-> "REQUESTED", at |-> o, lines |-> d]
           f == [b \in Itos |-> IF w[2] = "MAIN" THEN 0 - Total(ito[b].lines, i)
                                ELSE Total(ito[b].lines, i)]
           g == [b \in Itos |-> IF w[2] = "MAIN" THEN 0 - Total(ito'[b].lines, i)
                                ELSE Total(ito'[b].lines, i)]
           S == {b \in Itos : ito[b].status = "CONFIRMED" /\ ito[b].at = w[1]}
           T == {b \in Itos : ito'[b].status = "CONFIRMED" /\ ito'[b].at = w[1]}
<1>1. ito[t].status = "ABSENT" /\ ito' = [ito EXCEPT ![t] = new] /\ new.status = "REQUESTED"
  BY DEF RequestIto
<1> HIDE DEF new
<1>2. ito'[t] = new /\ \A b \in Itos \ {t} : ito'[b] = ito[b]
  BY <1>1 DEF ShapeOK
<1>3. S = T /\ t \notin S
  BY <1>1, <1>2
<1>4. \A b \in Itos \ {t} : g[b] = f[b]
  BY <1>2
<1>5. /\ TransferredBy(ito, w, i) = SumFunctionOnSet(f, S)
      /\ TransferredBy(ito', w, i) = SumFunctionOnSet(g, T)
  BY DEF TransferredBy
<1>6. S \subseteq Itos
  OBVIOUS
<1> HIDE DEF f, g, S, T
<1>7. IsFiniteSet(S) /\ \A b \in S : g[b] = f[b]
  BY <1>3, <1>4, <1>6, InventoryAssumptions, FS_Subset
<1>8. SumFunctionOnSet(g, S) = SumFunctionOnSet(f, S)
  BY <1>7, SumSame
<1> QED BY <1>3, <1>5, <1>8

\* What a change of one adjustment does to the sum of the approved ones.
LEMMA AdjustedChanges ==
    ASSUME ShapeOK, NEW a \in Adjustments, adj[a].status # "APPROVED",
           \A b \in Adjustments \ {a} : adj'[b] = adj[b],
           NEW w \in Warehouses, NEW i \in Ingredients
    PROVE  /\ adj'[a].status # "APPROVED" => AdjustedBy(adj', w, i) = AdjustedBy(adj, w, i)
           /\ /\ adj'[a].status = "APPROVED" /\ adj'[a].qty = adj[a].qty
              /\ adj'[a].wh = adj[a].wh /\ adj'[a].item = adj[a].item /\ adj'[a].way = adj[a].way
              => AdjustedBy(adj', w, i) =
                    AdjustedBy(adj, w, i) + IF adj[a].wh = w /\ adj[a].item = i THEN Signed(a) ELSE 0
<1> DEFINE f == [b \in Adjustments |-> IF adj[b].way = "OUT" THEN 0 - adj[b].qty ELSE adj[b].qty]
           g == [b \in Adjustments |-> IF adj'[b].way = "OUT" THEN 0 - adj'[b].qty ELSE adj'[b].qty]
           S == {b \in Adjustments : adj[b].status = "APPROVED" /\ adj[b].wh = w /\ adj[b].item = i}
           T == {b \in Adjustments : adj'[b].status = "APPROVED" /\ adj'[b].wh = w /\ adj'[b].item = i}
<1>1. AdjustedBy(adj, w, i) = SumFunctionOnSet(f, S) /\ AdjustedBy(adj', w, i) = SumFunctionOnSet(g, T)
  BY DEF AdjustedBy
<1>2. \A b \in Adjustments : adj[b].qty \in Int
  BY DEF ShapeOK, Adjustment
<1>3. a \notin S /\ S \subseteq Adjustments /\ \A b \in S : f[b] \in Int /\ g[b] = f[b]
  BY <1>2
<1>4. IsFiniteSet(S)
  BY <1>3, InventoryAssumptions, FS_Subset
<1>5. SumFunctionOnSet(g, S) = SumFunctionOnSet(f, S) /\ SumFunctionOnSet(f, S) \in Int
  <2> HIDE DEF f, g, S
  <2> QED BY <1>3, <1>4, SumSame, SumInt
<1>6. ASSUME adj'[a].status # "APPROVED" PROVE T = S
  BY <1>6
<1>7. ASSUME adj'[a].status = "APPROVED", adj'[a].wh = adj[a].wh, adj'[a].item = adj[a].item
      PROVE  T = IF adj[a].wh = w /\ adj[a].item = i THEN S \cup {a} ELSE S
  BY <1>7
<1>8. ASSUME adj'[a].qty = adj[a].qty, adj'[a].way = adj[a].way
      PROVE  g[a] = Signed(a) /\ g[a] \in Int
  BY <1>2, <1>8 DEF Signed
<1> HIDE DEF f, g, S, T
<1>9. ASSUME adj'[a].qty = adj[a].qty, adj'[a].way = adj[a].way
      PROVE  SumFunctionOnSet(g, S \cup {a}) = SumFunctionOnSet(f, S) + Signed(a)
  BY <1>3, <1>4, <1>8, <1>9, SumGrows
<1>10. ASSUME adj'[a].status # "APPROVED"
       PROVE  AdjustedBy(adj', w, i) = AdjustedBy(adj, w, i)
  BY <1>1, <1>5, <1>6, <1>10
<1>11. ASSUME adj'[a].status = "APPROVED", adj'[a].qty = adj[a].qty, adj'[a].wh = adj[a].wh,
              adj'[a].item = adj[a].item, adj'[a].way = adj[a].way
       PROVE  AdjustedBy(adj', w, i) =
                AdjustedBy(adj, w, i) + IF adj[a].wh = w /\ adj[a].item = i THEN Signed(a) ELSE 0
  <2>1. CASE adj[a].wh = w /\ adj[a].item = i
    <3>1. T = S \cup {a}
      BY <1>7, <1>11, <2>1
    <3>2. SumFunctionOnSet(g, S \cup {a}) = SumFunctionOnSet(f, S) + Signed(a)
      BY <1>9, <1>11
    <3> QED BY <1>1, <2>1, <3>1, <3>2
  <2>2. CASE ~(adj[a].wh = w /\ adj[a].item = i)
    <3>1. T = S
      BY <1>7, <1>11, <2>2
    <3> QED BY <1>1, <1>5, <2>2, <3>1
  <2> QED BY <2>1, <2>2
<1> QED BY <1>10, <1>11

\* The inductive form: the cells the property speaks about.
Told(w, i) == Opening[w][i] + ReportedBy(reports, w, i) + TransferredBy(ito, w, i) + AdjustedBy(adj, w, i)
Accounted(w, i) == <<w, i>> \in OpeningRows \/ w[2] = "KITCHEN"

\* The property says that these cells hold what the documents tell, before a
\* step and after it.
LEMMA AppliedOnceTold ==
    /\ DocumentsAppliedOnce <=>
         \A w \in Warehouses, i \in Ingredients : Accounted(w, i) => stock[w][i] = Told(w, i)
    /\ DocumentsAppliedOnce' <=>
         \A w \in Warehouses, i \in Ingredients :
            Accounted(w, i) =>
                stock'[w][i] = Opening[w][i] + ReportedBy(reports', w, i)
                                 + TransferredBy(ito', w, i) + AdjustedBy(adj', w, i)
<1>1. DocumentsAppliedOnce <=>
        \A w \in Warehouses, i \in Ingredients :
            Accounted(w, i) => stock[w][i] = Opening[w][i] + Reported(w, i) + Transferred(w, i)
                                               + Adjusted(w, i)
  BY DEF DocumentsAppliedOnce, Accounted
<1>2. DocumentsAppliedOnce' <=>
        \A w \in Warehouses, i \in Ingredients :
            Accounted(w, i) => stock'[w][i] = Opening[w][i] + Reported(w, i)' + Transferred(w, i)'
                                                + Adjusted(w, i)'
  BY DEF DocumentsAppliedOnce, Accounted
<1> QED BY <1>1, <1>2, SumsOfDocuments DEF Told

\* Before any document the balances are the opening balances.
LEMMA AppliedOnceAtFirst == Init => DocumentsAppliedOnce
<1> SUFFICES ASSUME Init, NEW w \in Warehouses, NEW i \in Ingredients
             PROVE  stock[w][i] = Told(w, i)
  BY AppliedOnceTold
<1>1. SumFunctionOnSet([n \in DOMAIN reports |-> Total(reports[n].lines, i)], {}) = 0
  BY FS_EmptySet, SumUnfold
<1>2. ReportedBy(reports, w, i) = 0
  <2>1. {n \in DOMAIN reports : reports[n].wh = w} = {}
    BY DEF Init, InventoryInit
  <2> QED BY <1>1, <2>1 DEF ReportedBy
<1>3. TransferredBy(ito, w, i) = 0
  <2>1. {t \in Itos : ito[t].status = "CONFIRMED" /\ ito[t].at = w[1]} = {}
    BY DEF Init, InventoryInit, NoIto
  <2>2. \A f : SumFunctionOnSet(f, {}) = 0
    BY FS_EmptySet, SumUnfold
  <2> QED BY <2>1, <2>2 DEF TransferredBy
<1>4. AdjustedBy(adj, w, i) = 0
  <2>1. {a \in Adjustments : adj[a].status = "APPROVED" /\ adj[a].wh = w /\ adj[a].item = i} = {}
    BY DEF Init, InventoryInit, NoAdjustment
  <2>2. \A f : SumFunctionOnSet(f, {}) = 0
    BY FS_EmptySet, SumUnfold
  <2> QED BY <2>1, <2>2 DEF AdjustedBy
<1>5. stock[w][i] = Opening[w][i] /\ Opening[w][i] \in Int
  BY InventoryAssumptions DEF Init, InventoryInit
<1> QED BY <1>2, <1>3, <1>4, <1>5 DEF Told

\* Every document moves a balance exactly once, however often its handlers are
\* called and whoever else is at it: reports filed by either route, transfer
\* orders confirmed and adjustments approved account for every balance.
THEOREM BalancesAreDocuments == Spec => []DocumentsAppliedOnce
<1>1. ShapeOK /\ DocumentsOK /\ BalancesOK /\ DocumentsAppliedOnce /\ [Next]_vars
        => DocumentsAppliedOnce'
  <2> SUFFICES ASSUME ShapeOK, DocumentsOK, BalancesOK, DocumentsAppliedOnce, [Next]_vars,
                      NEW w \in Warehouses, NEW i \in Ingredients, Accounted(w, i)
               PROVE  stock'[w][i] = Opening[w][i] + ReportedBy(reports', w, i)
                                       + TransferredBy(ito', w, i) + AdjustedBy(adj', w, i)
    BY AppliedOnceTold
  <2> DEFINE R == ReportedBy(reports, w, i)
             T == TransferredBy(ito, w, i)
             A == AdjustedBy(adj, w, i)
             Goal == stock'[w][i] = Opening[w][i] + ReportedBy(reports', w, i)
                                      + TransferredBy(ito', w, i) + AdjustedBy(adj', w, i)
  <2> SUFFICES Goal
    OBVIOUS
  <2>0. /\ stock[w][i] = Opening[w][i] + R + T + A
        /\ R \in Int /\ T \in Int /\ A \in Int /\ Opening[w][i] \in Int /\ stock[w][i] \in Int
    BY AppliedOnceTold, SumsAreInt, InventoryAssumptions DEF Told, BalancesOK, Balances
  <2>1. ASSUME NEW r \in Report, FileReport(r), UNCHANGED <<ito, adj>> PROVE Goal
    <3>1. r.wh \in Warehouses /\ r.lines \in Seq(Line) /\ Total(r.lines, i) \in Int
      BY TotalInt DEF Report
    <3>2. stock' = Credited(stock, r.wh, r.lines)
      BY <2>1 DEF FileReport
    <3>3. stock'[w][i] = stock[w][i] + IF r.wh = w THEN Total(r.lines, i) ELSE 0
      <4>1. CASE r.wh = w
        BY <3>1, <3>2, <4>1, CreditedBalances DEF BalancesOK
      <4>2. CASE r.wh # w
        BY <2>0, <3>1, <3>2, <4>2, CreditedBalances DEF BalancesOK
      <4> QED BY <4>1, <4>2
    <3>4. ReportedBy(reports', w, i) = R + IF r.wh = w THEN Total(r.lines, i) ELSE 0
      BY <2>1, ReportedFiled
    <3>5. TransferredBy(ito', w, i) = T /\ AdjustedBy(adj', w, i) = A
      BY <2>1
    <3> HIDE DEF R, T, A
    <3> QED BY <2>0, <3>1, <3>3, <3>4, <3>5
  <2>2. ASSUME NEW t \in Itos, NEW u \in Users, ConfirmIto(t, u) PROVE Goal
    <3> DEFINE m == Main(ito[t].at)
               k == Kitchen(ito[t].at)
               lines == ito[t].lines
    <3>1. /\ lines \in Seq(Line) /\ m \in Warehouses /\ k \in Warehouses /\ m # k
          /\ stock'[k][i] = stock[k][i] + Total(lines, i)
          /\ stock'[m][i] = IF <<m, i>> \in rows THEN stock[m][i] - Total(lines, i) ELSE stock[m][i]
          /\ w # m /\ w # k => stock'[w] = stock[w]
      BY <2>2, ConfirmBalances
    <3>2. Total(lines, i) \in Int
      BY <3>1, TotalInt
    <3>3. TransferredBy(ito', w, i) = T + IF ito[t].at # w[1] THEN 0
                                          ELSE IF w[2] = "MAIN" THEN 0 - Total(lines, i)
                                          ELSE Total(lines, i)
      BY <2>2, TransferredConfirmed
    <3>4. ReportedBy(reports', w, i) = R /\ AdjustedBy(adj', w, i) = A
      BY <2>2 DEF ConfirmIto
    <3>5. /\ w = m => ito[t].at = w[1] /\ w[2] = "MAIN"
          /\ w = k => ito[t].at = w[1] /\ w[2] = "KITCHEN"
          /\ w # m /\ w # k => ito[t].at # w[1]
      BY DEF Main, Kitchen, Warehouses
    <3>6. w = m => <<m, i>> \in rows
      BY <3>5 DEF Accounted, BalancesOK
    <3> HIDE DEF R, T, A, m, k, lines
    <3>7. CASE w = m
      <4>1. TransferredBy(ito', w, i) = T + (0 - Total(lines, i))
        BY <3>3, <3>5, <3>7
      <4>2. stock'[w][i] = stock[w][i] - Total(lines, i)
        BY <3>1, <3>6, <3>7
      <4> QED BY <2>0, <3>2, <3>4, <4>1, <4>2
    <3>8. CASE w = k
      <4>1. TransferredBy(ito', w, i) = T + Total(lines, i)
        BY <3>3, <3>5, <3>8
      <4>2. stock'[w][i] = stock[w][i] + Total(lines, i)
        BY <3>1, <3>8
      <4> QED BY <2>0, <3>2, <3>4, <4>1, <4>2
    <3>9. CASE w # m /\ w # k
      BY <2>0, <3>1, <3>2, <3>3, <3>4, <3>5, <3>9
    <3> QED BY <3>7, <3>8, <3>9
  <2>3. ASSUME NEW a \in Adjustments, NEW u \in Users, ApproveAdjustment(a, u) PROVE Goal
    <3>1. /\ Signed(a) \in Int
          /\ stock'[w][i] = stock[w][i] + IF adj[a].wh = w /\ adj[a].item = i THEN Signed(a) ELSE 0
      <4>1. CASE adj[a].wh = w /\ adj[a].item = i
        BY <2>3, <4>1, ApproveBalances
      <4>2. CASE ~(adj[a].wh = w /\ adj[a].item = i)
        BY <2>0, <2>3, <4>2, ApproveBalances
      <4> QED BY <4>1, <4>2
    <3>2. /\ adj[a].status = "PENDING" /\ adj' = [adj EXCEPT ![a].status = "APPROVED"]
          /\ UNCHANGED <<reports, ito>>
      BY <2>3 DEF ApproveAdjustment
    <3>3. /\ adj'[a].status = "APPROVED" /\ adj'[a].qty = adj[a].qty
          /\ adj'[a].wh = adj[a].wh /\ adj'[a].item = adj[a].item /\ adj'[a].way = adj[a].way
          /\ \A b \in Adjustments \ {a} : adj'[b] = adj[b]
      BY <3>2 DEF ShapeOK, Adjustment
    <3>4. AdjustedBy(adj', w, i) = A + IF adj[a].wh = w /\ adj[a].item = i THEN Signed(a) ELSE 0
      BY <3>2, <3>3, AdjustedChanges
    <3>5. ReportedBy(reports', w, i) = R /\ TransferredBy(ito', w, i) = T
      BY <3>2
    <3> HIDE DEF R, T, A
    <3> QED BY <2>0, <3>1, <3>4, <3>5
  <2>4. ASSUME NEW a \in Adjustments, adj[a].status \in {"ABSENT", "PENDING"},
               NEW new, new.status # "APPROVED", adj' = [adj EXCEPT ![a] = new],
               UNCHANGED <<stock, reports, ito>>
        PROVE  Goal
    <3>1. adj'[a] = new /\ \A b \in Adjustments \ {a} : adj'[b] = adj[b]
      BY <2>4 DEF ShapeOK
    <3>2. adj[a].status # "APPROVED" /\ adj'[a].status # "APPROVED"
      BY <2>4, <3>1
    <3>3. AdjustedBy(adj', w, i) = A
      BY <3>1, <3>2, AdjustedChanges
    <3> QED BY <2>0, <2>4, <3>3
  <2>5. ASSUME NEW n \in DOMAIN reports, LookbackEnds(n) PROVE Goal
    <3>1. ReportedBy(reports', w, i) = R /\ UNCHANGED <<stock, ito, adj>>
      BY <2>5, ReportedClosed DEF LookbackEnds
    <3> QED BY <2>0, <3>1
  <2>6. ASSUME NEW t \in Itos, NEW u \in Users, NEW o \in Outlets, NEW d \in ItoLines,
               RequestIto(t, u, o, d)
        PROVE  Goal
    <3>1. TransferredBy(ito', w, i) = T /\ UNCHANGED <<stock, reports, adj>>
      BY <2>6, TransferredRequested DEF RequestIto
    <3> QED BY <2>0, <3>1
  <2>7. CASE UNCHANGED <<stock, reports, ito, adj>>
    BY <2>0, <2>7
  <2>8. ASSUME NEW c \in Callers, ReceiveFiles(c) PROVE Goal
    <3> DEFINE x == receipt[c]
               r == NewReport(x.po, None, Main(x.at), x.by, x.lines)
    <3>1. x # NoReceipt /\ FileReport(r) /\ UNCHANGED <<ito, adj>>
      BY <2>8 DEF ReceiveFiles
    <3>2. r \in Report
      BY <3>1, InFlightFields, NewReportType DEF Main, Warehouses
    <3> HIDE DEF r, Goal
    <3> QED BY <2>1, <3>1, <3>2
  <2>9. ASSUME NEW u \in Users, NEW o \in Outlets, NEW ref \in References, NEW d \in Deliveries,
               DirectReceive(u, o, ref, d)
        PROVE  Goal
    <3> DEFINE r == NewReport(None, ref, Main(o), u, d)
    <3>1. r \in Report /\ FileReport(r) /\ UNCHANGED <<ito, adj>>
      BY <2>9, InventoryAssumptions, NewReportType DEF Main, Warehouses, DirectReceive
    <3> HIDE DEF r, Goal
    <3> QED BY <2>1, <3>1
  <2>10. ASSUME NEW a \in Adjustments, NEW u \in Users,
                \/ RejectAdjustment(a, u)
                \/ \E v \in Warehouses, j \in Ingredients, way \in {"IN", "OUT"}, q \in Amounts :
                     RequestAdjustment(a, u, v, j, way, q)
         PROVE  Goal
    <3>1. CASE RejectAdjustment(a, u)
      <4> DEFINE new == [adj[a] EXCEPT !.status = "REJECTED"]
      <4>1. new.status # "APPROVED"
        BY DEF ShapeOK, Adjustment
      <4>2. /\ adj[a].status = "PENDING" /\ adj' = [adj EXCEPT ![a] = new]
            /\ UNCHANGED <<stock, reports, ito>>
        BY <3>1 DEF RejectAdjustment
      <4> HIDE DEF new, Goal
      <4> QED BY <2>4, <4>1, <4>2
    <3>2. ASSUME NEW v \in Warehouses, NEW j \in Ingredients, NEW way \in {"IN", "OUT"},
                 NEW q \in Amounts, RequestAdjustment(a, u, v, j, way, q)
          PROVE  Goal
      <4> DEFINE new == [status |-> "PENDING", by |-> u, wh |-> v, item |-> j, way |-> way, qty |-> q]
      <4>1. new.status # "APPROVED"
        OBVIOUS
      <4>2. /\ adj[a].status = "ABSENT" /\ adj' = [adj EXCEPT ![a] = new]
            /\ UNCHANGED <<stock, reports, ito>>
        BY <3>2 DEF RequestAdjustment
      <4> HIDE DEF new, Goal
      <4> QED BY <2>4, <4>1, <4>2
    <3> HIDE DEF Goal
    <3> QED BY <2>10, <3>1, <3>2
  <2> HIDE DEF Goal
  <2>11. CASE PurchasingNext
    <3>1. ASSUME NEW u \in Users, PurchasingStep(u) PROVE UNCHANGED <<stock, reports, ito, adj>>
      BY <3>1 DEF PurchasingStep, CreatePurchaseRequest, SubmitPurchaseRequest, Transition,
                  CreatePurchaseOrder, SendPurchaseOrder, ReceiveRead, inventoryVars
    <3>2. ASSUME NEW c \in Callers, ReceiveEnds(c) PROVE UNCHANGED <<stock, reports, ito, adj>>
      BY <3>2 DEF ReceiveEnds, inventoryVars
    <3> QED BY <2>7, <2>8, <2>11, <3>1, <3>2 DEF PurchasingNext
  <2>12. CASE InventoryNext
    BY <2>2, <2>3, <2>5, <2>6, <2>9, <2>10, <2>12 DEF InventoryNext
  <2> QED BY <2>7, <2>11, <2>12 DEF Next, vars, inventoryVars
<1> QED BY <1>1, AppliedOnceAtFirst, BalancesInductive, PTL DEF Spec
=============================================================================
