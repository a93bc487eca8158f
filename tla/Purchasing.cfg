CONSTANTS
    owner = owner
    clerk = clerk
    manager = manager
    north = north
    rice = rice
    pork = pork
    r1 = r1
    p1 = p1
    l1 = l1
    l2 = l2
    Users = {owner, clerk, manager}
    RoleOf <- Roles
    Outlets = {north}
    Access <- Members
    Ingredients = {rice, pork}
    Opening <- Balances
    OpeningRows <- Rows
    Deliveries <- OneAndTwice
    References = {slip}
    Itos = {t1, t2}
    ItoLines <- ThereAndBack
    Adjustments = {a1}
    Amounts = {1}
    Orders = {p1}
    LineIds = {l1, l2}
    LookbackLimit = 2
    MaxReports = 4
    None = None
    Requests = {r1}
    RequestFor <- RaisedFor
    OrderOf <- OneOrder
    ItemFor <- TwoItems
    Ordered <- TwoAndOne
    Receipts <- PartsAndWhole
    Callers = {c1, c2}
SPECIFICATION MCSpec
SYMMETRY Symmetry
CHECK_DEADLOCK FALSE
INVARIANTS PurchasingTypeOK DocumentsAppliedOnce LedgerTellsDocuments NoDoubleReceipt PoStatusMatchesLines OrdersRestOnApproval
