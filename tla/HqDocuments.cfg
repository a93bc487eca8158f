CONSTANTS
    hq = hq
    quar = quar
    shop = shop
    flour = flour
    a = a
    b = b
    t1 = t1
    b1 = b1
    q1 = q1
    q2 = q2
    owner = owner
    main = main
    clerk = clerk
    None = None
    Warehouses = {hq, quar, shop}
    Purpose <- MCPurpose
    Site <- MCSite
    Lots <- MCLots
    Items = {flour}
    ItemOf <- MCItemOf
    Expiry <- MCExpiry
    InitStock <- MCInitStock
    OpeningLots = {a, b}
    LastDay = 1
    MaxQty = 2
    Slots <- MCSlots
    Callers = {c1, c2}
    Users = {owner, main, clerk}
    RoleOf <- MCRoleOf
    Access <- MCAccess
    MaxEdits = 1
    TransferOrders = {t1}
    TransferDrafts <- MCTransferDrafts
    ReturnBatches = {b1}
    ReturnDrafts <- MCReturnDrafts
    Releases = {q1, q2}
    ReleaseDrafts <- MCReleaseDrafts
SPECIFICATION MCSpec
SYMMETRY Symmetry
CHECK_DEADLOCK FALSE
INVARIANTS HqTypeOK StatusBackedByPosting ReceivedWithinDispatched ReleasedWithinHeld RetryReplays
PROPERTIES PostingsAreFinal
