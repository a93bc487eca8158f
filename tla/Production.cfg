CONSTANTS
    prod = prod
    shop = shop
    flour = flour
    dough = dough
    bread = bread
    a = a
    b = b
    loaf = loaf
    h1 = h1
    h2 = h2
    j1 = j1
    j2 = j2
    o1 = o1
    o2 = o2
    owner = owner
    main = main
    None = None
    Warehouses = {prod, shop}
    Purpose <- MCPurpose
    Site <- MCSite
    Lots <- MCLots
    Items = {flour, dough, bread}
    ItemOf <- MCItemOf
    Expiry <- MCExpiry
    InitStock <- MCInitStock
    OpeningLots = {a, b, loaf}
    LastDay = 1
    MaxQty = 3
    Slots <- MCSlots
    Callers = {c1, c2}
    Users = {owner, main}
    RoleOf <- MCRoleOf
    Access = {}
    MaxEdits = 1
    Headers = {h1, h2}
    MaxVersions = 2
    Recipes <- MCRecipes
    Yields = {1, 2}
    Jobs = {j1, j2}
    JobDrafts <- MCJobDrafts
    Fefo <- MCFefo
    Orders = {o1, o2}
    OrderDrafts <- MCOrderDrafts
SPECIFICATION MCSpec
SYMMETRY Symmetry
CHECK_DEADLOCK FALSE
INVARIANTS ProductionTypeOK NothingMakesItself JobsBackedByPosting OrdersBackedByPosting PromisedOnce
