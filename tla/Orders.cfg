CONSTANTS
    rice = rice
    pork = pork
    Orders = {o1, o2}
    WalkIns = {o2}
    LegacyOrders = {o1}
    Ingredients = {rice, pork}
    Recipes <- AllRecipes
    InitStock <- OneEach
    Callers = {p1, p2}
    NoOrder = NoOrder
    NoSnapshot = NoSnapshot
    MaxItos = 1
SPECIFICATION Spec
SYMMETRY Symmetry
CHECK_DEADLOCK FALSE
INVARIANTS TypeOK StockMatchesLedger ConsumptionFollowsStage HoldOnlyWhileNew OneTicketPerOrder
PROPERTIES StageMovesForward KeepsPromise
