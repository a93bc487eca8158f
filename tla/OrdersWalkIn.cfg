CONSTANTS
    rice = rice
    pork = pork
    Orders = {o1, o2}
    WalkIns = {o1, o2}
    LegacyOrders = {}
    Ingredients = {rice}
    Recipes <- OneRecipe
    InitStock <- OneEach
    Callers = {p1, p2}
    NoOrder = NoOrder
    NoSnapshot = NoSnapshot
    MaxItos = 0
SPECIFICATION Spec
SYMMETRY Symmetry
CHECK_DEADLOCK FALSE
INVARIANT WalkInsNeverOversell
