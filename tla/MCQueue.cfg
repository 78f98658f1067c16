SPECIFICATION MCSpec
CONSTANTS
    Orders = {o1, o2, o3}
    NoOrder = NoOrder
    Sessions = {s1}
    MaxRow = 3
    MaxPosition = 4
    Stock <- MCStock
    Days <- MCDays
    Tariffs <- MCTariffs
SYMMETRY Symmetry
INVARIANTS TypeOK PositionsDistinct BufferDecisionSound
PROPERTIES ImplementsList DequeueRenumbers
