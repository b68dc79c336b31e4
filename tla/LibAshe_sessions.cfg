SPECIFICATION MdSpec
CONSTANTS
    ProgramModules = {"ssl"}
    Object = {o1, o2}
    o1 = o1
    o2 = o2
    Context = {c1, c2, c3}
    c1 = c1
    c2 = c2
    c3 = c3
    Block = {b1, b2}
    b1 = b1
    b2 = b2
    MaxFed = 2
    Nothing = Nothing
SYMMETRY Symmetry
INVARIANTS
    ModulesBalanced
    AbilityIsBacked
    DigestIsExact
    ContextsAreOwned
PROPERTIES
    FailureLeavesNothing
CHECK_DEADLOCK FALSE
