SPECIFICATION EngineSpec
CONSTANTS
    Raws = {}
    PoolSizes = {1, 32}
    MaxCount = 3
INVARIANTS
    GenerateReturns
